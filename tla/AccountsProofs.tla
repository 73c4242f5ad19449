---------------------------- MODULE AccountsProofs -----------------------------
(***************************************************************************)
(* Theorems about Accounts, for any users, requests and bounds.  IInv is   *)
(* the conjunction of one invariant per theorem, each proved over all      *)
(* steps on its own:                                                       *)
(* SessionInv: the version of a token is the number of revocations its     *)
(*   login had seen, and the row's version is the number there were;       *)
(*   cookies and requests under way hold only such tokens of their user.   *)
(* ResetInv: a reset that is about to commit holds its row alone, and the  *)
(*   row stays live until then.                                            *)
(* FulfilInv: without a contest at most one handler carries a request out, *)
(*   and how often it was carried out follows from where that one is.      *)
(* DeletionInv: who fulfils a deletion and is about to complete it has     *)
(*   erased the person, and nobody comes back from that.                   *)
(* FiledInv: a rights request that was filed is still stored, and only     *)
(*   such a request is fulfilled.                                          *)
(* ErasureInv: nobody who could write for an erased person is still let in,*)
(*   and no request under way was let in before.                           *)
(* LimitInv: the requests stored and those about to be are fewer than the  *)
(*   limit and the slots together, as each was counted below the limit.    *)
(***************************************************************************)
EXTENDS Accounts, FiniteSetTheorems, TLAPS

Ops == Guarded \cup {"none", "login", "challenge", "forgot", "reset", "fulfil"}
Ats == {"guard", "refresh", "act", "deliver", "refused", "find", "revoke", "insert",
        "commit", "execute", "complete", "idle"}

\* A cookie or a token under way is the user's own, and of the session version its
\* login or reset ended up with.
Own(t, u) ==
    t # NoToken => /\ t \in Token /\ t.user = u /\ t.user \in Users
                   /\ t.sv = t.grant /\ t.sv <= account[u].sv

OwnCookies(c, u) == Own(c.access, u) /\ Own(c.refresh, u) /\ Own(c.mfa, u)
OwnRequest(r) ==
    /\ Own(r.token, r.user) /\ Own(r.refresh, r.user)
    /\ r.op \in {"none", "forgot", "reset", "fulfil"} => r.token = NoToken /\ r.refresh = NoToken
    /\ r.op \in {"login", "challenge"} \/ r.fresh => r.token # NoToken

\* Ending the sessions and raising the version are one write, and no token's
\* version is ever raised.
SessionInv ==
    /\ \A u \in Users : account[u].sv = grants[u]
    /\ \A t \in issued : t.sv = t.grant
    /\ \A u \in Users : OwnCookies(jar[u], u)
    /\ \A s \in Slots : OwnRequest(request[s])

-----------------------------------------------------------------------------
(* Types *)

LEMMA IdleType == Idle \in Request
<1>1. (CHOOSE e \in Emails : TRUE) \in Emails
  BY UserAssumption
<1> QED BY <1>1 DEF Idle, Request

LEMMA SessionType ==
    ASSUME TypeOK, NEW u \in Users
    PROVE  Session(u) \in Token
BY DEF TypeOK, Session, Token, Account

LEMMA AccountType ==
    ASSUME NEW a \in Account, NEW e \in Emails
    PROVE  /\ [a EXCEPT !.mfa = TRUE] \in Account
           /\ [a EXCEPT !.sv = a.sv + 1] \in Account
           /\ [a EXCEPT !.known = TRUE] \in Account
           /\ [a EXCEPT !.email = e] \in Account
<1>1. [a EXCEPT !.mfa = TRUE] \in Account
  BY DEF Account
<1>2. [a EXCEPT !.sv = a.sv + 1] \in Account
  BY DEF Account
<1>3. [a EXCEPT !.known = TRUE] \in Account
  BY DEF Account
<1>4. [a EXCEPT !.email = e] \in Account
  BY DEF Account
<1> QED BY <1>1, <1>2, <1>3, <1>4

LEMMA StepType ==
    ASSUME TypeOK, NEW s \in Slots, NEW r \in Request, Step(s, r)
    PROVE  request' \in [Slots -> Request] /\ started' = started /\ faults' = faults
BY DEF TypeOK, Step

LEMMA GotoType ==
    ASSUME TypeOK, NEW s \in Slots, NEW at \in Ats, Goto(s, at)
    PROVE  request' \in [Slots -> Request] /\ started' = started /\ faults' = faults
<1>1. request[s] \in Request
  BY DEF TypeOK
<1>2. [request[s] EXCEPT !.at = at] \in Request
  BY <1>1 DEF Request, Ats
<1> QED BY <1>2, StepType DEF Goto

LEMMA FinishType ==
    ASSUME TypeOK, NEW s \in Slots, Finish(s)
    PROVE  request' \in [Slots -> Request] /\ started' = started /\ faults' = faults
BY IdleType, StepType DEF Finish

LEMMA BeginType ==
    ASSUME TypeOK, NEW s \in Slots, NEW r \in Request, Begin(s, r)
    PROVE  request' \in [Slots -> Request] /\ started' \in 0 .. MaxRequests /\ faults' = faults
BY BoundAssumption DEF TypeOK, Begin

LEMMA RequestType ==
    ASSUME TypeOK, NEW s \in Slots
    PROVE  /\ request[s].op \in Ops /\ request[s].at \in Ats
           /\ request[s].user \in Users \cup {NoUser}
           /\ request[s].token \in Token \cup {NoToken}
           /\ request[s].refresh \in Token \cup {NoToken}
           /\ request[s].fresh \in BOOLEAN /\ request[s].email \in Emails
           /\ request[s].rows \in SUBSET Resets /\ request[s].right \in SUBSET Rights
BY DEF TypeOK, Request, Ops, Ats

LEMMA InitType == Init => TypeOK
<1> SUFFICES ASSUME Init PROVE TypeOK
  OBVIOUS
<1>1. (CHOOSE e \in Emails : TRUE) \in Emails
  BY UserAssumption
<1>2. request \in [Slots -> Request]
  BY IdleType DEF Init
<1>3. account \in [Users -> Account]
  BY UserAssumption DEF Init, Account
<1>4. data \in [Users -> SUBSET Kinds]
  BY DEF Init, Kinds, Scrubbed
<1>5. reset \in [Resets -> Reset]
  BY <1>1 DEF Init, Reset
<1>6. jar \in [Users -> Cookies]
  BY DEF Init, Cookies, NoCookies
<1> QED BY <1>2, <1>3, <1>4, <1>5, <1>6, BoundAssumption DEF Init, TypeOK

LEMMA NextType == ASSUME TypeOK, SessionInv, [Next]_vars PROVE TypeOK'
<1> USE DEF rows, sessions, ghosts, TypeOK
<1>1. ASSUME NEW s \in Slots, NEW u \in Users, Login(s, u) PROVE TypeOK'
  <2>1. PICK op \in {"challenge", "login"} :
          Begin(s, [Idle EXCEPT !.op = op, !.at = "deliver", !.user = u, !.token = Session(u)])
    BY <1>1 DEF Login
  <2>2. [Idle EXCEPT !.op = op, !.at = "deliver", !.user = u, !.token = Session(u)] \in Request
    BY IdleType, SessionType DEF Request
  <2>3. request' \in [Slots -> Request] /\ started' \in 0 .. MaxRequests /\ faults' = faults
    BY <2>1, <2>2, BeginType
  <2> QED BY <1>1, <2>3 DEF Login
<1>2. ASSUME NEW s \in Slots, NEW u \in Users, VerifyMfa(s, u) PROVE TypeOK'
  <2> DEFINE token == [jar[u].mfa EXCEPT !.sv = account[u].sv]
             r == [Idle EXCEPT !.op = "login", !.at = "deliver", !.user = u, !.token = token]
  <2>1. token \in Token
    BY <1>2 DEF VerifyMfa, Accepted, Token, Account
  <2>2. r \in Request
    BY <2>1, IdleType DEF Request
  <2>3. Begin(s, r)
    BY <1>2 DEF VerifyMfa
  <2>4. request' \in [Slots -> Request] /\ started' \in 0 .. MaxRequests /\ faults' = faults
    BY <2>3, <2>2, BeginType
  <2> QED BY <1>2, <2>4 DEF VerifyMfa
<1>3. ASSUME NEW s \in Slots, NEW u \in Users, ForgetSession(s, u) PROVE TypeOK'
  <2>1. request' \in [Slots -> Request] /\ started' \in 0 .. MaxRequests /\ faults' = faults
    BY <1>3, IdleType, BeginType DEF ForgetSession
  <2>2. NoCookies \in Cookies
    BY DEF NoCookies, Cookies
  <2> QED BY <1>3, <2>1, <2>2 DEF ForgetSession
<1>4. ASSUME NEW s \in Slots, NEW u \in Users, NEW op \in Guarded, Send(s, u, op) PROVE TypeOK'
  <2> DEFINE refresh == IF op = "logout" THEN NoToken ELSE jar[u].refresh
             r == [Idle EXCEPT !.op = op, !.at = "guard", !.user = u, !.token = jar[u].access,
                               !.refresh = refresh]
  <2>1. jar[u].access \in Token \cup {NoToken} /\ refresh \in Token \cup {NoToken}
    BY DEF Cookies
  <2>2. r \in Request
    BY <2>1, IdleType DEF Request
  <2>3. Begin(s, r)
    BY <1>4 DEF Send
  <2>4. request' \in [Slots -> Request] /\ started' \in 0 .. MaxRequests /\ faults' = faults
    BY <2>3, <2>2, BeginType
  <2> QED BY <1>4, <2>4 DEF Send
<1>5. ASSUME NEW s \in Slots, Deliver(s) PROVE TypeOK'
  <2>1. request' \in [Slots -> Request] /\ started' = started /\ faults' = faults
    BY <1>5, FinishType DEF Deliver
  <2>2. request[s].token \in Token \cup {NoToken} /\ request[s].user \in Users \cup {NoUser}
    BY RequestType
  <2>3. request[s].token # NoToken
    BY <1>5 DEF Deliver, SessionInv, OwnRequest
  <2>4. /\ [access |-> request[s].token, refresh |-> request[s].token, mfa |-> NoToken] \in Cookies
        /\ [NoCookies EXCEPT !.mfa = request[s].token] \in Cookies
    BY <2>2 DEF Cookies, NoCookies
  <2>5. jar' \in [Users -> Cookies]
    BY <1>5, <2>4 DEF Deliver
  <2> QED BY <1>5, <2>1, <2>2, <2>3, <2>5 DEF Deliver
<1>6. ASSUME NEW s \in Slots, GuardWithToken(s) \/ GuardWithoutToken(s) PROVE TypeOK'
  <2>1. request' \in [Slots -> Request] /\ started' = started /\ faults' = faults
    BY <1>6, GotoType DEF GuardWithToken, GuardWithoutToken, Ats
  <2> QED BY <1>6, <2>1 DEF GuardWithToken, GuardWithoutToken
<1>7. ASSUME NEW s \in Slots, Refresh(s) PROVE TypeOK'
  <2> DEFINE r == request[s]
  <2>1. r \in Request
    OBVIOUS
  <2>2. CASE Accepted(r.refresh)
    <3>1. [r.refresh EXCEPT !.sv = account[r.user].sv] \in Token
      <4>1. r.refresh \in Token /\ r.refresh.user = r.user /\ r.user \in Users
        <5>1. r.refresh \in Token
          BY <2>2 DEF Accepted
        <5>2. r.refresh # NoToken
          BY <5>1, UserAssumption DEF Token, NoToken
        <5> QED BY <5>1, <5>2 DEF SessionInv, OwnRequest, Own
      <4>2. account[r.user].sv \in Nat
        BY <4>1 DEF Account
      <4> QED BY <4>1, <4>2 DEF Token
    <3>2. Refreshed(r) \in Request
      BY <2>1, <3>1 DEF Refreshed, Request
    <3> QED BY <1>7, <2>2, <3>2, StepType DEF Refresh
  <2>3. CASE ~Accepted(r.refresh)
    <3>1. [r EXCEPT !.at = "refused"] \in Request
      BY <2>1 DEF Request
    <3> QED BY <1>7, <2>3, <3>1, StepType DEF Refresh
  <2> QED BY <2>2, <2>3
<1>8. ASSUME NEW s \in Slots, UpdateConsent(s) \/ RequestDataExport(s) \/ ConfirmMfaEnrollment(s)
      PROVE TypeOK'
  <2>1. request' \in [Slots -> Request] /\ started' = started /\ faults' = faults
    BY <1>8, GotoType DEF UpdateConsent, RequestDataExport, ConfirmMfaEnrollment, StoreFor, Ats
  <2>2. data' \in [Users -> SUBSET Kinds]
    BY <1>8 DEF UpdateConsent, RequestDataExport, ConfirmMfaEnrollment, StoreFor, Kinds, Scrubbed
  <2>3. account' \in [Users -> Account]
    <3>1. \A u \in Users : [account[u] EXCEPT !.mfa = TRUE] \in Account
      BY AccountType, UserAssumption
    <3> QED BY <1>8, <3>1 DEF UpdateConsent, RequestDataExport, ConfirmMfaEnrollment
  <2> QED BY <1>8, <2>1, <2>2, <2>3
          DEF UpdateConsent, RequestDataExport, ConfirmMfaEnrollment, StoreFor
<1>9. ASSUME NEW s \in Slots, CreateRightsRequest(s) PROVE TypeOK'
  <2>1. request' \in [Slots -> Request] /\ started' = started /\ faults' = faults
    BY <1>9, GotoType DEF CreateRightsRequest, Ats
  <2>2. right' \in [Rights -> {"absent", "PENDING", "COMPLETED"}] /\ data' \in [Users -> SUBSET Kinds]
    BY <1>9 DEF CreateRightsRequest, Kinds
  <2> QED BY <1>9, <2>1, <2>2 DEF CreateRightsRequest
<1>10. ASSUME NEW s \in Slots, Logout(s) PROVE TypeOK'
  <2>1. request' \in [Slots -> Request] /\ started' = started /\ faults' = faults
    BY <1>10, GotoType DEF Logout, Ats
  <2>2. account' \in [Users -> Account] /\ grants' \in [Users -> Nat]
    <3>1. \A u \in Users : [account[u] EXCEPT !.sv = account[u].sv + 1] \in Account
      BY AccountType, UserAssumption
    <3> DEFINE u == request[s].user
    <3>2. account' = [account EXCEPT ![u] = [account[u] EXCEPT !.sv = account[u].sv + 1]]
      BY <1>10 DEF Logout, Revoke
    <3>3. account' \in [Users -> Account]
      BY <3>1, <3>2
    <3>4. grants' = [grants EXCEPT ![u] = grants[u] + 1]
      BY <1>10 DEF Logout, Revoke
    <3> HIDE DEF u
    <3>5. \A x \in Users : grants[x] + 1 \in Nat
      OBVIOUS
    <3>6. grants' \in [Users -> Nat]
      BY <3>4, <3>5
    <3> QED BY <3>3, <3>6
  <2> QED BY <1>10, <2>1, <2>2 DEF Logout
<1>11. ASSUME NEW s \in Slots, Answer(s) \/ ClearCookies(s) PROVE TypeOK'
  <2>1. request' \in [Slots -> Request] /\ started' = started /\ faults' = faults
    BY <1>11, FinishType DEF Answer, ClearCookies
  <2>2. request[s].token \in Token \cup {NoToken} /\ (request[s].fresh => request[s].token # NoToken)
    BY RequestType DEF SessionInv, OwnRequest
  <2>3. jar' \in [Users -> Cookies]
    BY <1>11, <2>2 DEF Answer, ClearCookies, Cookies, NoCookies
  <2> QED BY <1>11, <2>1, <2>2, <2>3 DEF Answer, ClearCookies
<1>12. ASSUME NEW s \in Slots, NEW e \in Emails, ForgotPassword(s, e) PROVE TypeOK'
  <2>1. [Idle EXCEPT !.op = "forgot", !.at = "find", !.email = e] \in Request
    BY IdleType DEF Request
  <2> QED BY <1>12, <2>1, BeginType DEF ForgotPassword
<1>13. ASSUME NEW s \in Slots, FindUserByEmail(s) PROVE TypeOK'
  <2>1. \A u \in Users : [request[s] EXCEPT !.at = "revoke", !.user = u] \in Request
    <3>1. request[s] \in Request
      OBVIOUS
    <3> QED BY <3>1 DEF Request
  <2>2. request' \in [Slots -> Request] /\ started' = started /\ faults' = faults
    <3>1. CASE Goto(s, "insert")
      BY <3>1, GotoType DEF Ats
    <3>2. CASE \E u \in Users : Step(s, [request[s] EXCEPT !.at = "revoke", !.user = u])
      BY <3>2, <2>1, StepType
    <3> QED BY <1>13, <3>1, <3>2 DEF FindUserByEmail
  <2> QED BY <1>13, <2>2 DEF FindUserByEmail
<1>14. ASSUME NEW s \in Slots, RevokeOlder(s) PROVE TypeOK'
  <2>1. request[s] \in Request /\ LiveFor(request[s].email) \in SUBSET Resets
    BY DEF LiveFor
  <2>2. [request[s] EXCEPT !.at = "insert", !.rows = LiveFor(request[s].email)] \in Request
    BY <2>1 DEF Request
  <2> QED BY <1>14, <2>2, StepType DEF RevokeOlder
<1>15. ASSUME NEW s \in Slots, InsertReset(s) PROVE TypeOK'
  <2> DEFINE r == request[s]
             row == [state |-> IF r.user = NoUser THEN "blank" ELSE "live",
                     email |-> r.email, user |-> r.user, old |-> FALSE]
  <2>1. request' \in [Slots -> Request] /\ started' = started /\ faults' = faults
    BY <1>15, FinishType DEF InsertReset
  <2>2. row \in Reset
    BY RequestType DEF Reset
  <2>3. PICK i \in Resets : reset' = [j \in Resets |->
                             IF j = i THEN row
                             ELSE IF j \in r.rows /\ reset[j].state = "live"
                                  THEN [reset[j] EXCEPT !.state = "revoked"] ELSE reset[j]]
    BY <1>15 DEF InsertReset
  <2>4. \A j \in Resets : [reset[j] EXCEPT !.state = "revoked"] \in Reset
    BY DEF Reset
  <2>5. reset' \in [Resets -> Reset]
    <3> HIDE DEF row
    <3> QED BY <2>2, <2>3, <2>4
  <2> QED BY <1>15, <2>1, <2>5 DEF InsertReset
<1>16. ASSUME NEW s \in Slots, NEW i \in Resets, ReadToken(s, i) PROVE TypeOK'
  <2>1. [Idle EXCEPT !.op = "reset", !.at = "commit", !.rows = {i}] \in Request
    BY IdleType DEF Request
  <2> QED BY <1>16, <2>1, BeginType DEF ReadToken
<1>17. ASSUME NEW s \in Slots, NEW i \in Resets, ChangePassword(s, i) PROVE TypeOK'
  <2>1. request' \in [Slots -> Request] /\ started' = started /\ faults' = faults
    BY <1>17, FinishType DEF ChangePassword
  <2>2. account' \in [Users -> Account] /\ grants' \in [Users -> Nat]
    <3>1. \A u \in Users : [account[u] EXCEPT !.sv = account[u].sv + 1] \in Account
      BY AccountType, UserAssumption
    <3> DEFINE bumped == [account EXCEPT ![reset[i].user].sv = account[reset[i].user].sv + 1]
    <3>2. bumped \in [Users -> Account]
      BY <3>1
    <3>3. \A u \in Users : [bumped[u] EXCEPT !.known = TRUE] \in Account
      BY <3>2, AccountType, UserAssumption
    <3>4. account' = [bumped EXCEPT ![reset[i].user] = [bumped[reset[i].user] EXCEPT !.known = TRUE]]
      BY <1>17 DEF ChangePassword
    <3> HIDE DEF bumped
    <3>5. account' \in [Users -> Account]
      BY <3>2, <3>3, <3>4
    <3> QED BY <1>17, <3>5 DEF ChangePassword
  <2>3. reset' \in [Resets -> Reset] /\ uses' \in [Resets -> Nat]
    BY <1>17 DEF ChangePassword, Reset
  <2> QED BY <1>17, <2>1, <2>2, <2>3 DEF ChangePassword
<1>18. ASSUME NEW s \in Slots, NEW q \in Rights, FindRequest(s, q) PROVE TypeOK'
  <2>1. [Idle EXCEPT !.op = "fulfil", !.at = "execute", !.right = {q}] \in Request
    BY IdleType DEF Request
  <2> QED BY <1>18, <2>1, BeginType DEF FindRequest, Contest
<1>19. ASSUME NEW s \in Slots, NEW q \in Rights, FulfilWithRow(s, q) \/ FulfilCorrection(s, q)
       PROVE TypeOK'
  <2>1. /\ request' \in [Slots -> Request] /\ started' = started /\ faults' = faults
        /\ acted' \in [Rights -> Nat]
    BY <1>19, GotoType DEF FulfilWithRow, FulfilCorrection, Executed, Ats
  <2>2. data' \in [Users -> SUBSET Kinds]
    BY <1>19, RightAssumption DEF FulfilWithRow, FulfilCorrection, Kinds, Scrubbed
  <2>3. account' \in [Users -> Account]
    <3>1. \A u \in Users, e \in Emails : [account[u] EXCEPT !.email = e] \in Account
      BY AccountType
    <3>2. Correction[q] \subseteq Emails
      BY RightAssumption
    <3>3. CASE FulfilWithRow(s, q)
      BY <3>3 DEF FulfilWithRow
    <3>4. CASE FulfilCorrection(s, q)
      <4> DEFINE u == UserOf[q]
      <4>1. PICK e \in Correction[q] : account' = [account EXCEPT ![u] = [account[u] EXCEPT !.email = e]]
        BY <3>4 DEF FulfilCorrection
      <4>2. u \in Users
        BY RightAssumption
      <4> QED BY <3>1, <3>2, <4>1, <4>2
    <3> QED BY <1>19, <3>3, <3>4
  <2>4. excused' \subseteq erased /\ erased' = erased
    BY <1>19 DEF FulfilWithRow, FulfilCorrection, CarriedOutLate
  <2> QED BY <1>19, <2>1, <2>2, <2>3, <2>4 DEF FulfilWithRow, FulfilCorrection, Executed
<1>20. ASSUME NEW s \in Slots, NEW q \in Rights, CorrectionFails(s, q) \/ ErasureFails(s, q) PROVE TypeOK'
  BY <1>20, FinishType DEF CorrectionFails, ErasureFails
<1>21. ASSUME NEW s \in Slots, NEW q \in Rights, FulfilDeletion(s, q) PROVE TypeOK'
  <2> DEFINE u == UserOf[q]
  <2>1. /\ request' \in [Slots -> Request] /\ started' = started /\ faults' = faults
        /\ acted' \in [Rights -> Nat]
    BY <1>21, GotoType DEF FulfilDeletion, Executed, Ats
  <2>2. u \in Users /\ Anonymous[u] \in Emails
    BY RightAssumption, UserAssumption
  <2>3. account' \in [Users -> Account] /\ grants' \in [Users -> Nat]
    BY <1>21, <2>2 DEF FulfilDeletion, Account
  <2>4. reset' \in [Resets -> Reset]
    BY <1>21 DEF FulfilDeletion, Erase, Reset
  <2>5. excused' \subseteq erased' /\ erased' \subseteq Users /\ data' \in [Users -> SUBSET Kinds]
    BY <1>21, <2>2 DEF FulfilDeletion, Erase, Kinds
  <2> QED BY <1>21, <2>1, <2>3, <2>4, <2>5 DEF FulfilDeletion, Executed
<1>22. ASSUME NEW s \in Slots, NEW q \in Rights, CompleteRequest(s, q) PROVE TypeOK'
  BY <1>22, FinishType DEF CompleteRequest
<1>23. ASSUME NEW s \in Slots, Die(s) PROVE TypeOK'
  <2>1. request' \in [Slots -> Request] /\ request[s].right \subseteq Rights
    BY <1>23, IdleType, RequestType DEF Die
  <2> QED BY <1>23, <2>1, BoundAssumption DEF Die
<1>24. ASSUME NEW u \in Users, AccessExpires(u) PROVE TypeOK'
  <2>1. jar' \in [Users -> Cookies]
    BY <1>24 DEF AccessExpires, Cookies
  <2> QED BY <1>24, <2>1 DEF AccessExpires
<1>25. ASSUME NEW i \in Resets, HourPasses(i) PROVE TypeOK'
  <2>1. reset' \in [Resets -> Reset]
    BY <1>25 DEF HourPasses, Reset
  <2> QED BY <1>25, <2>1 DEF HourPasses
<1>26. CASE UNCHANGED vars
  BY <1>26 DEF vars
<1> QED
  BY <1>1, <1>2, <1>3, <1>4, <1>5, <1>6, <1>7, <1>8, <1>9, <1>10, <1>11, <1>12, <1>13, <1>14,
     <1>15, <1>16, <1>17, <1>18, <1>19, <1>20, <1>21, <1>22, <1>23, <1>24, <1>25, <1>26
  DEF Next, SessionStep, ResetStep, FulfilStep

-----------------------------------------------------------------------------
(* Sessions *)

LEMMA IdleOwn == OwnRequest(Idle)
BY DEF OwnRequest, Own, Idle

LEMMA InitSession == Init => SessionInv
<1> SUFFICES ASSUME Init PROVE SessionInv
  OBVIOUS
<1>1. \A u \in Users : account[u].sv = grants[u] /\ OwnCookies(jar[u], u)
  BY DEF Init, OwnCookies, Own, NoCookies
<1>2. \A s \in Slots : OwnRequest(request[s])
  BY IdleOwn DEF Init
<1> QED BY <1>1, <1>2 DEF Init, SessionInv

\* What ends a session raises the version by one, and nothing else touches it.
Grown == \A u \in Users : account[u].sv <= account'[u].sv

LEMMA VersionStep ==
    ASSUME TypeOK, SessionInv, [Next]_vars
    PROVE  Grown /\ \A u \in Users : account'[u].sv = grants'[u]
<1> DEFINE Goal == Grown /\ \A u \in Users : account'[u].sv = grants'[u]
<1> USE DEF rows, sessions, ghosts
<1>1. \A u \in Users : account[u] \in Account /\ account[u].sv \in Nat /\ account[u].sv = grants[u]
  BY DEF TypeOK, SessionInv, Account
<1>2. ASSUME account' = account, grants' = grants PROVE Goal
  BY <1>1, <1>2 DEF Grown
<1>3. ASSUME NEW s \in Slots, ConfirmMfaEnrollment(s) PROVE Goal
  BY <1>1, <1>3 DEF ConfirmMfaEnrollment, StoreFor, Grown, TypeOK, Account
<1>4. ASSUME NEW s \in Slots, Logout(s) PROVE Goal
  BY <1>1, <1>4 DEF Logout, Revoke, Grown, TypeOK, Account
<1>5. ASSUME NEW s \in Slots, NEW i \in Resets, ChangePassword(s, i) PROVE Goal
  BY <1>1, <1>5 DEF ChangePassword, Grown, TypeOK, Account
<1>6. ASSUME NEW s \in Slots, NEW q \in Rights, FulfilCorrection(s, q) PROVE Goal
  BY <1>1, <1>6 DEF FulfilCorrection, Grown, TypeOK, Account
<1>7. ASSUME NEW s \in Slots, NEW q \in Rights, FulfilDeletion(s, q) PROVE Goal
  BY <1>1, <1>7 DEF FulfilDeletion, Grown, TypeOK, Account
<1>8. ASSUME NEW s \in Slots, SessionStep(s), ~ConfirmMfaEnrollment(s), ~Logout(s)
      PROVE  account' = account /\ grants' = grants
  BY <1>8 DEF SessionStep, Login, VerifyMfa, ForgetSession, Send, Deliver, GuardWithToken,
     GuardWithoutToken, Refresh, UpdateConsent, RequestDataExport, StoreFor, CreateRightsRequest,
     Answer, ClearCookies
<1>9. ASSUME NEW s \in Slots, ResetStep(s), \A i \in Resets : ~ChangePassword(s, i)
      PROVE  account' = account /\ grants' = grants
  BY <1>9 DEF ResetStep, ForgotPassword, FindUserByEmail, RevokeOlder, InsertReset, ReadToken
<1>10. ASSUME NEW s \in Slots, NEW q \in Rights, FulfilStep(s, q), ~FulfilCorrection(s, q),
              ~FulfilDeletion(s, q)
       PROVE  account' = account /\ grants' = grants
  BY <1>10 DEF FulfilStep, FindRequest, FulfilWithRow, CorrectionFails, ErasureFails, CompleteRequest
<1>11. ASSUME \/ \E s \in Slots : Die(s)
              \/ \E u \in Users : AccessExpires(u)
              \/ \E i \in Resets : HourPasses(i)
              \/ UNCHANGED vars
       PROVE  account' = account /\ grants' = grants
  BY <1>11 DEF Die, AccessExpires, HourPasses, vars
<1> HIDE DEF Goal
<1> QED BY <1>2, <1>3, <1>4, <1>5, <1>6, <1>7, <1>8, <1>9, <1>10, <1>11 DEF Next, Goal

LEMMA OwnStays ==
    ASSUME TypeOK, TypeOK', Grown, NEW t, NEW u, Own(t, u)
    PROVE  Own(t, u)'
<1>1. \A x \in Users : account[x].sv \in Nat /\ account'[x].sv \in Nat
  BY DEF TypeOK, Account
<1> QED BY <1>1 DEF Own, Grown, Token

LEMMA OwnRequestStays ==
    ASSUME TypeOK, TypeOK', Grown, NEW r, OwnRequest(r)
    PROVE  OwnRequest(r)'
BY OwnStays DEF OwnRequest

\* A request that takes a step keeps the others' tokens.
LEMMA OwnStep ==
    ASSUME TypeOK, TypeOK', SessionInv, Grown, NEW s \in Slots, NEW r, OwnRequest(r),
           request' = [request EXCEPT ![s] = r]
    PROVE  \A x \in Slots : OwnRequest(request[x])'
<1> SUFFICES ASSUME NEW x \in Slots PROVE OwnRequest(request[x])'
  OBVIOUS
<1>1. OwnRequest(request[x])
  BY DEF SessionInv
<1>2. request'[x] = IF x = s THEN r ELSE request[x]
  BY DEF TypeOK
<1>3. OwnRequest(request'[x])
  BY <1>1, <1>2
<1>4. ASSUME NEW y, y = request'[x] PROVE OwnRequest(request[x])'
  <2>1. OwnRequest(y)
    BY <1>3, <1>4
  <2>2. OwnRequest(y)'
    BY <2>1, OwnRequestStays
  <2> QED BY <2>2, <1>4 DEF OwnRequest, Own
<1> QED BY <1>4

LEMMA OwnGoto ==
    ASSUME TypeOK, TypeOK', SessionInv, Grown, NEW s \in Slots, NEW at, Goto(s, at)
    PROVE  \A x \in Slots : OwnRequest(request[x])'
<1> DEFINE r == [request[s] EXCEPT !.at = at]
<1>1. r.op = request[s].op /\ r.user = request[s].user /\ r.token = request[s].token
      /\ r.refresh = request[s].refresh /\ r.fresh = request[s].fresh
  BY DEF TypeOK, Request
<1>2. OwnRequest(request[s])
  BY DEF SessionInv
<1>3. request' = [request EXCEPT ![s] = r]
  BY DEF Goto, Step
<1> HIDE DEF r
<1>4. OwnRequest(r)
  BY <1>1, <1>2 DEF OwnRequest
<1> QED BY <1>3, <1>4, OwnStep

LEMMA OwnFinish ==
    ASSUME TypeOK, TypeOK', SessionInv, Grown, NEW s \in Slots, request' = [request EXCEPT ![s] = Idle]
    PROVE  \A x \in Slots : OwnRequest(request[x])'
BY IdleOwn, OwnStep

LEMMA RequestsStayOwn ==
    ASSUME TypeOK, TypeOK', SessionInv, Grown, [Next]_vars
    PROVE  \A x \in Slots : OwnRequest(request[x])'
<1> DEFINE Goal == \A x \in Slots : OwnRequest(request[x])'
<1>1. ASSUME NEW s \in Slots, NEW r, OwnRequest(r), request' = [request EXCEPT ![s] = r] PROVE Goal
  BY <1>1, OwnStep
<1>2. ASSUME NEW s \in Slots, NEW at, Goto(s, at) PROVE Goal
  BY <1>2, OwnGoto
<1>3. ASSUME NEW s \in Slots, request' = [request EXCEPT ![s] = Idle] PROVE Goal
  BY <1>3, OwnFinish
<1>4. ASSUME request' = request PROVE Goal
  <2>1. SUFFICES ASSUME NEW x \in Slots PROVE OwnRequest(request[x])'
    OBVIOUS
  <2>2. request' = [request EXCEPT ![x] = request[x]]
    BY <1>4 DEF TypeOK
  <2>3. OwnRequest(request[x])
    BY DEF SessionInv
  <2> QED BY <2>2, <2>3, <1>1
<1>5. \A u \in Users : OwnCookies(jar[u], u)
  BY DEF SessionInv
<1> HIDE DEF Goal
<1>6. ASSUME NEW s \in Slots, NEW u \in Users, Login(s, u) PROVE Goal
  <2>1. PICK op \in {"challenge", "login"} :
          Begin(s, [Idle EXCEPT !.op = op, !.at = "deliver", !.user = u, !.token = Session(u)])
    BY <1>6 DEF Login
  <2> DEFINE r == [Idle EXCEPT !.op = op, !.at = "deliver", !.user = u, !.token = Session(u)]
  <2>2. Own(Session(u), u)
    BY SessionType DEF Own, Session, SessionInv, TypeOK, Account
  <2>3. Session(u) # NoToken
    BY UserAssumption DEF Session, NoToken
  <2>4. r.op = op /\ r.user = u /\ r.token = Session(u) /\ r.refresh = NoToken
    BY DEF Idle
  <2>5. request' = [request EXCEPT ![s] = r]
    BY <2>1 DEF Begin
  <2> HIDE DEF r
  <2>6. OwnRequest(r)
    BY <2>2, <2>3, <2>4 DEF OwnRequest, Own
  <2> QED BY <2>5, <2>6, <1>1
<1>7. ASSUME NEW s \in Slots, NEW u \in Users, VerifyMfa(s, u) PROVE Goal
  <2> DEFINE token == [jar[u].mfa EXCEPT !.sv = account[u].sv]
             r == [Idle EXCEPT !.op = "login", !.at = "deliver", !.user = u, !.token = token]
  <2>1. jar[u].mfa \in Token /\ jar[u].mfa.sv = account[jar[u].mfa.user].sv
    BY <1>7 DEF VerifyMfa, Accepted
  <2>2. jar[u].mfa # NoToken
    BY <2>1, UserAssumption DEF Token, NoToken
  <2>3. Own(jar[u].mfa, u)
    BY <1>5 DEF OwnCookies
  <2>4. token = jar[u].mfa
    BY <2>1, <2>2, <2>3 DEF Own, Token
  <2>5. r.op = "login" /\ r.user = u /\ r.token = token /\ r.refresh = NoToken
    BY DEF Idle
  <2>6. request' = [request EXCEPT ![s] = r]
    BY <1>7 DEF VerifyMfa, Begin
  <2> HIDE DEF token, r
  <2>7. OwnRequest(r)
    BY <2>2, <2>3, <2>4, <2>5 DEF OwnRequest, Own
  <2> QED BY <2>6, <2>7, <1>1
<1>8. ASSUME NEW s \in Slots, NEW u \in Users, NEW op \in Guarded, Send(s, u, op) PROVE Goal
  <2> DEFINE refresh == IF op = "logout" THEN NoToken ELSE jar[u].refresh
             r == [Idle EXCEPT !.op = op, !.at = "guard", !.user = u, !.token = jar[u].access,
                               !.refresh = refresh]
  <2>1. Own(jar[u].access, u) /\ Own(jar[u].refresh, u)
    BY <1>5 DEF OwnCookies
  <2>2. Own(refresh, u)
    BY <2>1 DEF Own
  <2>3. r.op = op /\ r.user = u /\ r.token = jar[u].access /\ r.refresh = refresh /\ ~r.fresh
    BY DEF Idle
  <2>4. request' = [request EXCEPT ![s] = r]
    BY <1>8 DEF Send, Begin
  <2> HIDE DEF r, refresh
  <2>5. OwnRequest(r)
    BY <2>1, <2>2, <2>3 DEF OwnRequest, Guarded
  <2> QED BY <2>4, <2>5, <1>1
<1>9. ASSUME NEW s \in Slots, Refresh(s) PROVE Goal
  <2> DEFINE r == request[s]
             token == [r.refresh EXCEPT !.sv = account[r.user].sv]
  <2>1. CASE ~Accepted(r.refresh)
    BY <1>9, <2>1, <1>2 DEF Refresh, Goto
  <2>2. CASE Accepted(r.refresh)
    <3>1. r.refresh \in Token /\ r.refresh.sv = account[r.refresh.user].sv
      BY <2>2 DEF Accepted
    <3>2. r.refresh # NoToken
      BY <3>1, UserAssumption DEF Token, NoToken
    <3>3. Own(r.refresh, r.user)
      BY DEF SessionInv, OwnRequest
    <3>4. token = r.refresh
      BY <3>1, <3>2, <3>3 DEF Own, Token
    <3>5. /\ Refreshed(r).op = r.op /\ Refreshed(r).user = r.user
          /\ Refreshed(r).token = token /\ Refreshed(r).refresh = NoToken
      BY DEF Refreshed, TypeOK, Request
    <3>6. request' = [request EXCEPT ![s] = Refreshed(r)]
      BY <1>9, <2>2 DEF Refresh, Step
    <3>7. r.op \in Guarded
      BY <1>9 DEF Refresh
    <3> HIDE DEF token
    <3>8. OwnRequest(Refreshed(r))
      BY <3>2, <3>3, <3>4, <3>5, <3>7 DEF OwnRequest, Own, Guarded
    <3> QED BY <3>6, <3>8, <1>1
  <2> QED BY <2>1, <2>2
<1>10. ASSUME NEW s \in Slots, NEW e \in Emails, ForgotPassword(s, e) PROVE Goal
  <2> DEFINE r == [Idle EXCEPT !.op = "forgot", !.at = "find", !.email = e]
  <2>1. r.token = NoToken /\ r.refresh = NoToken /\ ~r.fresh /\ r.op = "forgot"
    BY DEF Idle
  <2>2. request' = [request EXCEPT ![s] = r]
    BY <1>10 DEF ForgotPassword, Begin
  <2> HIDE DEF r
  <2>3. OwnRequest(r)
    BY <2>1 DEF OwnRequest, Own
  <2> QED BY <2>2, <2>3, <1>1
<1>11. ASSUME NEW s \in Slots, NEW i \in Resets, ReadToken(s, i) PROVE Goal
  <2> DEFINE r == [Idle EXCEPT !.op = "reset", !.at = "commit", !.rows = {i}]
  <2>1. r.token = NoToken /\ r.refresh = NoToken /\ ~r.fresh /\ r.op = "reset"
    BY DEF Idle
  <2>2. request' = [request EXCEPT ![s] = r]
    BY <1>11 DEF ReadToken, Begin
  <2> HIDE DEF r
  <2>3. OwnRequest(r)
    BY <2>1 DEF OwnRequest, Own
  <2> QED BY <2>2, <2>3, <1>1
<1>12. ASSUME NEW s \in Slots, NEW q \in Rights, FindRequest(s, q) PROVE Goal
  <2> DEFINE r == [Idle EXCEPT !.op = "fulfil", !.at = "execute", !.right = {q}]
  <2>1. r.token = NoToken /\ r.refresh = NoToken /\ ~r.fresh /\ r.op = "fulfil"
    BY DEF Idle
  <2>2. request' = [request EXCEPT ![s] = r]
    BY <1>12 DEF FindRequest, Begin
  <2> HIDE DEF r
  <2>3. OwnRequest(r)
    BY <2>1 DEF OwnRequest, Own
  <2> QED BY <2>2, <2>3, <1>1
<1>13. ASSUME NEW s \in Slots, FindUserByEmail(s) PROVE Goal
  <2>1. CASE Goto(s, "insert")
    BY <2>1, <1>2
  <2>2. ASSUME NEW u \in Users, Step(s, [request[s] EXCEPT !.at = "revoke", !.user = u]) PROVE Goal
    <3> DEFINE r == [request[s] EXCEPT !.at = "revoke", !.user = u]
    <3>1. r.op = "forgot" /\ r.token = NoToken /\ r.refresh = NoToken /\ ~r.fresh
      <4>1. request[s].op = "forgot"
        BY <1>13 DEF FindUserByEmail, At
      <4>2. OwnRequest(request[s])
        BY DEF SessionInv
      <4>3. request[s].token = NoToken /\ request[s].refresh = NoToken /\ ~request[s].fresh
        BY <4>1, <4>2 DEF OwnRequest
      <4>4. request[s] \in Request
        BY DEF TypeOK
      <4>5. /\ r.op = request[s].op /\ r.token = request[s].token
            /\ r.refresh = request[s].refresh /\ r.fresh = request[s].fresh
        BY <4>4 DEF Request
      <4> QED BY <4>1, <4>3, <4>5
    <3>2. request' = [request EXCEPT ![s] = r]
      BY <2>2 DEF Step
    <3> HIDE DEF r
    <3>3. OwnRequest(r)
      BY <3>1 DEF OwnRequest, Own
    <3> QED BY <3>2, <3>3, <1>1
  <2> QED BY <1>13, <2>1, <2>2 DEF FindUserByEmail
<1>14. ASSUME NEW s \in Slots, RevokeOlder(s) PROVE Goal
  <2> DEFINE r == [request[s] EXCEPT !.at = "insert", !.rows = LiveFor(request[s].email)]
  <2>1. r.op = "forgot" /\ r.token = NoToken /\ r.refresh = NoToken /\ ~r.fresh
    BY <1>14 DEF RevokeOlder, At, TypeOK, Request, SessionInv, OwnRequest
  <2>2. request' = [request EXCEPT ![s] = r]
    BY <1>14 DEF RevokeOlder, Step
  <2> HIDE DEF r
  <2>3. OwnRequest(r)
    BY <2>1 DEF OwnRequest, Own
  <2> QED BY <2>2, <2>3, <1>1
<1>15. ASSUME NEW s \in Slots, SessionStep(s) PROVE Goal
  BY <1>15, <1>2, <1>3, <1>6, <1>7, <1>8, <1>9
  DEF SessionStep, ForgetSession, Begin, Deliver, Finish, Step, GuardWithToken, GuardWithoutToken,
      UpdateConsent, RequestDataExport, ConfirmMfaEnrollment, StoreFor, CreateRightsRequest, Logout,
      Answer, ClearCookies
<1>16. ASSUME NEW s \in Slots, ResetStep(s) PROVE Goal
  BY <1>16, <1>3, <1>10, <1>11, <1>13, <1>14 DEF ResetStep, InsertReset, ChangePassword, Finish, Step
<1>17. ASSUME NEW s \in Slots, NEW q \in Rights, FulfilStep(s, q) PROVE Goal
  BY <1>17, <1>2, <1>3, <1>12 DEF FulfilStep, FulfilWithRow, FulfilCorrection, CorrectionFails, ErasureFails,
     FulfilDeletion, Executed, CompleteRequest, Finish, Step
<1>18. ASSUME NEW s \in Slots, Die(s) PROVE Goal
  BY <1>18, <1>3 DEF Die
<1>19. ASSUME \/ \E u \in Users : AccessExpires(u)
              \/ \E i \in Resets : HourPasses(i)
              \/ UNCHANGED vars
       PROVE  Goal
  BY <1>19, <1>4 DEF AccessExpires, HourPasses, vars
<1> QED BY <1>15, <1>16, <1>17, <1>18, <1>19 DEF Next, Goal

LEMMA CookiesStayOwn ==
    ASSUME TypeOK, TypeOK', SessionInv, Grown, [Next]_vars
    PROVE  \A x \in Users : OwnCookies(jar[x], x)'
<1> DEFINE Goal == \A x \in Users : OwnCookies(jar[x], x)'
<1> USE DEF rows, sessions, ghosts
<1>1. ASSUME NEW u \in Users, NEW c, OwnCookies(c, u), jar' = [jar EXCEPT ![u] = c] PROVE Goal
  <2> SUFFICES ASSUME NEW x \in Users PROVE OwnCookies(jar[x], x)'
    OBVIOUS
  <2>1. OwnCookies(jar[x], x)
    BY DEF SessionInv
  <2>2. OwnCookies(jar'[x], x)
    BY <1>1, <2>1 DEF TypeOK
  <2>3. ASSUME NEW y, y = jar'[x] PROVE OwnCookies(jar[x], x)'
    <3>1. Own(y.access, x) /\ Own(y.refresh, x) /\ Own(y.mfa, x)
      BY <2>2, <2>3 DEF OwnCookies
    <3>2. Own(y.access, x)' /\ Own(y.refresh, x)' /\ Own(y.mfa, x)'
      BY <3>1, OwnStays
    <3> QED BY <3>2, <2>3 DEF OwnCookies, Own
  <2> QED BY <2>3
<1>2. ASSUME jar' = jar PROVE Goal
  <2> SUFFICES ASSUME NEW x \in Users PROVE OwnCookies(jar[x], x)'
    OBVIOUS
  <2>1. OwnCookies(jar[x], x)
    BY DEF SessionInv
  <2>2. Own(jar[x].access, x) /\ Own(jar[x].refresh, x) /\ Own(jar[x].mfa, x)
    BY <2>1 DEF OwnCookies
  <2>3. jar' = [jar EXCEPT ![x] = jar[x]]
    BY <1>2 DEF TypeOK
  <2> QED BY <1>1, <2>1, <2>3
<1>3. ASSUME NEW u, jar' = [jar EXCEPT ![u] = NoCookies] PROVE Goal
  <2>1. OwnCookies(NoCookies, u)
    BY DEF OwnCookies, NoCookies, Own
  <2>2. CASE u \in Users
    BY <1>1, <1>3, <2>1, <2>2
  <2>3. CASE u \notin Users
    BY <1>2, <1>3, <2>3 DEF TypeOK
  <2> QED BY <2>2, <2>3
<1>4. ASSUME NEW s \in Slots, Deliver(s) PROVE Goal
  <2> DEFINE r == request[s]
             c == IF r.op = "login"
                  THEN [access |-> r.token, refresh |-> r.token, mfa |-> NoToken]
                  ELSE [NoCookies EXCEPT !.mfa = r.token]
  <2>1. OwnRequest(r)
    BY DEF SessionInv
  <2>2. Own(r.token, r.user) /\ r.token # NoToken /\ r.user \in Users
    BY <1>4, <2>1 DEF Deliver, OwnRequest, Own
  <2>3. OwnCookies(c, r.user)
    BY <2>2 DEF OwnCookies, NoCookies, Own
  <2>4. jar' = [jar EXCEPT ![r.user] = c]
    BY <1>4 DEF Deliver
  <2> HIDE DEF c
  <2> QED BY <2>2, <2>3, <2>4, <1>1
<1>5. ASSUME NEW s \in Slots, Answer(s), request[s].fresh PROVE Goal
  <2> DEFINE r == request[s]
             c == [jar[r.user] EXCEPT !.access = r.token]
  <2>1. OwnRequest(r)
    BY DEF SessionInv
  <2>2. Own(r.token, r.user) /\ r.token # NoToken /\ r.user \in Users
    BY <1>5, <2>1 DEF OwnRequest, Own
  <2>3. OwnCookies(jar[r.user], r.user) /\ jar[r.user] \in Cookies
    BY <2>2 DEF SessionInv, TypeOK
  <2>4. c.access = r.token /\ c.refresh = jar[r.user].refresh /\ c.mfa = jar[r.user].mfa
    BY <2>3 DEF Cookies
  <2>5. jar' = [jar EXCEPT ![r.user] = c]
    BY <1>5 DEF Answer
  <2> HIDE DEF c
  <2>6. OwnCookies(c, r.user)
    BY <2>2, <2>3, <2>4 DEF OwnCookies
  <2> QED BY <2>2, <2>5, <2>6, <1>1
<1>6. ASSUME NEW u \in Users, AccessExpires(u) PROVE Goal
  <2> DEFINE c == [jar[u] EXCEPT !.access = NoToken]
  <2>1. OwnCookies(jar[u], u) /\ jar[u] \in Cookies
    BY DEF SessionInv, TypeOK
  <2>2. c.access = NoToken /\ c.refresh = jar[u].refresh /\ c.mfa = jar[u].mfa
    BY <2>1 DEF Cookies
  <2>3. jar' = [jar EXCEPT ![u] = c]
    BY <1>6 DEF AccessExpires
  <2> HIDE DEF c
  <2>4. OwnCookies(c, u)
    BY <2>1, <2>2 DEF OwnCookies, Own
  <2> QED BY <2>3, <2>4, <1>1
<1> HIDE DEF Goal
<1>7. ASSUME NEW s \in Slots, SessionStep(s) PROVE Goal
  BY <1>7, <1>2, <1>3, <1>4, <1>5
  DEF SessionStep, Login, VerifyMfa, ForgetSession, Send, GuardWithToken, GuardWithoutToken, Refresh,
      UpdateConsent, RequestDataExport, ConfirmMfaEnrollment, StoreFor, CreateRightsRequest, Logout,
      Answer, ClearCookies
<1>8. ASSUME NEW s \in Slots, ResetStep(s) PROVE Goal
  BY <1>8, <1>2 DEF ResetStep, ForgotPassword, FindUserByEmail, RevokeOlder, InsertReset, ReadToken,
     ChangePassword
<1>9. ASSUME NEW s \in Slots, NEW q \in Rights, FulfilStep(s, q) PROVE Goal
  BY <1>9, <1>2 DEF FulfilStep, FindRequest, FulfilWithRow, FulfilCorrection, CorrectionFails, ErasureFails,
     FulfilDeletion, Executed, CompleteRequest
<1>10. ASSUME \/ \E s \in Slots : Die(s)
              \/ \E i \in Resets : HourPasses(i)
              \/ UNCHANGED vars
       PROVE  Goal
  BY <1>10, <1>2 DEF Die, HourPasses, vars
<1> QED BY <1>6, <1>7, <1>8, <1>9, <1>10 DEF Next, Goal

LEMMA NextSession ==
    ASSUME TypeOK, TypeOK', SessionInv, [Next]_vars
    PROVE  SessionInv'
<1> USE DEF rows, sessions, ghosts
<1>1. Grown /\ \A u \in Users : account'[u].sv = grants'[u]
  BY VersionStep
<1>2. \A u \in Users : OwnCookies(jar[u], u)'
  BY <1>1, CookiesStayOwn
<1>3. \A s \in Slots : OwnRequest(request[s])'
  BY <1>1, RequestsStayOwn
<1>4. ASSUME NEW s \in Slots, Deliver(s) \/ Answer(s) PROVE \A t \in issued' : t.sv = t.grant
  <2>1. Own(request[s].token, request[s].user)
    BY DEF SessionInv, OwnRequest
  <2>2. request[s].op \in {"login", "challenge"} \/ request[s].fresh => request[s].token # NoToken
    BY DEF SessionInv, OwnRequest
  <2> QED BY <1>4, <2>1, <2>2 DEF Deliver, Answer, Own, SessionInv
<1>5. (\A s \in Slots : ~Deliver(s) /\ ~Answer(s)) => issued' = issued
  <2>1. ASSUME NEW s \in Slots, SessionStep(s), ~Deliver(s), ~Answer(s) PROVE issued' = issued
    BY <2>1 DEF SessionStep, Login, VerifyMfa, ForgetSession, Send, GuardWithToken,
       GuardWithoutToken, Refresh, UpdateConsent, RequestDataExport, ConfirmMfaEnrollment, StoreFor,
       CreateRightsRequest, Logout, ClearCookies
  <2>2. ASSUME NEW s \in Slots, ResetStep(s) PROVE issued' = issued
    BY <2>2 DEF ResetStep, ForgotPassword, FindUserByEmail, RevokeOlder, InsertReset, ReadToken,
       ChangePassword
  <2>3. ASSUME NEW s \in Slots, NEW q \in Rights, FulfilStep(s, q) PROVE issued' = issued
    BY <2>3 DEF FulfilStep, FindRequest, FulfilWithRow, FulfilCorrection, CorrectionFails, ErasureFails,
       FulfilDeletion, Executed, CompleteRequest
  <2> QED BY <2>1, <2>2, <2>3 DEF Next, Die, AccessExpires, HourPasses, vars
<1>6. \A t \in issued' : t.sv = t.grant
  BY <1>4, <1>5 DEF SessionInv
<1> QED BY <1>1, <1>2, <1>3, <1>6 DEF SessionInv

LEMMA SessionsEndHere == TypeOK /\ SessionInv => SessionsEnd
BY DEF SessionInv, SessionsEnd, Accepted, Token, TypeOK

-----------------------------------------------------------------------------
(* What a step of a session leaves alone *)

Apart == {"forgot", "reset", "fulfil"}

LEMMA SessionFrame ==
    ASSUME TypeOK, NEW s \in Slots, SessionStep(s)
    PROVE  /\ request[s].op \notin Apart /\ request'[s].op \notin Apart
           /\ request'[s].right \in {request[s].right, {}}
           /\ \A x \in Slots \ {s} : request'[x] = request[x]
           /\ reset' = reset /\ uses' = uses /\ acted' = acted /\ contested' = contested
           /\ erased' = erased /\ excused' = excused
<1> DEFINE Goal == /\ request[s].op \notin Apart /\ request'[s].op \notin Apart
                   /\ request'[s].right \in {request[s].right, {}}
                   /\ \A x \in Slots \ {s} : request'[x] = request[x]
                   /\ reset' = reset /\ uses' = uses /\ acted' = acted /\ contested' = contested
                   /\ erased' = erased /\ excused' = excused
<1> USE DEF rows, sessions, ghosts
<1>1. ASSUME NEW u \in Users, Login(s, u) PROVE Goal
  BY <1>1 DEF Login, Begin, Idle, Apart, TypeOK
<1>2. ASSUME NEW u \in Users, VerifyMfa(s, u) PROVE Goal
  BY <1>2 DEF VerifyMfa, Begin, Idle, Apart, TypeOK
<1>3. ASSUME NEW u \in Users, ForgetSession(s, u) PROVE Goal
  BY <1>3 DEF ForgetSession, Begin, Idle, Apart, TypeOK
<1>4. ASSUME NEW u \in Users, NEW op \in Guarded, Send(s, u, op) PROVE Goal
  BY <1>4 DEF Send, Begin, Idle, Apart, TypeOK, Guarded
<1>5. ASSUME Deliver(s) PROVE Goal
  BY <1>5 DEF Deliver, Finish, Step, Idle, Apart, TypeOK
<1>6. ASSUME GuardWithToken(s) \/ GuardWithoutToken(s) PROVE Goal
  <2>1. PICK at \in Ats : Goto(s, at)
    BY <1>6 DEF GuardWithToken, GuardWithoutToken, Ats
  <2>2. request[s].op \in Guarded
    BY <1>6 DEF GuardWithToken, GuardWithoutToken
  <2> QED BY <1>6, <2>1, <2>2 DEF GuardWithToken, GuardWithoutToken, Goto, Step, Apart, TypeOK,
        Guarded, Request
<1>7. ASSUME Refresh(s) PROVE Goal
  BY <1>7 DEF Refresh, Refreshed, Step, Apart, TypeOK, Guarded, Request
<1>8. ASSUME UpdateConsent(s) \/ RequestDataExport(s) \/ ConfirmMfaEnrollment(s) PROVE Goal
  BY <1>8 DEF UpdateConsent, RequestDataExport, ConfirmMfaEnrollment, StoreFor, Goto, Step, At, Apart,
     TypeOK, Request
<1>9. ASSUME CreateRightsRequest(s) \/ Logout(s) PROVE Goal
  BY <1>9 DEF CreateRightsRequest, Logout, Revoke, Goto, Step, At, Apart, TypeOK, Request
<1>10. ASSUME Answer(s) \/ ClearCookies(s) PROVE Goal
  BY <1>10 DEF Answer, ClearCookies, Finish, Step, Idle, Apart, TypeOK, Guarded
<1> QED BY <1>1, <1>2, <1>3, <1>4, <1>5, <1>6, <1>7, <1>8, <1>9, <1>10 DEF SessionStep, Goal

-----------------------------------------------------------------------------
(* Password reset tokens *)

\* A row held by a reset is live, and held by no other: the rest of the system
\* waits for it or skips it.
ResetInv ==
    /\ \A i \in Resets : uses[i] <= 1 /\ (uses[i] # 0 => reset[i].state \in {"used", "deleted"})
    /\ \A s \in Slots : \A i \in HeldBy(s) :
          reset[i].state = "live" /\ \A t \in Slots : i \in HeldBy(t) => t = s

LEMMA InitReset == Init => ResetInv
BY DEF Init, ResetInv, HeldBy, At, Idle

\* No new holder, and what is held stays live.
LEMMA ResetsHeld ==
    ASSUME TypeOK, ResetInv, uses' = uses,
           \A s \in Slots : HeldBy(s)' \subseteq HeldBy(s),
           \A i \in Resets : uses[i] # 0 /\ reset[i].state \in {"used", "deleted"} =>
                                reset'[i].state \in {"used", "deleted"},
           \A s \in Slots : \A i \in HeldBy(s)' : reset'[i].state = reset[i].state
    PROVE  ResetInv'
BY DEF ResetInv

LEMMA NextReset ==
    ASSUME TypeOK, ResetInv, [Next]_vars
    PROVE  ResetInv'
<1> USE DEF rows, sessions, ghosts
<1>1. ASSUME NEW s \in Slots, SessionStep(s) PROVE ResetInv'
  <2>1. \A t \in Slots : HeldBy(t)' \subseteq HeldBy(t)
    BY <1>1, SessionFrame DEF HeldBy, At, Apart
  <2> QED BY <1>1, <2>1, SessionFrame, ResetsHeld
<1>2. ASSUME NEW s \in Slots, request[s].op # "reset",
             request'[s].op # "reset", \A x \in Slots \ {s} : request'[x] = request[x]
      PROVE  \A t \in Slots : HeldBy(t)' \subseteq HeldBy(t)
  BY <1>2 DEF HeldBy, At
<1>3. ASSUME NEW s \in Slots,
             \/ \E e \in Emails : ForgotPassword(s, e)
             \/ FindUserByEmail(s) \/ RevokeOlder(s)
      PROVE  ResetInv'
  <2>1. request[s].op # "reset" /\ request'[s].op # "reset"
        /\ \A x \in Slots \ {s} : request'[x] = request[x]
    <3>1. CASE \E e \in Emails : ForgotPassword(s, e)
      BY <3>1 DEF ForgotPassword, Begin, Idle, TypeOK
    <3>2. CASE FindUserByEmail(s)
      BY <3>2 DEF FindUserByEmail, At, Goto, Step, TypeOK, Request
    <3>3. CASE RevokeOlder(s)
      BY <3>3 DEF RevokeOlder, At, Step, TypeOK, Request
    <3> QED BY <1>3, <3>1, <3>2, <3>3
  <2>2. reset' = reset /\ uses' = uses
    BY <1>3 DEF ForgotPassword, FindUserByEmail, RevokeOlder
  <2> QED BY <1>2, <2>1, <2>2, ResetsHeld
<1>4. ASSUME NEW s \in Slots, InsertReset(s) PROVE ResetInv'
  <2>1. request[s].op # "reset" /\ request'[s].op # "reset"
        /\ \A x \in Slots \ {s} : request'[x] = request[x]
    BY <1>4 DEF InsertReset, At, Finish, Step, Idle, TypeOK
  <2>2. \A t \in Slots : HeldBy(t)' \subseteq HeldBy(t)
    BY <1>2, <2>1
  <2>3. PICK i \in Resets :
          /\ reset[i].state = "absent"
          /\ \A j \in Resets : j # i =>
                \/ reset'[j] = reset[j]
                \/ j \in request[s].rows /\ reset[j].state = "live"
    BY <1>4 DEF InsertReset
  <2>4. \A j \in request[s].rows : ~Locked(j)
    BY <1>4 DEF InsertReset
  <2>5. \A t \in Slots : \A j \in HeldBy(t) : reset'[j].state = reset[j].state
    <3> SUFFICES ASSUME NEW t \in Slots, NEW j \in HeldBy(t) PROVE reset'[j].state = reset[j].state
      OBVIOUS
    <3>1. j \in Resets /\ reset[j].state = "live" /\ Locked(j)
      BY RequestType DEF ResetInv, HeldBy, Locked
    <3> QED BY <2>3, <2>4, <3>1
  <2>6. \A j \in Resets : uses[j] # 0 /\ reset[j].state \in {"used", "deleted"} =>
                                reset'[j].state \in {"used", "deleted"}
    BY <2>3
  <2>7. uses' = uses
    BY <1>4 DEF InsertReset
  <2> QED BY <2>2, <2>5, <2>6, <2>7, ResetsHeld
<1>5. ASSUME NEW s \in Slots, NEW i \in Resets, ReadToken(s, i) PROVE ResetInv'
  <2>1. \A x \in Slots \ {s} : HeldBy(x)' = HeldBy(x)
    BY <1>5 DEF ReadToken, Begin, HeldBy, At, TypeOK
  <2>2. HeldBy(s)' = {i}
    BY <1>5 DEF ReadToken, Begin, HeldBy, At, TypeOK, Idle
  <2>3. reset[i].state = "live" /\ \A x \in Slots : i \notin HeldBy(x)
    BY <1>5 DEF ReadToken, Locked
  <2>4. reset' = reset /\ uses' = uses
    BY <1>5 DEF ReadToken
  <2> QED BY <2>1, <2>2, <2>3, <2>4 DEF ResetInv
<1>6. ASSUME NEW s \in Slots, NEW i \in Resets, ChangePassword(s, i) PROVE ResetInv'
  <2>1. \A x \in Slots \ {s} : HeldBy(x)' = HeldBy(x)
    BY <1>6 DEF ChangePassword, Finish, Step, HeldBy, At, TypeOK
  <2>2. HeldBy(s)' = {}
    BY <1>6 DEF ChangePassword, Finish, Step, HeldBy, At, TypeOK, Idle
  <2>3. i \in HeldBy(s)
    BY <1>6 DEF ChangePassword, HeldBy
  <2>4. reset[i].state = "live" /\ uses[i] = 0 /\ \A x \in Slots \ {s} : i \notin HeldBy(x)
    BY <2>3 DEF ResetInv, TypeOK
  <2>5. reset'[i].state = "used" /\ \A j \in Resets \ {i} : reset'[j] = reset[j]
    BY <1>6 DEF ChangePassword, TypeOK, Reset
  <2>6. uses'[i] = 1 /\ \A j \in Resets \ {i} : uses'[j] = uses[j]
    BY <1>6, <2>4 DEF ChangePassword, TypeOK
  <2>7. \A x \in Slots : HeldBy(x)' \subseteq Resets \ {i}
    BY <2>1, <2>2, <2>4, RequestType DEF HeldBy
  <2>8. \A j \in Resets : uses'[j] <= 1 /\ (uses'[j] # 0 => reset'[j].state \in {"used", "deleted"})
    BY <2>5, <2>6 DEF ResetInv
  <2>9. ASSUME NEW x \in Slots, NEW j \in HeldBy(x)'
        PROVE  reset'[j].state = "live" /\ \A t \in Slots : j \in HeldBy(t)' => t = x
    BY <2>1, <2>2, <2>5, <2>7, <2>9 DEF ResetInv
  <2> QED BY <2>8, <2>9 DEF ResetInv
<1>7. ASSUME NEW s \in Slots, NEW q \in Rights, FulfilStep(s, q), ~FulfilDeletion(s, q)
      PROVE  ResetInv'
  <2>1. reset' = reset /\ uses' = uses
    BY <1>7 DEF FulfilStep, FindRequest, FulfilWithRow, FulfilCorrection, CorrectionFails, ErasureFails, Executed,
       CompleteRequest
  <2>2. request[s].op # "reset" /\ request'[s].op # "reset"
        /\ \A x \in Slots \ {s} : request'[x] = request[x]
    <3>1. CASE FindRequest(s, q)
      BY <3>1 DEF FindRequest, Begin, Idle, TypeOK
    <3>2. CASE FulfilWithRow(s, q)
      BY <3>2 DEF FulfilWithRow, Executing, At, Executed, Goto, Step, TypeOK, Request
    <3>3. CASE FulfilCorrection(s, q)
      BY <3>3 DEF FulfilCorrection, Executing, At, Executed, Goto, Step, TypeOK, Request
    <3>4. CASE CorrectionFails(s, q) \/ ErasureFails(s, q) \/ CompleteRequest(s, q)
      BY <3>4 DEF CorrectionFails, ErasureFails, CompleteRequest, Executing, At, Finish, Step, Idle, TypeOK
    <3> QED BY <1>7, <3>1, <3>2, <3>3, <3>4 DEF FulfilStep
  <2> QED BY <1>2, <2>1, <2>2, ResetsHeld
<1>8. ASSUME NEW s \in Slots, NEW q \in Rights, FulfilDeletion(s, q) PROVE ResetInv'
  <2>1. request[s].op # "reset" /\ request'[s].op # "reset"
        /\ \A x \in Slots \ {s} : request'[x] = request[x]
    BY <1>8 DEF FulfilDeletion, Executing, At, Executed, Goto, Step, TypeOK, Request
  <2>2. \A t \in Slots : HeldBy(t)' \subseteq HeldBy(t)
    BY <1>2, <2>1
  <2>3. \A i \in Resets : reset'[i] = reset[i]
           \/ (~Locked(i) /\ reset'[i].state = "deleted")
    BY <1>8 DEF FulfilDeletion, Erase, TypeOK, Reset
  <2>4. \A t \in Slots : \A i \in HeldBy(t) : i \in Resets /\ Locked(i)
    BY RequestType DEF HeldBy, Locked
  <2>5. uses' = uses
    BY <1>8 DEF FulfilDeletion, Executed
  <2>6. \A t \in Slots : \A i \in HeldBy(t)' : reset'[i].state = reset[i].state
    BY <2>2, <2>3, <2>4
  <2>7. \A i \in Resets : uses[i] # 0 /\ reset[i].state \in {"used", "deleted"} =>
                                reset'[i].state \in {"used", "deleted"}
    BY <2>3
  <2> QED BY <2>2, <2>5, <2>6, <2>7, ResetsHeld
<1>9. ASSUME NEW s \in Slots, Die(s) PROVE ResetInv'
  <2>1. \A t \in Slots : HeldBy(t)' \subseteq HeldBy(t)
    BY <1>9 DEF Die, HeldBy, At, Idle, TypeOK
  <2>2. reset' = reset /\ uses' = uses
    BY <1>9 DEF Die
  <2> QED BY <2>1, <2>2, ResetsHeld
<1>10. ASSUME (\E u \in Users : AccessExpires(u)) \/ UNCHANGED vars PROVE ResetInv'
  BY <1>10 DEF AccessExpires, vars, ResetInv, HeldBy, At
<1>11. ASSUME NEW i \in Resets, HourPasses(i) PROVE ResetInv'
  <2>1. \A j \in Resets : reset'[j].state = reset[j].state
    BY <1>11 DEF HourPasses, TypeOK, Reset
  <2>2. \A t \in Slots : HeldBy(t)' = HeldBy(t) /\ HeldBy(t) \subseteq Resets
    BY <1>11, RequestType DEF HourPasses, HeldBy, At
  <2>3. uses' = uses
    BY <1>11 DEF HourPasses
  <2> QED BY <2>1, <2>2, <2>3, ResetsHeld
<1>12. ASSUME NEW s \in Slots, ResetStep(s) PROVE ResetInv'
  BY <1>12, <1>3, <1>4, <1>5, <1>6 DEF ResetStep
<1> QED BY <1>1, <1>7, <1>8, <1>9, <1>10, <1>11, <1>12 DEF Next, FulfilStep

-----------------------------------------------------------------------------
(* Data subject requests *)

\* Without an overlap or a death one fulfilment at a time works on a request, and
\* the request counts as pending until it has been carried out and marked.
FulfilInv ==
    /\ \A s \in Slots :
          /\ request[s].op = "fulfil" => request[s].at \in {"execute", "complete"}
          /\ \A p, q \in request[s].right : p = q
    /\ \A q \in Rights \ contested :
          /\ acted[q] <= 1
          /\ Fulfilling(q) = {} /\ right[q] # "COMPLETED" => acted[q] = 0
          /\ \A s \in Fulfilling(q) :
                /\ right[q] = "PENDING"
                /\ acted[q] = IF request[s].at = "execute" THEN 0 ELSE 1
                /\ \A t \in Fulfilling(q) : t = s

LEMMA InitFulfil == Init => FulfilInv
BY DEF Init, FulfilInv, Fulfilling, Idle

\* The fulfilments stay what they are.
LEMMA FulfilStays ==
    ASSUME TypeOK, FulfilInv, acted' = acted, contested' = contested,
           \A q \in Rights : right'[q] = right[q] \/ (right[q] = "absent" /\ right'[q] = "PENDING"),
           \A x \in Slots : \/ request'[x] = request[x]
                            \/ /\ request[x].op # "fulfil" /\ request'[x].op # "fulfil"
                               /\ request'[x].right \in {request[x].right, {}}
    PROVE  FulfilInv'
<1>1. \A q \in Rights : Fulfilling(q)' = Fulfilling(q)
  BY DEF Fulfilling
<1>2. \A q \in Rights : \A s \in Fulfilling(q) : request'[s] = request[s]
  BY DEF Fulfilling
<1>3. ASSUME NEW s \in Slots
      PROVE  /\ request'[s].op = "fulfil" => request'[s].at \in {"execute", "complete"}
             /\ \A p, q \in request'[s].right : p = q
  BY DEF FulfilInv
<1>4. ASSUME NEW q \in Rights \ contested
      PROVE  /\ Fulfilling(q)' = {} /\ right'[q] # "COMPLETED" => acted'[q] = 0
             /\ \A s \in Fulfilling(q)' :
                   /\ right'[q] = "PENDING"
                   /\ acted'[q] = IF request'[s].at = "execute" THEN 0 ELSE 1
                   /\ \A t \in Fulfilling(q)' : t = s
  BY <1>1, <1>2 DEF FulfilInv
<1> QED BY <1>3, <1>4 DEF FulfilInv

\* What a step of a password reset leaves alone.
LEMMA ResetFrame ==
    ASSUME TypeOK, NEW s \in Slots, ResetStep(s)
    PROVE  /\ request[s].op # "fulfil" /\ request'[s].op # "fulfil"
           /\ request'[s].right \in {request[s].right, {}}
           /\ \A x \in Slots \ {s} : request'[x] = request[x]
<1> USE DEF rows, sessions, ghosts
<1>1. CASE \E e \in Emails : ForgotPassword(s, e)
  BY <1>1 DEF ForgotPassword, Begin, Idle, TypeOK
<1>2. CASE FindUserByEmail(s)
  <2>1. request[s] \in Request /\ request[s].op = "forgot"
    BY <1>2 DEF FindUserByEmail, At, TypeOK
  <2>2. PICK r : /\ request' = [request EXCEPT ![s] = r]
                 /\ \/ r = [request[s] EXCEPT !.at = "insert"]
                    \/ \E u \in Users : r = [request[s] EXCEPT !.at = "revoke", !.user = u]
    BY <1>2 DEF FindUserByEmail, Goto, Step
  <2>3. r.op = "forgot" /\ r.right = request[s].right
    BY <2>1, <2>2 DEF Request
  <2>4. request'[s] = r /\ \A x \in Slots \ {s} : request'[x] = request[x]
    BY <2>2 DEF TypeOK
  <2> QED BY <2>1, <2>3, <2>4
<1>3. CASE RevokeOlder(s)
  BY <1>3 DEF RevokeOlder, At, Step, TypeOK, Request
<1>4. CASE InsertReset(s)
  BY <1>4 DEF InsertReset, At, Finish, Step, Idle, TypeOK
<1>5. CASE \E i \in Resets : ReadToken(s, i)
  BY <1>5 DEF ReadToken, Begin, Idle, TypeOK
<1>6. CASE \E i \in Resets : ChangePassword(s, i)
  BY <1>6 DEF ChangePassword, At, Finish, Step, Idle, TypeOK
<1> QED BY <1>1, <1>2, <1>3, <1>4, <1>5, <1>6 DEF ResetStep

LEMMA NextFulfil ==
    ASSUME TypeOK, FulfilInv, [Next]_vars
    PROVE  FulfilInv'
<1> USE DEF rows, sessions, ghosts
<1>1. ASSUME NEW s \in Slots, SessionStep(s) PROVE FulfilInv'
  <2>1. \A q \in Rights : right'[q] = right[q] \/ (right[q] = "absent" /\ right'[q] = "PENDING")
    <3>1. CASE CreateRightsRequest(s)
      BY <3>1 DEF CreateRightsRequest, TypeOK
    <3>2. CASE ~CreateRightsRequest(s)
      BY <1>1, <3>2 DEF SessionStep, Login, VerifyMfa, ForgetSession, Send, Deliver, GuardWithToken,
         GuardWithoutToken, Refresh, UpdateConsent, RequestDataExport, ConfirmMfaEnrollment, StoreFor,
         Logout, Answer, ClearCookies
    <3> QED BY <3>1, <3>2
  <2> QED BY <1>1, <2>1, SessionFrame, FulfilStays DEF Apart
<1>2. ASSUME NEW s \in Slots, ResetStep(s) PROVE FulfilInv'
  <2>1. right' = right /\ acted' = acted /\ contested' = contested
    BY <1>2 DEF ResetStep, ForgotPassword, FindUserByEmail, RevokeOlder, InsertReset, ReadToken,
       ChangePassword
  <2> QED BY <1>2, <2>1, ResetFrame, FulfilStays
<1>3. ASSUME NEW s \in Slots, NEW q \in Rights, FindRequest(s, q) PROVE FulfilInv'
  <2>1. /\ request[s] = Idle /\ right[q] = "PENDING" /\ acted' = acted /\ right' = right
        /\ contested' = (IF Fulfilling(q) # {} THEN contested \cup {q} ELSE contested)
    BY <1>3 DEF FindRequest, Begin, Contest
  <2>2. request'[s].op = "fulfil" /\ request'[s].at = "execute" /\ request'[s].right = {q}
    BY <1>3 DEF FindRequest, Begin, Idle, TypeOK
  <2>3. \A x \in Slots \ {s} : request'[x] = request[x]
    BY <1>3 DEF FindRequest, Begin, TypeOK
  <2>4. Fulfilling(q)' = Fulfilling(q) \cup {s} /\ \A p \in Rights \ {q} : Fulfilling(p)' = Fulfilling(p)
    BY <2>1, <2>2, <2>3 DEF Fulfilling, Idle
  <2>5. \A p \in Rights \ {q} : \A x \in Fulfilling(p) : request'[x] = request[x]
    BY <2>1, <2>3 DEF Fulfilling, Idle
  <2>6. ASSUME NEW p \in Rights, p \notin contested', p # q
        PROVE  /\ acted'[p] <= 1
               /\ Fulfilling(p)' = {} /\ right'[p] # "COMPLETED" => acted'[p] = 0
               /\ \A x \in Fulfilling(p)' :
                     /\ right'[p] = "PENDING"
                     /\ acted'[p] = IF request'[x].at = "execute" THEN 0 ELSE 1
                     /\ \A t \in Fulfilling(p)' : t = x
    BY <2>1, <2>4, <2>5, <2>6 DEF FulfilInv
  <2>7. ASSUME q \notin contested' PROVE acted[q] = 0 /\ Fulfilling(q)' = {s}
    BY <2>1, <2>4, <2>7 DEF FulfilInv
  <2>8. \A x \in Slots :
          /\ request'[x].op = "fulfil" => request'[x].at \in {"execute", "complete"}
          /\ \A p, r \in request'[x].right : p = r
    BY <2>2, <2>3 DEF FulfilInv
  <2> QED BY <2>1, <2>2, <2>6, <2>7, <2>8 DEF FulfilInv
<1>4. ASSUME NEW s \in Slots, NEW q \in Rights, right' = right, contested' = contested,
             At(s, "fulfil", "execute"), q \in request[s].right, Executed(s, q)
      PROVE  FulfilInv'
  <2>1. request'[s].op = "fulfil" /\ request'[s].at = "complete"
        /\ request'[s].right = request[s].right
    BY <1>4 DEF Executed, Goto, Step, At, TypeOK, Request
  <2>2. \A x \in Slots \ {s} : request'[x] = request[x]
    BY <1>4 DEF Executed, Goto, Step, TypeOK
  <2>3. \A p \in Rights : Fulfilling(p)' = Fulfilling(p)
    BY <1>4, <2>1, <2>2 DEF Fulfilling, At
  <2>4. s \in Fulfilling(q) /\ \A p \in Rights \ {q} : s \notin Fulfilling(p)
    BY <1>4 DEF Fulfilling, At, FulfilInv
  <2>5. acted'[q] = acted[q] + 1 /\ \A p \in Rights \ {q} : acted'[p] = acted[p]
    BY <1>4 DEF Executed, TypeOK
  <2>6. \A x \in Slots :
          /\ request'[x].op = "fulfil" => request'[x].at \in {"execute", "complete"}
          /\ \A p, r \in request'[x].right : p = r
    BY <2>1, <2>2 DEF FulfilInv
  <2>7. ASSUME NEW p \in Rights \ {q}, p \notin contested
        PROVE  /\ acted'[p] <= 1
               /\ Fulfilling(p)' = {} /\ right'[p] # "COMPLETED" => acted'[p] = 0
               /\ \A x \in Fulfilling(p)' :
                     /\ right'[p] = "PENDING"
                     /\ acted'[p] = IF request'[x].at = "execute" THEN 0 ELSE 1
                     /\ \A t \in Fulfilling(p)' : t = x
    BY <1>4, <2>2, <2>3, <2>4, <2>5, <2>7 DEF FulfilInv, Fulfilling
  <2>8. ASSUME q \notin contested
        PROVE  right[q] = "PENDING" /\ acted[q] = 0 /\ Fulfilling(q)' = {s}
    BY <1>4, <2>3, <2>4, <2>8 DEF FulfilInv, At
  <2> QED BY <1>4, <2>1, <2>5, <2>6, <2>7, <2>8 DEF FulfilInv
<1>5. ASSUME NEW s \in Slots, NEW q \in Rights, CorrectionFails(s, q) \/ ErasureFails(s, q) PROVE FulfilInv'
  <2>1. request'[s] = Idle /\ \A x \in Slots \ {s} : request'[x] = request[x]
    BY <1>5 DEF CorrectionFails, ErasureFails, Finish, Step, TypeOK
  <2>2. request[s].op = "fulfil" /\ request[s].at = "execute" /\ q \in request[s].right
        /\ acted' = acted /\ right' = right /\ contested' = contested
    BY <1>5 DEF CorrectionFails, ErasureFails, Executing, At
  <2>3. \A p \in Rights : Fulfilling(p)' = Fulfilling(p) \ {s}
    BY <2>1 DEF Fulfilling, Idle
  <2>4. s \in Fulfilling(q) /\ \A p \in Rights \ {q} : s \notin Fulfilling(p)
    BY <2>2 DEF Fulfilling, FulfilInv
  <2>5. \A x \in Slots :
          /\ request'[x].op = "fulfil" => request'[x].at \in {"execute", "complete"}
          /\ \A p, r \in request'[x].right : p = r
    BY <2>1 DEF FulfilInv, Idle
  <2>6. ASSUME NEW p \in Rights \ {q}, p \notin contested
        PROVE  /\ Fulfilling(p)' = Fulfilling(p)
               /\ \A x \in Fulfilling(p) : request'[x] = request[x]
    BY <2>1, <2>3, <2>4 DEF Fulfilling
  <2>7. ASSUME q \notin contested PROVE acted[q] = 0 /\ Fulfilling(q)' = {}
    BY <2>2, <2>3, <2>4, <2>7 DEF FulfilInv
  <2> QED BY <2>2, <2>5, <2>6, <2>7 DEF FulfilInv
<1>6. ASSUME NEW s \in Slots, NEW q \in Rights, CompleteRequest(s, q) PROVE FulfilInv'
  <2>1. request'[s] = Idle /\ \A x \in Slots \ {s} : request'[x] = request[x]
    BY <1>6 DEF CompleteRequest, Finish, Step, TypeOK
  <2>2. /\ request[s].op = "fulfil" /\ q \in request[s].right
        /\ acted' = acted /\ contested' = contested
        /\ right'[q] = "COMPLETED" /\ \A p \in Rights \ {q} : right'[p] = right[p]
    BY <1>6 DEF CompleteRequest, At, TypeOK
  <2>3. \A p \in Rights : Fulfilling(p)' = Fulfilling(p) \ {s}
    BY <2>1 DEF Fulfilling, Idle
  <2>4. s \in Fulfilling(q) /\ \A p \in Rights \ {q} : s \notin Fulfilling(p)
    BY <2>2 DEF Fulfilling, FulfilInv
  <2>5. \A x \in Slots :
          /\ request'[x].op = "fulfil" => request'[x].at \in {"execute", "complete"}
          /\ \A p, r \in request'[x].right : p = r
    BY <2>1 DEF FulfilInv, Idle
  <2>6. ASSUME NEW p \in Rights \ {q}, p \notin contested
        PROVE  /\ Fulfilling(p)' = Fulfilling(p)
               /\ \A x \in Fulfilling(p) : request'[x] = request[x]
    BY <2>1, <2>3, <2>4 DEF Fulfilling
  <2>7. ASSUME q \notin contested PROVE acted[q] <= 1 /\ Fulfilling(q)' = {}
    BY <2>3, <2>4, <2>7 DEF FulfilInv
  <2> QED BY <2>2, <2>5, <2>6, <2>7 DEF FulfilInv
<1>7. ASSUME NEW s \in Slots, Die(s) PROVE FulfilInv'
  <2>1. request'[s] = Idle /\ \A x \in Slots \ {s} : request'[x] = request[x]
    BY <1>7 DEF Die, TypeOK
  <2>2. /\ acted' = acted /\ right' = right /\ contested' = contested \cup request[s].right
    BY <1>7 DEF Die
  <2>3. \A p \in Rights : Fulfilling(p)' = Fulfilling(p) \ {s}
    BY <2>1 DEF Fulfilling, Idle
  <2>4. \A p \in Rights : p \notin contested' => p \notin contested /\ s \notin Fulfilling(p)
    BY <2>2 DEF Fulfilling
  <2>5. \A x \in Slots :
          /\ request'[x].op = "fulfil" => request'[x].at \in {"execute", "complete"}
          /\ \A p, r \in request'[x].right : p = r
    BY <2>1 DEF FulfilInv, Idle
  <2>6. ASSUME NEW p \in Rights, p \notin contested'
        PROVE  /\ Fulfilling(p)' = Fulfilling(p)
               /\ \A x \in Fulfilling(p) : request'[x] = request[x]
    BY <2>1, <2>3, <2>4, <2>6 DEF Fulfilling
  <2> QED BY <2>2, <2>4, <2>5, <2>6 DEF FulfilInv
<1>8. ASSUME \/ \E u \in Users : AccessExpires(u)
             \/ \E i \in Resets : HourPasses(i)
             \/ UNCHANGED vars
      PROVE  FulfilInv'
  BY <1>8 DEF AccessExpires, HourPasses, vars, FulfilInv, Fulfilling
<1>9. ASSUME NEW s \in Slots, NEW q \in Rights, FulfilStep(s, q) PROVE FulfilInv'
  <2>1. CASE FulfilWithRow(s, q)
    BY <2>1, <1>4 DEF FulfilWithRow, Executing, Executed
  <2>2. CASE FulfilCorrection(s, q)
    BY <2>2, <1>4 DEF FulfilCorrection, Executing, Executed
  <2>3. CASE FulfilDeletion(s, q)
    BY <2>3, <1>4 DEF FulfilDeletion, Executing, Executed
  <2> QED BY <1>3, <1>5, <1>6, <1>9, <2>1, <2>2, <2>3 DEF FulfilStep
<1> QED BY <1>1, <1>2, <1>7, <1>8, <1>9 DEF Next

-----------------------------------------------------------------------------
(* A deletion completed has erased the person *)

DeletionInv ==
    \A q \in Rights : TypeOf[q] = "DELETION" =>
        /\ right[q] = "COMPLETED" => UserOf[q] \in erased
        /\ \A s \in Fulfilling(q) : request[s].at = "complete" => UserOf[q] \in erased

LEMMA InitDeletion == Init => DeletionInv
BY DEF Init, DeletionInv, Fulfilling, Idle

LEMMA FulfilledOnceHere == TypeOK /\ FulfilInv /\ DeletionInv => FulfilledOnce
BY DEF FulfilInv, DeletionInv, FulfilledOnce, TypeOK

\* Nobody comes back from an erasure, and no request reaches its last statement.
LEMMA DeletionStays ==
    ASSUME TypeOK, DeletionInv, erased \subseteq erased',
           \A q \in Rights : right'[q] = "COMPLETED" => right[q] = "COMPLETED",
           \A x \in Slots : request'[x].op = "fulfil" /\ request'[x].at = "complete" =>
                             request'[x] = request[x]
    PROVE  DeletionInv'
BY DEF DeletionInv, Fulfilling

LEMMA NextDeletion ==
    ASSUME TypeOK, FulfilInv, DeletionInv, [Next]_vars
    PROVE  DeletionInv'
<1> USE DEF rows, sessions, ghosts
<1>1. ASSUME NEW s \in Slots, SessionStep(s) PROVE DeletionInv'
  <2>1. erased' = erased
    BY <1>1 DEF SessionStep, Login, VerifyMfa, ForgetSession, Send, Deliver, GuardWithToken,
       GuardWithoutToken, Refresh, UpdateConsent, RequestDataExport, ConfirmMfaEnrollment,
       CreateRightsRequest, StoreFor, Logout, Answer, ClearCookies
  <2>2. \A q \in Rights : right'[q] = "COMPLETED" => right[q] = "COMPLETED"
    <3>1. CASE CreateRightsRequest(s)
      BY <3>1 DEF CreateRightsRequest, TypeOK
    <3>2. CASE ~CreateRightsRequest(s)
      BY <1>1, <3>2 DEF SessionStep, Login, VerifyMfa, ForgetSession, Send, Deliver, GuardWithToken,
         GuardWithoutToken, Refresh, UpdateConsent, RequestDataExport, ConfirmMfaEnrollment, StoreFor,
         Logout, Answer, ClearCookies
    <3> QED BY <3>1, <3>2
  <2> QED BY <1>1, <2>1, <2>2, SessionFrame, DeletionStays DEF Apart
<1>2. ASSUME NEW s \in Slots, ResetStep(s) PROVE DeletionInv'
  <2>1. right' = right /\ erased' = erased
    BY <1>2 DEF ResetStep, ForgotPassword, FindUserByEmail, RevokeOlder, InsertReset, ReadToken,
       ChangePassword
  <2> QED BY <1>2, <2>1, ResetFrame, DeletionStays
<1>3. ASSUME NEW s \in Slots, NEW q \in Rights, FindRequest(s, q) PROVE DeletionInv'
  <2>1. right' = right /\ erased' = erased /\ request'[s].at = "execute"
        /\ \A x \in Slots \ {s} : request'[x] = request[x]
    BY <1>3 DEF FindRequest, Begin, Idle, TypeOK
  <2> QED BY <2>1, DeletionStays
<1>4. ASSUME NEW s \in Slots, NEW q \in Rights,
             FulfilWithRow(s, q) \/ FulfilCorrection(s, q) \/ FulfilDeletion(s, q)
      PROVE  DeletionInv'
  <2>1. /\ right' = right /\ At(s, "fulfil", "execute") /\ q \in request[s].right
        /\ request' = [request EXCEPT ![s] = [request[s] EXCEPT !.at = "complete"]]
    BY <1>4 DEF FulfilWithRow, FulfilCorrection, FulfilDeletion, Executing, Executed, Goto, Step
  <2>2. request'[s].right = request[s].right /\ \A x \in Slots \ {s} : request'[x] = request[x]
    BY <2>1 DEF TypeOK, Request
  <2>3. erased \subseteq erased' /\ (TypeOf[q] = "DELETION" => UserOf[q] \in erased')
    <3>1. CASE FulfilWithRow(s, q) \/ FulfilCorrection(s, q)
      BY <3>1 DEF FulfilWithRow, FulfilCorrection, Executing
    <3>2. CASE FulfilDeletion(s, q)
      BY <3>2 DEF FulfilDeletion, Erase
    <3> QED BY <1>4, <3>1, <3>2
  <2>4. ASSUME NEW p \in Rights, TypeOf[p] = "DELETION", NEW x \in Fulfilling(p)',
               request'[x].at = "complete"
        PROVE  UserOf[p] \in erased'
    <3>1. CASE x = s
      <4>1. p = q
        BY <2>1, <2>2, <2>4, <3>1 DEF Fulfilling, FulfilInv
      <4> QED BY <2>3, <2>4, <4>1
    <3>2. CASE x # s
      <4>1. x \in Fulfilling(p) /\ request[x].at = "complete"
        BY <2>2, <2>4, <3>2 DEF Fulfilling
      <4> QED BY <2>3, <2>4, <4>1 DEF DeletionInv
    <3> QED BY <3>1, <3>2
  <2> QED BY <2>1, <2>3, <2>4 DEF DeletionInv
<1>5. ASSUME NEW s \in Slots, NEW q \in Rights,
             CorrectionFails(s, q) \/ ErasureFails(s, q)
      PROVE  DeletionInv'
  <2>1. right' = right /\ erased' = erased /\ request' = [request EXCEPT ![s] = Idle]
    BY <1>5 DEF CorrectionFails, ErasureFails, Executing, Finish, Step
  <2>2. \A x \in Slots : request'[x] = Idle \/ request'[x] = request[x]
    BY <2>1 DEF TypeOK
  <2> QED BY <2>1, <2>2, DeletionStays DEF Idle
<1>6. ASSUME NEW s \in Slots, NEW q \in Rights, CompleteRequest(s, q) PROVE DeletionInv'
  <2>1. /\ s \in Fulfilling(q) /\ request[s].at = "complete" /\ erased' = erased
        /\ right' = [right EXCEPT ![q] = "COMPLETED"]
        /\ request' = [request EXCEPT ![s] = Idle]
    BY <1>6 DEF CompleteRequest, At, Fulfilling, Finish, Step
  <2>2. \A x \in Slots : request'[x] = Idle \/ request'[x] = request[x]
    BY <2>1 DEF TypeOK
  <2>3. \A p \in Rights \ {q} : right'[p] = right[p]
    BY <2>1 DEF TypeOK
  <2> QED BY <2>1, <2>2, <2>3 DEF DeletionInv, Fulfilling, Idle
<1>7. ASSUME \/ \E u \in Users : AccessExpires(u)
             \/ \E i \in Resets : HourPasses(i)
             \/ UNCHANGED vars
      PROVE  DeletionInv'
  BY <1>7 DEF AccessExpires, HourPasses, vars, DeletionInv, Fulfilling
<1>8. ASSUME NEW s \in Slots, Die(s) PROVE DeletionInv'
  <2>1. right' = right /\ erased' = erased /\ request' = [request EXCEPT ![s] = Idle]
    BY <1>8 DEF Die
  <2>2. \A x \in Slots : request'[x] = Idle \/ request'[x] = request[x]
    BY <2>1 DEF TypeOK
  <2> QED BY <2>1, <2>2, DeletionStays DEF Idle
<1> QED BY <1>1, <1>2, <1>3, <1>4, <1>5, <1>6, <1>7, <1>8 DEF Next, FulfilStep

-----------------------------------------------------------------------------
(* Requests outlive an erasure *)

FiledInv ==
    /\ \A q \in Rights : right[q] # "absent" => "request" \in data[UserOf[q]]
    /\ \A s \in Slots : \A q \in request[s].right : right[q] # "absent"

LEMMA InitFiled == Init => FiledInv
<1> SUFFICES ASSUME Init PROVE FiledInv
  OBVIOUS
<1>1. ASSUME NEW q \in Rights, right[q] # "absent" PROVE "request" \in data[UserOf[q]]
  <2>1. UserOf[q] \in Users
    BY RightAssumption
  <2>2. \A u \in Users : (\E p \in Rights : UserOf[p] = u /\ right[p] # "absent")
                            => "request" \in data[u]
    BY DEF Init
  <2>3. \E p \in Rights : UserOf[p] = UserOf[q] /\ right[p] # "absent"
    BY <1>1
  <2> QED BY <2>1, <2>2, <2>3
<1>2. \A s \in Slots : request[s].right = {}
  BY DEF Init, Idle
<1> QED BY <1>1, <1>2 DEF FiledInv

\* No row of a request is lost, and no fulfilment begins.
LEMMA FiledStays ==
    ASSUME TypeOK, FiledInv,
           \A u \in Users : "request" \in data[u] => "request" \in data'[u],
           \A q \in Rights : /\ right[q] # "absent" => right'[q] # "absent"
                             /\ right'[q] # right[q] /\ right[q] = "absent"
                                  => "request" \in data'[UserOf[q]],
           \A s \in Slots : request'[s].right \subseteq request[s].right
    PROVE  FiledInv'
<1>1. ASSUME NEW q \in Rights, right'[q] # "absent" PROVE "request" \in data'[UserOf[q]]
  <2>1. UserOf[q] \in Users
    BY RightAssumption
  <2> QED BY <1>1, <2>1 DEF FiledInv
<1>2. \A s \in Slots : request[s].right \subseteq Rights
  BY RequestType
<1> QED BY <1>1, <1>2 DEF FiledInv

LEMMA NextFiled ==
    ASSUME TypeOK, FiledInv, [Next]_vars
    PROVE  FiledInv'
<1> USE DEF rows, sessions, ghosts
<1> DEFINE Kept == \A u \in Users : "request" \in data[u] => "request" \in data'[u]
<1>1. ASSUME NEW s \in Slots, SessionStep(s) PROVE FiledInv'
  <2>1. \A x \in Slots : request'[x].right \subseteq request[x].right
    BY <1>1, SessionFrame
  <2>2. CASE CreateRightsRequest(s)
    <3>1. PICK q \in Rights : /\ UserOf[q] = request[s].user /\ right[q] = "absent"
                             /\ right' = [right EXCEPT ![q] = "PENDING"]
      BY <2>2 DEF CreateRightsRequest
    <3>2. data' = [data EXCEPT ![request[s].user] = data[request[s].user] \cup {"request"}]
      BY <2>2 DEF CreateRightsRequest
    <3>3. UserOf[q] \in Users
      BY RightAssumption
    <3>4. Kept /\ "request" \in data'[UserOf[q]]
      BY <3>1, <3>2, <3>3 DEF TypeOK
    <3>5. right'[q] = "PENDING" /\ \A p \in Rights \ {q} : right'[p] = right[p]
      BY <3>1 DEF TypeOK
    <3> QED BY <2>1, <3>4, <3>5, FiledStays
  <2>3. CASE ~CreateRightsRequest(s)
    <3>1. right' = right
      BY <1>1, <2>3 DEF SessionStep, Login, VerifyMfa, ForgetSession, Send, Deliver, GuardWithToken,
         GuardWithoutToken, Refresh, UpdateConsent, RequestDataExport, ConfirmMfaEnrollment, StoreFor,
         Logout, Answer, ClearCookies
    <3>2. \A u \in Users : data[u] \subseteq data'[u]
      <4>1. CASE UpdateConsent(s) \/ RequestDataExport(s) \/ ConfirmMfaEnrollment(s)
        BY <4>1 DEF UpdateConsent, RequestDataExport, ConfirmMfaEnrollment, StoreFor, TypeOK
      <4>2. CASE ~(UpdateConsent(s) \/ RequestDataExport(s) \/ ConfirmMfaEnrollment(s))
        BY <1>1, <2>3, <4>2 DEF SessionStep, Login, VerifyMfa, ForgetSession, Send, Deliver,
           GuardWithToken, GuardWithoutToken, Refresh, Logout, Answer, ClearCookies
      <4> QED BY <4>1, <4>2
    <3> QED BY <2>1, <3>1, <3>2, FiledStays
  <2> QED BY <2>2, <2>3
<1>2. ASSUME NEW s \in Slots, ResetStep(s) PROVE FiledInv'
  <2>1. right' = right /\ data' = data
    BY <1>2 DEF ResetStep, ForgotPassword, FindUserByEmail, RevokeOlder, InsertReset, ReadToken,
       ChangePassword
  <2>2. request'[s].right \in {request[s].right, {}} /\ \A x \in Slots \ {s} : request'[x] = request[x]
    BY <1>2, ResetFrame
  <2> QED BY <2>1, <2>2, FiledStays
<1>3. ASSUME NEW s \in Slots, NEW q \in Rights, FindRequest(s, q) PROVE FiledInv'
  <2>1. right' = right /\ data' = data /\ right[q] = "PENDING"
    BY <1>3 DEF FindRequest
  <2>2. request'[s].right = {q} /\ \A x \in Slots \ {s} : request'[x] = request[x]
    BY <1>3 DEF FindRequest, Begin, Idle, TypeOK
  <2> QED BY <2>1, <2>2 DEF FiledInv
<1>4. ASSUME NEW s \in Slots, NEW q \in Rights,
             FulfilWithRow(s, q) \/ FulfilCorrection(s, q) \/ FulfilDeletion(s, q)
      PROVE  FiledInv'
  <2>1. right' = right /\ request' = [request EXCEPT ![s] = [request[s] EXCEPT !.at = "complete"]]
    BY <1>4 DEF FulfilWithRow, FulfilCorrection, FulfilDeletion, Executed, Goto, Step
  <2>2. \A x \in Slots : request'[x].right = request[x].right
    BY <2>1 DEF TypeOK, Request
  <2>3. Kept
    <3>1. CASE FulfilWithRow(s, q) \/ FulfilCorrection(s, q)
      BY <3>1 DEF FulfilWithRow, FulfilCorrection, TypeOK
    <3>2. CASE FulfilDeletion(s, q)
      BY <3>2 DEF FulfilDeletion, Erase, Scrubbed, TypeOK
    <3> QED BY <1>4, <3>1, <3>2
  <2> QED BY <2>1, <2>2, <2>3, FiledStays
<1>5. ASSUME NEW s \in Slots, NEW q \in Rights,
             CorrectionFails(s, q) \/ ErasureFails(s, q) \/ CompleteRequest(s, q)
      PROVE  FiledInv'
  <2>1. /\ data' = data /\ request' = [request EXCEPT ![s] = Idle]
        /\ q \in request[s].right
        /\ right' \in {right, [right EXCEPT ![q] = "COMPLETED"]}
    BY <1>5 DEF CorrectionFails, ErasureFails, CompleteRequest, Executing, Finish, Step, rows
  <2>2. \A x \in Slots : request'[x].right \subseteq request[x].right
    BY <2>1 DEF TypeOK, Idle
  <2>3. \A p \in Rights : right'[p] = right[p] \/ (right[p] # "absent" /\ right'[p] = "COMPLETED")
    BY <2>1 DEF TypeOK, FiledInv
  <2> QED BY <2>1, <2>2, <2>3, FiledStays
<1>6. ASSUME NEW s \in Slots, Die(s) PROVE FiledInv'
  <2>1. \A x \in Slots : request'[x].right \subseteq request[x].right
    BY <1>6 DEF Die, TypeOK, Idle
  <2> QED BY <1>6, <2>1, FiledStays DEF Die
<1>7. ASSUME \/ \E u \in Users : AccessExpires(u)
             \/ \E i \in Resets : HourPasses(i)
             \/ UNCHANGED vars
      PROVE  FiledInv'
  BY <1>7 DEF AccessExpires, HourPasses, vars, FiledInv
<1> QED BY <1>1, <1>2, <1>3, <1>4, <1>5, <1>6, <1>7 DEF Next, FulfilStep

-----------------------------------------------------------------------------
(* Erasure *)

Gone == erased \ excused
Stale(t, u) == t # NoToken => t.sv < account[u].sv
StaleCookies(c, u) == Stale(c.access, u) /\ Stale(c.refresh, u) /\ Stale(c.mfa, u)

\* Requests that carry no user, and never the address of an erased one.
Plain(r) ==
    /\ r.op \in {"none", "reset", "fulfil"} => r.user = NoUser
    /\ r.op = "forgot" => \A u \in Users : r.email # Anonymous[u]

\* All that is under way for an erased user is turned away at the guard.
TurnedAway(r, u) ==
    r.user = u => r.op \in Guarded /\ r.at # "act" /\ Stale(r.token, u) /\ Stale(r.refresh, u)

Wiped(u) ==
    /\ data[u] = {"request"} /\ account[u].email = Anonymous[u]
    /\ ~account[u].known /\ ~account[u].mfa
    /\ \A i \in OwnResets(u) : reset[i].state = "deleted"

\* Whoever was erased with nothing under way has no session, second factor or
\* reset token that still opens anything.
ErasureInv ==
    /\ \A s \in Slots : Plain(request[s])
    /\ \A u \in Gone :
          Wiped(u) /\ StaleCookies(jar[u], u) /\ \A s \in Slots : TurnedAway(request[s], u)

LEMMA InitErasure == Init => ErasureInv
BY DEF Init, ErasureInv, Gone, Plain, Idle

LEMMA ErasureLeavesRequestsHere == ErasureInv => ErasureLeavesRequests
BY DEF ErasureInv, ErasureLeavesRequests, Gone, Wiped

LEMMA IdlePlain == Plain(Idle) /\ \A u \in Users : TurnedAway(Idle, u)
BY UserAssumption DEF Plain, TurnedAway, Idle

\* A step that leaves the rows and cookies of the erased alone, and whose request
\* goes on with r.
LEMMA ErasureStays ==
    ASSUME TypeOK, ErasureInv, NEW s \in Slots, NEW r, request' = [request EXCEPT ![s] = r],
           Plain(r), Gone' \subseteq Gone,
           \A u \in Gone' : /\ TurnedAway(r, u)
                           /\ data'[u] = data[u] /\ account'[u] = account[u]
                           /\ StaleCookies(jar'[u], u),
           \A u \in Gone' : \A i \in Resets :
               reset'[i].user = u /\ reset'[i].state # "absent" => reset'[i].state = "deleted"
    PROVE  ErasureInv'
<1>1. \A x \in Slots : request'[x] = IF x = s THEN r ELSE request[x]
  BY DEF TypeOK
<1>2. \A x \in Slots : Plain(request'[x])
  BY <1>1 DEF ErasureInv
<1>3. \A x \in Slots : Plain(request[x])'
  BY <1>2 DEF Plain
<1>4. ASSUME NEW u \in Gone' PROVE Wiped(u)' /\ StaleCookies(jar[u], u)'
  <2>1. Wiped(u)
    BY <1>4 DEF ErasureInv
  <2>2. data'[u] = data[u] /\ account'[u] = account[u] /\ StaleCookies(jar'[u], u)
    BY <1>4
  <2>3. Wiped(u)'
    BY <1>4, <2>1, <2>2 DEF Wiped, OwnResets
  <2> QED BY <2>2, <2>3 DEF StaleCookies, Stale
<1>5. ASSUME NEW u \in Gone', NEW x \in Slots PROVE TurnedAway(request[x], u)'
  <2>1. TurnedAway(request'[x], u)
    BY <1>1, <1>5 DEF ErasureInv
  <2> QED BY <1>5, <2>1 DEF TurnedAway, Stale
<1> QED BY <1>3, <1>4, <1>5 DEF ErasureInv

\* The same for a step that writes no row at all.
LEMMA ErasureIdles ==
    ASSUME TypeOK, ErasureInv, NEW s \in Slots, NEW r, request' = [request EXCEPT ![s] = r],
           Plain(r), \A u \in Gone : TurnedAway(r, u),
           UNCHANGED <<account, data, reset, jar, erased, excused>>
    PROVE  ErasureInv'
<1>1. Gone' = Gone
  BY DEF Gone
<1>2. ASSUME NEW u \in Gone PROVE /\ StaleCookies(jar'[u], u)
                                 /\ \A i \in Resets : reset'[i].user = u /\ reset'[i].state # "absent"
                                                        => reset'[i].state = "deleted"
  BY <1>2 DEF ErasureInv, Wiped, OwnResets
<1> QED BY <1>1, <1>2, ErasureStays

\* A request that moves on, but not to a handler.
LEMMA GotoPlain ==
    ASSUME TypeOK, ErasureInv, NEW s \in Slots, NEW at
    PROVE  LET r == [request[s] EXCEPT !.at = at]
           IN  Plain(r) /\ (at # "act" => \A u \in Gone : TurnedAway(r, u))
<1> DEFINE r == [request[s] EXCEPT !.at = at]
<1>1. /\ r.op = request[s].op /\ r.user = request[s].user /\ r.email = request[s].email
      /\ r.token = request[s].token /\ r.refresh = request[s].refresh /\ r.at = at
  BY DEF TypeOK, Request
<1>2. Plain(request[s]) /\ \A u \in Gone : TurnedAway(request[s], u)
  BY DEF ErasureInv
<1> HIDE DEF r
<1>3. Plain(r) /\ (at # "act" => \A u \in Gone : TurnedAway(r, u))
  BY <1>1, <1>2 DEF Plain, TurnedAway
<1> QED BY <1>3 DEF r

LEMMA SessionErasure ==
    ASSUME TypeOK, SessionInv, ErasureInv, NEW s \in Slots, SessionStep(s)
    PROVE  ErasureInv'
<1> USE DEF rows, sessions, ghosts
<1> DEFINE Still == UNCHANGED <<account, data, reset, jar, erased, excused>>
<1>0. \A u \in Gone : u \in Users /\ Wiped(u) /\ StaleCookies(jar[u], u)
  BY DEF ErasureInv, Gone, TypeOK
<1>1. ASSUME NEW u \in Users, Login(s, u) PROVE ErasureInv'
  <2>1. PICK op \in {"challenge", "login"} :
          Begin(s, [Idle EXCEPT !.op = op, !.at = "deliver", !.user = u, !.token = Session(u)])
    BY <1>1 DEF Login
  <2> DEFINE r == [Idle EXCEPT !.op = op, !.at = "deliver", !.user = u, !.token = Session(u)]
  <2>2. r.op = op /\ r.user = u
    BY DEF Idle
  <2>3. request' = [request EXCEPT ![s] = r]
    BY <2>1 DEF Begin
  <2>4. \A v \in Gone : v # u
    BY <1>0, <1>1 DEF Login, Wiped
  <2>5. Still
    BY <1>1 DEF Login
  <2> HIDE DEF r
  <2>6. Plain(r) /\ \A v \in Gone : TurnedAway(r, v)
    BY <2>2, <2>4 DEF Plain, TurnedAway
  <2> QED BY <2>3, <2>5, <2>6, ErasureIdles
<1>2. ASSUME NEW u \in Users, VerifyMfa(s, u) PROVE ErasureInv'
  <2> DEFINE r == [Idle EXCEPT !.op = "login", !.at = "deliver", !.user = u,
                               !.token = [jar[u].mfa EXCEPT !.sv = account[u].sv]]
  <2>1. r.op = "login" /\ r.user = u
    BY DEF Idle
  <2>2. request' = [request EXCEPT ![s] = r] /\ Still /\ account[u].mfa
    BY <1>2 DEF VerifyMfa, Begin
  <2>3. \A v \in Gone : v # u
    BY <1>0, <2>2 DEF Wiped
  <2> HIDE DEF r
  <2>4. Plain(r) /\ \A v \in Gone : TurnedAway(r, v)
    BY <2>1, <2>3 DEF Plain, TurnedAway
  <2> QED BY <2>2, <2>4, ErasureIdles
<1>3. ASSUME NEW u \in Users, jar' = [jar EXCEPT ![u] = NoCookies],
             request' = [request EXCEPT ![s] = Idle],
             UNCHANGED <<account, data, reset, erased, excused>>
      PROVE  ErasureInv'
  <2>1. \A v \in Gone : StaleCookies(jar'[v], v)
    BY <1>0, <1>3 DEF StaleCookies, Stale, NoCookies, TypeOK
  <2>2. Gone' = Gone
    BY <1>3 DEF Gone
  <2> QED BY <1>0, <1>3, <2>1, <2>2, IdlePlain, ErasureStays DEF Wiped, OwnResets
<1>4. ASSUME NEW u \in Users, NEW op \in Guarded, Send(s, u, op) PROVE ErasureInv'
  <2> DEFINE refresh == IF op = "logout" THEN NoToken ELSE jar[u].refresh
             r == [Idle EXCEPT !.op = op, !.at = "guard", !.user = u, !.token = jar[u].access,
                               !.refresh = refresh]
  <2>1. r.op = op /\ r.at = "guard" /\ r.user = u /\ r.token = jar[u].access /\ r.refresh = refresh
    BY DEF Idle
  <2>2. request' = [request EXCEPT ![s] = r] /\ Still
    BY <1>4 DEF Send, Begin
  <2>3. u \in Gone => Stale(jar[u].access, u) /\ Stale(refresh, u)
    BY <1>0 DEF StaleCookies, Stale
  <2> HIDE DEF r, refresh
  <2>4. Plain(r) /\ \A v \in Gone : TurnedAway(r, v)
    BY <2>1, <2>3 DEF Plain, TurnedAway, Guarded
  <2> QED BY <2>2, <2>4, ErasureIdles
<1>5. ASSUME Deliver(s) PROVE ErasureInv'
  <2> DEFINE r == request[s]
             c == IF r.op = "login"
                  THEN [access |-> r.token, refresh |-> r.token, mfa |-> NoToken]
                  ELSE [NoCookies EXCEPT !.mfa = r.token]
  <2>1. jar' = [jar EXCEPT ![r.user] = c] /\ request' = [request EXCEPT ![s] = Idle]
        /\ UNCHANGED <<account, data, reset, erased, excused>>
    BY <1>5 DEF Deliver, Finish, Step
  <2>2. \A v \in Gone : v # r.user
    BY <1>5 DEF Deliver, ErasureInv, TurnedAway, Guarded
  <2> HIDE DEF c
  <2>3. \A v \in Gone : jar'[v] = jar[v]
    BY <1>0, <2>1, <2>2 DEF TypeOK
  <2>4. Gone' = Gone
    BY <2>1 DEF Gone
  <2> QED BY <1>0, <2>1, <2>3, <2>4, IdlePlain, ErasureStays DEF Wiped, OwnResets
<1>6. ASSUME GuardWithToken(s) \/ GuardWithoutToken(s) PROVE ErasureInv'
  <2>1. PICK at \in Ats :
          Goto(s, at) /\ (at = "act" => request[s].token # NoToken /\ Accepted(request[s].token))
    BY <1>6 DEF GuardWithToken, GuardWithoutToken, Ats
  <2> DEFINE r == [request[s] EXCEPT !.at = at]
  <2>2. request' = [request EXCEPT ![s] = r]
    BY <2>1 DEF Goto, Step
  <2>6. Still
    BY <1>6 DEF GuardWithToken, GuardWithoutToken
  <2>3. at = "act" => \A u \in Gone : request[s].user # u
    <3> SUFFICES ASSUME at = "act", NEW u \in Gone, request[s].user = u PROVE FALSE
      OBVIOUS
    <3>1. Stale(request[s].token, u)
      BY DEF ErasureInv, TurnedAway
    <3>2. Own(request[s].token, u)
      BY DEF SessionInv, OwnRequest
    <3>3. request[s].token \in Token /\ request[s].token.sv = account[request[s].token.user].sv
          /\ request[s].token # NoToken
      BY <2>1 DEF Accepted
    <3>4. account[u].sv \in Nat /\ request[s].token.sv < account[u].sv
      BY <1>0, <3>1, <3>3 DEF Stale, TypeOK, Account
    <3> QED BY <3>2, <3>3, <3>4 DEF Own
  <2>4. r.user = request[s].user
    BY DEF TypeOK, Request
  <2>5. Plain(r) /\ \A u \in Gone : TurnedAway(r, u)
    BY <2>3, <2>4, GotoPlain DEF TurnedAway
  <2> HIDE DEF r
  <2> QED BY <2>2, <2>5, <2>6, ErasureIdles
<1>7. ASSUME Refresh(s) PROVE ErasureInv'
  <2> DEFINE r == request[s]
  <2>1. CASE ~Accepted(r.refresh)
    <3> DEFINE n == [request[s] EXCEPT !.at = "refused"]
    <3>1. request' = [request EXCEPT ![s] = n] /\ Still
      BY <1>7, <2>1 DEF Refresh, Step
    <3>2. Plain(n) /\ \A u \in Gone : TurnedAway(n, u)
      BY GotoPlain
    <3> HIDE DEF n
    <3> QED BY <3>1, <3>2, ErasureIdles
  <2>2. CASE Accepted(r.refresh)
    <3>1. r.refresh # NoToken
      BY <2>2, UserAssumption DEF Accepted, Token, NoToken
    <3>2. \A u \in Gone : r.user # u
      <4> SUFFICES ASSUME NEW u \in Gone, r.user = u PROVE FALSE
        OBVIOUS
      <4>1. Stale(r.refresh, u)
        BY DEF ErasureInv, TurnedAway
      <4>2. Own(r.refresh, u)
        BY DEF SessionInv, OwnRequest
      <4> QED BY <1>0, <2>2, <3>1, <4>1, <4>2 DEF Stale, Own, Accepted, TypeOK, Account
    <3>3. Refreshed(r).op = r.op /\ Refreshed(r).user = r.user /\ Refreshed(r).email = r.email
      BY DEF Refreshed, TypeOK, Request
    <3>4. request' = [request EXCEPT ![s] = Refreshed(r)] /\ Still
      BY <1>7, <2>2 DEF Refresh, Step
    <3>5. Plain(Refreshed(r)) /\ \A u \in Gone : TurnedAway(Refreshed(r), u)
      BY <3>2, <3>3 DEF Plain, TurnedAway, ErasureInv
    <3> QED BY <3>4, <3>5, ErasureIdles
  <2> QED BY <2>1, <2>2
<1>8. ASSUME NEW at, at # "act", request[s].at = "act", Goto(s, at),
             UNCHANGED <<reset, jar, erased, excused>>,
             \A u \in Users \ {request[s].user} : data'[u] = data[u] /\ account'[u] = account[u]
      PROVE  ErasureInv'
  <2> DEFINE r == [request[s] EXCEPT !.at = at]
  <2>1. request' = [request EXCEPT ![s] = r]
    BY <1>8 DEF Goto, Step
  <2>2. Plain(r) /\ \A u \in Gone : TurnedAway(r, u)
    BY <1>8, GotoPlain
  <2>3. \A u \in Gone : u # request[s].user
    BY <1>8 DEF ErasureInv, TurnedAway
  <2>4. Gone' = Gone
    BY <1>8 DEF Gone
  <2> HIDE DEF r
  <2>5. \A u \in Gone : data'[u] = data[u] /\ account'[u] = account[u]
    BY <1>8, <2>3, <2>4 DEF Gone, TypeOK
  <2>6. \A u \in Gone : StaleCookies(jar'[u], u)
    BY <1>8 DEF ErasureInv
  <2>7. \A u \in Gone : \A i \in Resets :
            reset'[i].user = u /\ reset'[i].state # "absent" => reset'[i].state = "deleted"
    BY <1>8 DEF ErasureInv, Wiped, OwnResets
  <2> QED BY <2>1, <2>2, <2>4, <2>5, <2>6, <2>7, ErasureStays
<1>9. ASSUME \/ UpdateConsent(s) \/ RequestDataExport(s) \/ ConfirmMfaEnrollment(s)
             \/ CreateRightsRequest(s) \/ Logout(s)
      PROVE  ErasureInv'
  <2>1. request[s].at = "act"
    BY <1>9 DEF UpdateConsent, RequestDataExport, ConfirmMfaEnrollment, CreateRightsRequest, Logout, At
  <2>2. Goto(s, "deliver") \/ Goto(s, "refused")
    BY <1>9 DEF UpdateConsent, RequestDataExport, ConfirmMfaEnrollment, CreateRightsRequest, Logout,
       StoreFor
  <2>3. UNCHANGED <<reset, jar, erased, excused>>
    BY <1>9 DEF UpdateConsent, RequestDataExport, ConfirmMfaEnrollment, CreateRightsRequest, Logout,
       StoreFor
  <2>4. \A u \in Users \ {request[s].user} : data'[u] = data[u] /\ account'[u] = account[u]
    BY <1>9 DEF UpdateConsent, RequestDataExport, ConfirmMfaEnrollment, CreateRightsRequest, Logout,
       StoreFor, Revoke, TypeOK
  <2> QED BY <1>8, <2>1, <2>2, <2>3, <2>4
<1>10. ASSUME Answer(s) PROVE ErasureInv'
  <2>1. request' = [request EXCEPT ![s] = Idle] /\ UNCHANGED <<account, data, reset, erased, excused>>
    BY <1>10 DEF Answer, Finish, Step
  <2>2. ASSUME NEW u \in Gone PROVE StaleCookies(jar'[u], u)
    <3>1. CASE request[s].fresh /\ request[s].user = u
      <4>1. Stale(request[s].token, u)
        BY <2>2, <3>1 DEF ErasureInv, TurnedAway
      <4>2. jar'[u] = [jar[u] EXCEPT !.access = request[s].token] /\ jar[u] \in Cookies
        BY <1>0, <1>10, <2>2, <3>1 DEF Answer, TypeOK
      <4>3. jar'[u].access = request[s].token /\ jar'[u].refresh = jar[u].refresh
            /\ jar'[u].mfa = jar[u].mfa
        BY <4>2 DEF Cookies
      <4> QED BY <1>0, <2>2, <4>1, <4>3 DEF StaleCookies
    <3>2. CASE ~(request[s].fresh /\ request[s].user = u)
      <4>1. jar'[u] = jar[u]
        BY <1>0, <1>10, <2>2, <3>2 DEF Answer, TypeOK
      <4> QED BY <1>0, <2>2, <4>1
    <3> QED BY <3>1, <3>2
  <2>3. Gone' = Gone
    BY <2>1 DEF Gone
  <2> QED BY <1>0, <2>1, <2>2, <2>3, IdlePlain, ErasureStays DEF Wiped, OwnResets
<1>11. ASSUME ClearCookies(s) PROVE ErasureInv'
  <2>1. /\ jar' = [jar EXCEPT ![request[s].user] = NoCookies]
        /\ request' = [request EXCEPT ![s] = Idle]
        /\ UNCHANGED <<account, data, reset, erased, excused>>
    BY <1>11 DEF ClearCookies, Finish, Step
  <2>2. \A v \in Gone : StaleCookies(jar'[v], v)
    BY <1>0, <2>1 DEF StaleCookies, Stale, NoCookies, TypeOK
  <2>3. Gone' = Gone
    BY <2>1 DEF Gone
  <2> QED BY <1>0, <2>1, <2>2, <2>3, IdlePlain, ErasureStays DEF Wiped, OwnResets
<1>12. ASSUME NEW u \in Users, ForgetSession(s, u) PROVE ErasureInv'
  BY <1>3, <1>12 DEF ForgetSession, Begin
<1> QED BY <1>1, <1>2, <1>4, <1>5, <1>6, <1>7, <1>9, <1>10, <1>11, <1>12 DEF SessionStep

LEMMA ResetErasure ==
    ASSUME TypeOK, ResetInv, ErasureInv, NEW s \in Slots, ResetStep(s)
    PROVE  ErasureInv'
<1> USE DEF rows, sessions, ghosts
<1> DEFINE Still == UNCHANGED <<account, data, reset, jar, erased, excused>>
<1>0. \A u \in Gone : u \in Users /\ Wiped(u) /\ StaleCookies(jar[u], u)
  BY DEF ErasureInv, Gone, TypeOK
<1>1. ASSUME NEW e \in Emails \ {Anonymous[u] : u \in Users}, ForgotPassword(s, e)
      PROVE  ErasureInv'
  <2> DEFINE r == [Idle EXCEPT !.op = "forgot", !.at = "find", !.email = e]
  <2>1. r.op = "forgot" /\ r.user = NoUser /\ r.email = e
    BY DEF Idle
  <2>2. request' = [request EXCEPT ![s] = r] /\ Still
    BY <1>1 DEF ForgotPassword, Begin
  <2> HIDE DEF r
  <2>3. Plain(r) /\ \A u \in Gone : TurnedAway(r, u)
    BY <1>0, <2>1, UserAssumption DEF Plain, TurnedAway
  <2> QED BY <2>2, <2>3, ErasureIdles
<1>2. ASSUME FindUserByEmail(s) PROVE ErasureInv'
  <2>1. Still
    BY <1>2 DEF FindUserByEmail
  <2>2. CASE Goto(s, "insert")
    <3> DEFINE r == [request[s] EXCEPT !.at = "insert"]
    <3>1. request' = [request EXCEPT ![s] = r]
      BY <2>2 DEF Goto, Step
    <3>2. Plain(r) /\ \A u \in Gone : TurnedAway(r, u)
      BY GotoPlain
    <3> HIDE DEF r
    <3> QED BY <2>1, <3>1, <3>2, ErasureIdles
  <2>3. ASSUME NEW u \in Users, account[u].email = request[s].email,
               Step(s, [request[s] EXCEPT !.at = "revoke", !.user = u])
        PROVE  ErasureInv'
    <3> DEFINE r == [request[s] EXCEPT !.at = "revoke", !.user = u]
    <3>1. r.op = "forgot" /\ r.user = u /\ r.email = request[s].email /\ request[s].op = "forgot"
      BY <1>2 DEF FindUserByEmail, At, TypeOK, Request
    <3>2. request' = [request EXCEPT ![s] = r]
      BY <2>3 DEF Step
    <3>3. Plain(request[s])
      BY DEF ErasureInv
    <3>4. \A v \in Gone : v # u
      BY <1>0, <2>3, <3>1, <3>3 DEF Plain, Wiped
    <3> HIDE DEF r
    <3>5. Plain(r) /\ \A v \in Gone : TurnedAway(r, v)
      BY <3>1, <3>3, <3>4 DEF Plain, TurnedAway
    <3> QED BY <2>1, <3>2, <3>5, ErasureIdles
  <2> QED BY <1>2, <2>2, <2>3 DEF FindUserByEmail
<1>3. ASSUME RevokeOlder(s) PROVE ErasureInv'
  <2> DEFINE r == [request[s] EXCEPT !.at = "insert", !.rows = LiveFor(request[s].email)]
  <2>1. /\ r.op = "forgot" /\ r.user = request[s].user /\ r.email = request[s].email
        /\ request[s].op = "forgot"
    BY <1>3 DEF RevokeOlder, At, TypeOK, Request
  <2>2. request' = [request EXCEPT ![s] = r] /\ Still
    BY <1>3 DEF RevokeOlder, Step
  <2>3. Plain(request[s]) /\ \A u \in Gone : TurnedAway(request[s], u)
    BY DEF ErasureInv
  <2> HIDE DEF r
  <2>4. Plain(r) /\ \A u \in Gone : TurnedAway(r, u)
    BY <2>1, <2>3 DEF Plain, TurnedAway, Guarded
  <2> QED BY <2>2, <2>4, ErasureIdles
<1>4. ASSUME InsertReset(s) PROVE ErasureInv'
  <2>1. /\ request' = [request EXCEPT ![s] = Idle]
        /\ UNCHANGED <<account, data, jar, erased, excused>>
    BY <1>4 DEF InsertReset, Finish, Step
  <2>2. \A u \in Gone : request[s].user # u
    BY <1>4 DEF InsertReset, At, ErasureInv, TurnedAway, Guarded
  <2>3. \A j \in Resets : \/ reset'[j].user = request[s].user
                          \/ reset'[j] = reset[j]
                          \/ reset[j].state = "live" /\ reset'[j].user = reset[j].user
    BY <1>4 DEF InsertReset, TypeOK, Reset
  <2>4. Gone' = Gone
    BY <2>1 DEF Gone
  <2>5. \A u \in Gone : \A j \in Resets :
          reset'[j].user = u /\ reset'[j].state # "absent" => reset'[j].state = "deleted"
    BY <1>0, <2>2, <2>3 DEF Wiped, OwnResets
  <2> QED BY <1>0, <2>1, <2>4, <2>5, IdlePlain, ErasureStays
<1>5. ASSUME NEW i \in Resets, ReadToken(s, i) PROVE ErasureInv'
  <2> DEFINE r == [Idle EXCEPT !.op = "reset", !.at = "commit", !.rows = {i}]
  <2>1. r.op = "reset" /\ r.user = NoUser
    BY DEF Idle
  <2>2. request' = [request EXCEPT ![s] = r] /\ Still
    BY <1>5 DEF ReadToken, Begin
  <2> HIDE DEF r
  <2>3. Plain(r) /\ \A u \in Gone : TurnedAway(r, u)
    BY <1>0, <2>1, UserAssumption DEF Plain, TurnedAway
  <2> QED BY <2>2, <2>3, ErasureIdles
<1>6. ASSUME NEW i \in Resets, ChangePassword(s, i) PROVE ErasureInv'
  <2>1. /\ request' = [request EXCEPT ![s] = Idle]
        /\ UNCHANGED <<data, jar, erased, excused>>
    BY <1>6 DEF ChangePassword, Finish, Step
  <2>2. reset[i].state = "live"
    BY <1>6 DEF ChangePassword, ResetInv, HeldBy
  <2>3. \A u \in Gone : reset[i].user # u
    BY <1>0, <2>2 DEF Wiped, OwnResets
  <2>4. \A u \in Gone : account'[u] = account[u]
    BY <1>0, <1>6, <2>3 DEF ChangePassword, TypeOK
  <2>5. \A j \in Resets : reset'[j].user = reset[j].user /\ (j # i => reset'[j] = reset[j])
    BY <1>6 DEF ChangePassword, TypeOK, Reset
  <2>6. \A u \in Gone : \A j \in Resets :
          reset'[j].user = u /\ reset'[j].state # "absent" => reset'[j].state = "deleted"
    BY <1>0, <2>3, <2>5 DEF Wiped, OwnResets
  <2>7. Gone' = Gone
    BY <2>1 DEF Gone
  <2> QED BY <1>0, <2>1, <2>4, <2>6, <2>7, IdlePlain, ErasureStays
<1> QED BY <1>1, <1>2, <1>3, <1>4, <1>5, <1>6 DEF ResetStep

LEMMA FulfilErasure ==
    ASSUME TypeOK, TypeOK', SessionInv, FiledInv, ErasureInv, NEW s \in Slots, NEW q \in Rights,
           FulfilStep(s, q)
    PROVE  ErasureInv'
<1> USE DEF rows, sessions, ghosts
<1> DEFINE Still == UNCHANGED <<account, data, reset, jar, erased, excused>>
           u == UserOf[q]
           r == [request[s] EXCEPT !.at = "complete"]
<1>0. \A v \in Gone : v \in Users /\ Wiped(v) /\ StaleCookies(jar[v], v)
  BY DEF ErasureInv, Gone, TypeOK
<1>1. ASSUME FindRequest(s, q) PROVE ErasureInv'
  <2> DEFINE n == [Idle EXCEPT !.op = "fulfil", !.at = "execute", !.right = {q}]
  <2>1. n.op = "fulfil" /\ n.user = NoUser
    BY DEF Idle
  <2>2. request' = [request EXCEPT ![s] = n] /\ Still
    BY <1>1 DEF FindRequest, Begin
  <2> HIDE DEF n
  <2>3. Plain(n) /\ \A v \in Gone : TurnedAway(n, v)
    BY <1>0, <2>1, UserAssumption DEF Plain, TurnedAway
  <2> QED BY <2>2, <2>3, ErasureIdles
<1>2. ASSUME FulfilWithRow(s, q) \/ FulfilCorrection(s, q) PROVE ErasureInv'
  <2>1. request' = [request EXCEPT ![s] = r]
    BY <1>2 DEF FulfilWithRow, FulfilCorrection, Executed, Goto, Step
  <2>2. /\ UNCHANGED <<reset, jar, erased>>
        /\ excused' = IF u \in erased THEN excused \cup {u} ELSE excused
    BY <1>2 DEF FulfilWithRow, FulfilCorrection, Executed, CarriedOutLate
  <2>3. Gone' \subseteq Gone /\ u \notin Gone'
    BY <2>2 DEF Gone
  <2>4. \A v \in Gone' : data'[v] = data[v] /\ account'[v] = account[v]
    BY <1>0, <1>2, <2>3 DEF FulfilWithRow, FulfilCorrection, TypeOK
  <2>5. Plain(r) /\ \A v \in Gone : TurnedAway(r, v)
    BY GotoPlain
  <2> HIDE DEF r, u
  <2> QED BY <1>0, <2>1, <2>2, <2>3, <2>4, <2>5, ErasureStays DEF Wiped, OwnResets
<1>3. ASSUME CorrectionFails(s, q) \/ ErasureFails(s, q) \/ CompleteRequest(s, q) PROVE ErasureInv'
  <2>1. request' = [request EXCEPT ![s] = Idle] /\ Still
    BY <1>3 DEF CorrectionFails, ErasureFails, CompleteRequest, Finish, Step
  <2> QED BY <1>0, <2>1, IdlePlain, ErasureIdles
<1>4. ASSUME FulfilDeletion(s, q) PROVE ErasureInv'
  <2>1. /\ request' = [request EXCEPT ![s] = r] /\ jar' = jar
        /\ data' = [data EXCEPT ![u] = data[u] \ Scrubbed] /\ erased' = erased \cup {u}
        /\ reset' = [i \in Resets |-> IF i \in OwnResets(u)
                                     THEN [reset[i] EXCEPT !.state = "deleted"] ELSE reset[i]]
        /\ account' = [account EXCEPT ![u] = [email |-> Anonymous[u], known |-> FALSE,
                                              sv |-> account[u].sv + 1, mfa |-> FALSE]]
        /\ excused' = IF \E t \in Slots \ {s} : request[t] # Idle
                      THEN excused \cup {u} ELSE excused
    BY <1>4 DEF FulfilDeletion, Erase, Executed, Goto, Step
  <2>2. u \in Users
    BY RightAssumption
  <2>8. "request" \in data[u]
    BY <1>4 DEF FulfilDeletion, Executing, FiledInv
  <2>3. /\ r.op = "fulfil" /\ r.user = NoUser
        /\ request[s].op = "fulfil" /\ request[s].user = NoUser
    BY <1>4 DEF FulfilDeletion, Executing, At, TypeOK, Request, ErasureInv, Plain
  <2> HIDE DEF r, u
  <2>4. \A x \in Slots : request'[x] = IF x = s THEN r ELSE request[x]
    BY <2>1 DEF TypeOK
  <2>5. \A x \in Slots : Plain(request[x])'
    <3>1. \A x \in Slots : Plain(request'[x])
      BY <2>3, <2>4 DEF ErasureInv, Plain
    <3> QED BY <3>1 DEF Plain
  <2>6. ASSUME NEW v \in Gone', v # u
        PROVE  Wiped(v)' /\ StaleCookies(jar[v], v)' /\ \A x \in Slots : TurnedAway(request[x], v)'
    <3>1. v \in Gone /\ v \in Users
      BY <2>1, <2>6, <1>0 DEF Gone
    <3>2. account'[v] = account[v] /\ data'[v] = data[v]
      BY <2>1, <2>6, <3>1 DEF TypeOK
    <3>3. \A i \in Resets : reset'[i] = reset[i] \/ reset'[i].state = "deleted"
      BY <2>1 DEF TypeOK, Reset
    <3>4. \A i \in Resets : reset'[i].user = reset[i].user
      BY <2>1 DEF TypeOK, Reset
    <3>5. Wiped(v)'
      BY <1>0, <3>1, <3>2, <3>3, <3>4 DEF Wiped, OwnResets
    <3>6. StaleCookies(jar[v], v)'
      BY <1>0, <2>1, <3>1, <3>2 DEF StaleCookies, Stale
    <3>7. ASSUME NEW x \in Slots PROVE TurnedAway(request[x], v)'
      <4>1. TurnedAway(request'[x], v)
        BY <2>3, <2>4, <3>1, UserAssumption DEF ErasureInv, TurnedAway
      <4> QED BY <3>2, <4>1 DEF TurnedAway, Stale
    <3> QED BY <3>5, <3>6, <3>7
  <2>7. ASSUME u \in Gone'
        PROVE  Wiped(u)' /\ StaleCookies(jar[u], u)' /\ \A x \in Slots : TurnedAway(request[x], u)'
    <3>1. \A t \in Slots \ {s} : request[t] = Idle
      BY <2>1, <2>7 DEF Gone
    <3>2. /\ account'[u] = [email |-> Anonymous[u], known |-> FALSE, sv |-> account[u].sv + 1,
                            mfa |-> FALSE]
          /\ data'[u] = data[u] \ Scrubbed
      BY <2>1, <2>2 DEF TypeOK
    <3>11. data'[u] = {"request"}
      <4>1. data[u] \subseteq Scrubbed \cup {"request"} /\ "request" \notin Scrubbed
        BY <2>2 DEF TypeOK, Kinds, Scrubbed
      <4>2. "request" \in data[u]
        BY <2>8
      <4> QED BY <3>2, <4>1, <4>2
    <3>3. \A i \in Resets : reset'[i].user = u /\ reset'[i].state # "absent"
                             => reset'[i].state = "deleted"
      BY <2>1 DEF OwnResets, TypeOK, Reset
    <3>4. Wiped(u)'
      BY <3>2, <3>3, <3>11 DEF Wiped, OwnResets
    <3>5. account[u].sv \in Nat /\ account'[u].sv = account[u].sv + 1
      BY <2>2, <3>2 DEF TypeOK, Account
    <3>6. ASSUME NEW t, Own(t, u) PROVE Stale(t, u)'
      BY <3>5, <3>6 DEF Own, Stale, Token
    <3>7. OwnCookies(jar[u], u)
      BY <2>2 DEF SessionInv
    <3>8. StaleCookies(jar[u], u)'
      BY <2>1, <3>6, <3>7 DEF OwnCookies, StaleCookies
    <3>9. \A x \in Slots : request'[x].user = NoUser
      <4>1. Idle.user = NoUser
        BY DEF Idle
      <4> QED BY <2>3, <2>4, <3>1, <4>1
    <3>10. \A x \in Slots : TurnedAway(request[x], u)'
      BY <2>2, <3>9, UserAssumption DEF TurnedAway
    <3> QED BY <3>4, <3>8, <3>10
  <2> QED BY <2>5, <2>6, <2>7 DEF ErasureInv
<1> QED BY <1>1, <1>2, <1>3, <1>4 DEF FulfilStep

LEMMA NextErasure ==
    ASSUME TypeOK, TypeOK', SessionInv, ResetInv, FiledInv, ErasureInv, [Next]_vars
    PROVE  ErasureInv'
<1> USE DEF rows, sessions, ghosts
<1>0. \A v \in Gone : v \in Users /\ Wiped(v) /\ StaleCookies(jar[v], v)
  BY DEF ErasureInv, Gone, TypeOK
<1>1. ASSUME NEW s \in Slots, Die(s) PROVE ErasureInv'
  <2>1. request' = [request EXCEPT ![s] = Idle] /\ UNCHANGED <<account, data, reset, jar, erased, excused>>
    BY <1>1 DEF Die
  <2> QED BY <1>0, <2>1, IdlePlain, ErasureIdles
<1>2. ASSUME NEW u \in Users, AccessExpires(u) PROVE ErasureInv'
  <2>1. UNCHANGED <<account, data, reset, erased, excused, request>>
    BY <1>2 DEF AccessExpires
  <2>2. ASSUME NEW v \in Gone PROVE StaleCookies(jar'[v], v)
    <3>1. jar'[v] = jar[v] \/ jar'[v] = [jar[v] EXCEPT !.access = NoToken]
      BY <1>0, <1>2, <2>2 DEF AccessExpires, TypeOK
    <3>2. jar[v] \in Cookies
      BY <1>0, <2>2 DEF TypeOK
    <3>3. jar'[v].access \in {jar[v].access, NoToken} /\ jar'[v].refresh = jar[v].refresh
          /\ jar'[v].mfa = jar[v].mfa
      BY <3>1, <3>2 DEF Cookies
    <3> QED BY <1>0, <2>2, <3>3 DEF StaleCookies, Stale
  <2>3. Gone' = Gone
    BY <2>1 DEF Gone
  <2> QED BY <2>1, <2>2, <2>3 DEF ErasureInv, Wiped, OwnResets, StaleCookies, Stale, TurnedAway, Plain
<1>3. ASSUME NEW i \in Resets, HourPasses(i) PROVE ErasureInv'
  <2>1. \A j \in Resets : reset'[j].state = reset[j].state /\ reset'[j].user = reset[j].user
    BY <1>3 DEF HourPasses, TypeOK, Reset
  <2>2. UNCHANGED <<account, data, jar, request>> /\ Gone' = Gone
    BY <1>3 DEF HourPasses, Gone
  <2> QED BY <2>1, <2>2 DEF ErasureInv, Wiped, OwnResets, StaleCookies, Stale, TurnedAway, Plain
<1>4. CASE UNCHANGED vars
  BY <1>4 DEF vars, ErasureInv, Gone, Wiped, OwnResets, StaleCookies, Stale, TurnedAway, Plain
<1> QED BY <1>1, <1>2, <1>3, <1>4, SessionErasure, ResetErasure, FulfilErasure DEF Next

-----------------------------------------------------------------------------
(* The limit on reset requests *)

Asking(e) == {s \in Slots : request[s].op = "forgot" /\ request[s].email = e}

\* A stored request was counted against the limit, or was one of the Slots.
LimitInv ==
    \A e \in Emails : Cardinality(Recent(e)) + Cardinality(Asking(e)) < Limit + Cardinality(Slots)

LEMMA Finite ==
    ASSUME NEW e
    PROVE  /\ IsFiniteSet(Recent(e)) /\ Cardinality(Recent(e)) \in Nat
           /\ IsFiniteSet(Asking(e)) /\ Cardinality(Asking(e)) \in Nat
           /\ Cardinality(Asking(e)) <= Cardinality(Slots) /\ Cardinality(Slots) \in Nat
<1>1. Recent(e) \subseteq Resets /\ Asking(e) \subseteq Slots
  BY DEF Recent, Asking
<1> QED BY <1>1, BoundAssumption, FS_Subset, FS_CardinalityType

LEMMA FiniteNext ==
    ASSUME NEW e
    PROVE  /\ IsFiniteSet(Recent(e)') /\ Cardinality(Recent(e)') \in Nat
           /\ IsFiniteSet(Asking(e)') /\ Cardinality(Asking(e)') \in Nat
           /\ Cardinality(Asking(e)') <= Cardinality(Slots)
<1>1. Recent(e)' \subseteq Resets /\ Asking(e)' \subseteq Slots
  BY DEF Recent, Asking
<1> QED BY <1>1, BoundAssumption, FS_Subset, FS_CardinalityType

LEMMA InitLimit == Init => LimitInv
<1> SUFFICES ASSUME Init, NEW e \in Emails
             PROVE  Cardinality(Recent(e)) + Cardinality(Asking(e)) < Limit + Cardinality(Slots)
  BY DEF LimitInv
<1>1. Recent(e) = {} /\ Asking(e) = {}
  BY DEF Init, Recent, Asking, Idle
<1> QED BY <1>1, Finite, FS_EmptySet, BoundAssumption

\* Neither count grows.
LEMMA LimitStays ==
    ASSUME LimitInv, \A e \in Emails : Recent(e)' \subseteq Recent(e) /\ Asking(e)' \subseteq Asking(e)
    PROVE  LimitInv'
<1> SUFFICES ASSUME NEW e \in Emails
             PROVE  Cardinality(Recent(e)') + Cardinality(Asking(e)') < Limit + Cardinality(Slots)
  BY DEF LimitInv
<1>1. Cardinality(Recent(e)') <= Cardinality(Recent(e)) /\ Cardinality(Asking(e)') <= Cardinality(Asking(e))
  BY Finite, FS_Subset
<1>2. Cardinality(Recent(e)) + Cardinality(Asking(e)) < Limit + Cardinality(Slots)
  BY DEF LimitInv
<1> QED BY <1>1, <1>2, Finite, FiniteNext, BoundAssumption

LEMMA NextLimit ==
    ASSUME TypeOK, ResetInv, LimitInv, [Next]_vars
    PROVE  LimitInv'
<1> USE DEF rows, sessions, ghosts
<1>1. ASSUME NEW s \in Slots, SessionStep(s) PROVE LimitInv'
  <2>1. \A e \in Emails : Recent(e)' = Recent(e) /\ Asking(e)' \subseteq Asking(e)
    BY <1>1, SessionFrame DEF Recent, Asking, Apart
  <2> QED BY <2>1, LimitStays
<1>2. ASSUME NEW s \in Slots, NEW f \in Emails, ForgotPassword(s, f) PROVE LimitInv'
  <2> SUFFICES ASSUME NEW e \in Emails
               PROVE  Cardinality(Recent(e)') + Cardinality(Asking(e)') < Limit + Cardinality(Slots)
    BY DEF LimitInv
  <2>1. \A x \in Emails : Recent(x)' = Recent(x)
    BY <1>2 DEF ForgotPassword, Recent
  <2>2. \A x \in Emails \ {f} : Asking(x)' = Asking(x)
    BY <1>2 DEF ForgotPassword, Begin, Asking, Idle, TypeOK
  <2>3. Cardinality(Recent(f)) < Limit
    BY <1>2 DEF ForgotPassword
  <2>4. CASE e = f
    BY <2>1, <2>3, <2>4, Finite, FiniteNext, BoundAssumption
  <2>5. CASE e # f
    BY <2>1, <2>2, <2>5 DEF LimitInv
  <2> QED BY <2>4, <2>5
<1>3. ASSUME NEW s \in Slots, FindUserByEmail(s) \/ RevokeOlder(s) PROVE LimitInv'
  <2>1. \A x \in Slots : request'[x].op = request[x].op /\ request'[x].email = request[x].email
    <3>1. CASE FindUserByEmail(s)
      <4>1. CASE Goto(s, "insert")
        BY <4>1 DEF Goto, Step, TypeOK, Request
      <4>2. ASSUME NEW u \in Users, Step(s, [request[s] EXCEPT !.at = "revoke", !.user = u])
            PROVE  \A x \in Slots : request'[x].op = request[x].op /\ request'[x].email = request[x].email
        BY <4>2 DEF Step, TypeOK, Request
      <4> QED BY <3>1, <4>1, <4>2 DEF FindUserByEmail
    <3>2. CASE RevokeOlder(s)
      BY <3>2 DEF RevokeOlder, Step, TypeOK, Request
    <3> QED BY <1>3, <3>1, <3>2
  <2>2. reset' = reset
    BY <1>3 DEF FindUserByEmail, RevokeOlder
  <2>3. \A e \in Emails : Recent(e)' = Recent(e) /\ Asking(e)' = Asking(e)
    BY <2>1, <2>2 DEF Recent, Asking
  <2> QED BY <2>3, LimitStays
<1>4. ASSUME NEW s \in Slots, InsertReset(s) PROVE LimitInv'
  <2> DEFINE f == request[s].email
  <2> SUFFICES ASSUME NEW e \in Emails
               PROVE  Cardinality(Recent(e)') + Cardinality(Asking(e)') < Limit + Cardinality(Slots)
    BY DEF LimitInv
  <2>1. PICK i \in Resets :
          reset' = [j \in Resets |->
                      IF j = i
                      THEN [state |-> IF request[s].user = NoUser THEN "blank" ELSE "live",
                            email |-> f, user |-> request[s].user, old |-> FALSE]
                      ELSE IF j \in request[s].rows /\ reset[j].state = "live"
                           THEN [reset[j] EXCEPT !.state = "revoked"] ELSE reset[j]]
    BY <1>4 DEF InsertReset
  <2>10. reset'[i].email = f
    BY <2>1
  <2>11. ASSUME NEW j \in Resets, j # i, NEW x \in Emails, j \in Recent(x)' PROVE j \in Recent(x)
    <3>1. \/ reset'[j] = reset[j]
          \/ reset[j].state = "live" /\ reset'[j] = [reset[j] EXCEPT !.state = "revoked"]
      BY <2>1, <2>11
    <3>2. reset[j] \in Reset
      BY DEF TypeOK
    <3>3. reset'[j].email = reset[j].email /\ reset'[j].old = reset[j].old
      BY <3>1, <3>2 DEF Reset
    <3> QED BY <2>11, <3>1, <3>3 DEF Recent
  <2>2. /\ request[s].op = "forgot" /\ request'[s] = Idle
        /\ \A x \in Slots \ {s} : request'[x] = request[x]
    BY <1>4 DEF InsertReset, At, Finish, Step, TypeOK
  <2>3. \A x \in Emails : Asking(x)' = Asking(x) \ {s}
    BY <2>2 DEF Asking, Idle
  <2>4. \A x \in Emails \ {f} : Recent(x)' \subseteq Recent(x)
    BY <2>10, <2>11 DEF Recent
  <2>5. \A x \in Emails : Recent(x)' \subseteq Recent(x) \cup {i}
    BY <2>11 DEF Recent
  <2>6. s \in Asking(f)
    BY <2>2 DEF Asking
  <2>7. Cardinality(Recent(e)) + Cardinality(Asking(e)) < Limit + Cardinality(Slots)
    BY DEF LimitInv
  <2>8. CASE e # f
    <3>1. Cardinality(Recent(e)') <= Cardinality(Recent(e)) /\ Cardinality(Asking(e)') <= Cardinality(Asking(e))
      BY <2>3, <2>4, <2>8, Finite, FS_Subset
    <3> QED BY <2>7, <3>1, Finite, FiniteNext, BoundAssumption
  <2>9. CASE e = f
    <3>1. Cardinality(Asking(e)') = Cardinality(Asking(e)) - 1
      BY <2>3, <2>6, <2>9, Finite, FS_RemoveElement
    <3>2. IsFiniteSet(Recent(e) \cup {i}) /\ Cardinality(Recent(e) \cup {i}) <= Cardinality(Recent(e)) + 1
      <4>1. Cardinality(Recent(e) \cup {i})
              = IF i \in Recent(e) THEN Cardinality(Recent(e)) ELSE Cardinality(Recent(e)) + 1
        BY Finite, FS_AddElement
      <4>2. IsFiniteSet(Recent(e) \cup {i})
        BY Finite, FS_AddElement
      <4> QED BY <4>1, <4>2, Finite
    <3>3. Cardinality(Recent(e)') <= Cardinality(Recent(e) \cup {i})
      <4>1. Recent(e)' \in SUBSET (Recent(e) \cup {i})
        BY <2>5, <2>9
      <4> QED BY <3>2, <4>1, FS_Subset
    <3>4. Cardinality(Recent(e) \cup {i}) \in Nat
      BY <3>2, FS_CardinalityType
    <3> QED BY <2>7, <3>1, <3>2, <3>3, <3>4, Finite, FiniteNext, BoundAssumption
  <2> QED BY <2>8, <2>9
<1>5. ASSUME NEW s \in Slots, NEW i \in Resets, ReadToken(s, i) PROVE LimitInv'
  <2>1. \A e \in Emails : Recent(e)' = Recent(e) /\ Asking(e)' \subseteq Asking(e)
    BY <1>5 DEF ReadToken, Begin, Idle, Recent, Asking, TypeOK
  <2> QED BY <2>1, LimitStays
<1>6. ASSUME NEW s \in Slots, NEW i \in Resets, ChangePassword(s, i) PROVE LimitInv'
  <2>1. \A e \in Emails : Asking(e)' \subseteq Asking(e)
    BY <1>6 DEF ChangePassword, Finish, Step, Idle, Asking, TypeOK
  <2>3. \A j \in Resets : /\ reset'[j].email = reset[j].email /\ reset'[j].old = reset[j].old
                          /\ j # i => reset'[j] = reset[j]
    BY <1>6 DEF ChangePassword, TypeOK, Reset
  <2>4. i \in HeldBy(s)
    BY <1>6 DEF ChangePassword, HeldBy
  <2>5. \A e \in Emails : Recent(e)' \subseteq Recent(e)
    BY <2>3, <2>4 DEF Recent, ResetInv
  <2> QED BY <2>1, <2>5, LimitStays
<1>7. ASSUME NEW s \in Slots, NEW q \in Rights, FulfilStep(s, q) PROVE LimitInv'
  <2>1. \A e \in Emails : Recent(e)' \subseteq Recent(e)
    <3>1. CASE FulfilDeletion(s, q)
      BY <3>1 DEF FulfilDeletion, Erase, Recent, TypeOK, Reset
    <3>2. CASE ~FulfilDeletion(s, q)
      BY <1>7, <3>2 DEF FulfilStep, FindRequest, FulfilWithRow, FulfilCorrection, CorrectionFails, ErasureFails,
         CompleteRequest, Recent
    <3> QED BY <3>1, <3>2
  <2>2. /\ request'[s].op # "forgot" /\ \A x \in Slots \ {s} : request'[x] = request[x]
    <3>1. CASE FindRequest(s, q)
      BY <3>1 DEF FindRequest, Begin, Idle, TypeOK
    <3>2. CASE FulfilWithRow(s, q)
      BY <3>2 DEF FulfilWithRow, Executing, At, Executed, Goto, Step, TypeOK, Request
    <3>3. CASE FulfilCorrection(s, q)
      BY <3>3 DEF FulfilCorrection, Executing, At, Executed, Goto, Step, TypeOK, Request
    <3>4. CASE CorrectionFails(s, q) \/ ErasureFails(s, q) \/ CompleteRequest(s, q)
      BY <3>4 DEF CorrectionFails, ErasureFails, CompleteRequest, Executing, At, Finish, Step, Idle, TypeOK
    <3>5. CASE FulfilDeletion(s, q)
      BY <3>5 DEF FulfilDeletion, Executing, At, Executed, Goto, Step, TypeOK, Request
    <3> QED BY <1>7, <3>1, <3>2, <3>3, <3>4, <3>5 DEF FulfilStep
  <2>3. \A e \in Emails : Asking(e)' \subseteq Asking(e)
    BY <2>2 DEF Asking
  <2> QED BY <2>1, <2>3, LimitStays
<1>8. ASSUME NEW s \in Slots, Die(s) PROVE LimitInv'
  <2>1. \A e \in Emails : Recent(e)' = Recent(e) /\ Asking(e)' \subseteq Asking(e)
    BY <1>8 DEF Die, Idle, Recent, Asking, TypeOK
  <2> QED BY <2>1, LimitStays
<1>9. ASSUME NEW i \in Resets, HourPasses(i) PROVE LimitInv'
  <2>1. \A e \in Emails : Recent(e)' \subseteq Recent(e) /\ Asking(e)' = Asking(e)
    BY <1>9 DEF HourPasses, Recent, Asking, TypeOK, Reset
  <2> QED BY <2>1, LimitStays
<1>10. ASSUME (\E u \in Users : AccessExpires(u)) \/ UNCHANGED vars PROVE LimitInv'
  <2>1. \A e \in Emails : Recent(e)' = Recent(e) /\ Asking(e)' = Asking(e)
    BY <1>10 DEF AccessExpires, vars, Recent, Asking
  <2> QED BY <2>1, LimitStays
<1>11. ASSUME NEW s \in Slots, ResetStep(s) PROVE LimitInv'
  BY <1>2, <1>3, <1>4, <1>5, <1>6, <1>11 DEF ResetStep
<1> QED BY <1>1, <1>7, <1>8, <1>9, <1>10, <1>11 DEF Next

-----------------------------------------------------------------------------
(* The theorems *)

IInv == TypeOK /\ SessionInv /\ ResetInv /\ FulfilInv /\ DeletionInv /\ FiledInv /\ ErasureInv /\ LimitInv

\* The invariant the others follow from.
THEOREM Inductive == Spec => []IInv
<1>1. Init => IInv
  BY InitType, InitSession, InitReset, InitFulfil, InitDeletion, InitFiled, InitErasure, InitLimit DEF IInv
<1>2. IInv /\ [Next]_vars => IInv'
  BY NextType, NextSession, NextReset, NextFulfil, NextDeletion, NextFiled, NextErasure, NextLimit DEF IInv
<1> QED BY <1>1, <1>2, PTL DEF Spec

\* Rows, cookies, tokens and requests keep their types.
THEOREM AccountsTyped == Spec => []TypeOK
<1>1. IInv => TypeOK
  BY DEF IInv
<1> QED BY <1>1, Inductive, PTL

\* No token from before a logout, a reset or an erasure is accepted after it.
THEOREM SessionsReallyEnd == Spec => []SessionsEnd
<1>1. IInv => SessionsEnd
  BY SessionsEndHere DEF IInv
<1> QED BY <1>1, Inductive, PTL

\* A reset token changes a password once.
THEOREM ResetTokensReallyWorkOnce == Spec => []ResetTokensWorkOnce
<1>1. IInv => ResetTokensWorkOnce
  BY DEF IInv, ResetInv, ResetTokensWorkOnce
<1> QED BY <1>1, Inductive, PTL

\* Concurrent requests for a reset exceed the limit by less than the number that overlap.
THEOREM ResetsReallyLimited == Spec => []ResetsAreLimited
<1>1. IInv => ResetsAreLimited
  <2> SUFFICES ASSUME IInv, NEW e \in Emails
               PROVE  Cardinality(Recent(e)) < Limit + Cardinality(Slots)
    BY DEF ResetsAreLimited
  <2>1. Cardinality(Recent(e)) + Cardinality(Asking(e)) < Limit + Cardinality(Slots)
    BY DEF IInv, LimitInv
  <2> QED BY <2>1, Finite, BoundAssumption
<1> QED BY <1>1, Inductive, PTL

\* Of an erased person the rights requests are left, and nothing more comes back, unless
\* something was already under way.
THEOREM ErasureReallyLasts == Spec => []ErasureLeavesRequests
<1>1. IInv => ErasureLeavesRequests
  BY ErasureLeavesRequestsHere DEF IInv
<1> QED BY <1>1, Inductive, PTL

\* Uncontested rights requests are carried out once, and no deletion counts as completed
\* that erased nobody.
THEOREM ReallyFulfilledOnce == Spec => []FulfilledOnce
<1>1. IInv => FulfilledOnce
  BY FulfilledOnceHere DEF IInv
<1> QED BY <1>1, Inductive, PTL
===============================================================================
