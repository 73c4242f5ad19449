------------------------------- MODULE Accounts --------------------------------
(***************************************************************************)
(* Accounts, their sessions and what is stored about a person: login with  *)
(* and without a second factor, the frontend's session proxy, logout,      *)
(* password reset, and the data subject requests of the privacy module.    *)
(* Sources: common/auth/auth.{service,pg-store,guards,utils}.ts,           *)
(* modules/privacy/privacy.{service,pg-store,controller}.ts and the routes *)
(* of frontend/src/app/api that hold the session cookies.                  *)
(*                                                                         *)
(* Each statement, or transaction whose statements lock what they read, is *)
(* one step; requests overlap in Slots.  JWTs carry a session version and  *)
(* are refused when it is not the row's.  Signatures, TTLs of tokens and   *)
(* bcrypt are data: a browser sends the right password, or is refused      *)
(* without a change of state.  Nobody asks to reset an anonymised address. *)
(***************************************************************************)
EXTENDS Naturals, FiniteSets

CONSTANTS
    Users,
    NoUser,
    Privileged,    \* users whose role needs a second factor
    Emails,
    Address,       \* user -> the address the account was opened with
    Anonymous,     \* user -> deleted+<id>@privacy.invalid
    Resets,        \* ids of password_reset_requests, 1 .. n in the order of insertion
    Limit,         \* AUTH_PASSWORD_RESET_MAX_REQUESTS_PER_WINDOW
    Rights,        \* ids of privacy_requests
    UserOf,        \* right -> the user it is about
    TypeOf,        \* right -> its type
    Correction,    \* right -> the addresses a CORRECTION may ask for
    Slots,         \* requests that overlap
    MaxRequests,   \* bound: requests started
    MaxFaults      \* bound: requests that die in some step

RightTypes == {"EXPORT", "WITHDRAW", "CORRECTION", "DELETION"}

ASSUME UserAssumption ==
    /\ NoUser \notin Users
    /\ Privileged \subseteq Users /\ Emails # {}
    /\ Address \in [Users -> Emails] /\ Anonymous \in [Users -> Emails]
    /\ \A u, v \in Users : Anonymous[u] # Address[v] /\ (Anonymous[u] = Anonymous[v] => u = v)
ASSUME RightAssumption ==
    /\ UserOf \in [Rights -> Users]
    /\ TypeOf \in [Rights -> RightTypes]
    /\ Correction \in [Rights -> SUBSET (Emails \ {Anonymous[u] : u \in Users})]
ASSUME BoundAssumption ==
    /\ Resets \subseteq Nat /\ IsFiniteSet(Resets)
    /\ Limit \in Nat \ {0}
    /\ IsFiniteSet(Slots) /\ MaxRequests \in Nat /\ MaxFaults \in Nat

VARIABLES
    account,    \* users: address, password, session version, whether MFA is enabled
    data,       \* user -> the kinds of rows kept about the person
    reset,      \* password_reset_requests
    right,      \* privacy_requests: their status
    jar,        \* user -> the cookies of the user's browser
    issued,     \* tokens that have been handed out
    request,    \* slot -> the request it handles
    grants,     \* user -> how often logout, reset or erasure ended the sessions so far
    uses,       \* reset -> how often it changed a password
    acted,      \* right -> how often it was carried out
    contested,  \* rights with overlapping or dead fulfilments
    erased,     \* users whose erasure was committed
    excused,    \* erased users with requests under way or carried out later
    started,    \* requests started, at most MaxRequests
    faults      \* requests that died, at most MaxFaults

rows == <<account, data, reset, right>>
sessions == <<jar, issued>>
ghosts == <<grants, uses, acted, contested, erased, excused>>
vars == <<account, data, reset, right, jar, issued, request, grants, uses, acted, contested,
          erased, excused, started, faults>>

-----------------------------------------------------------------------------
(* Types and helpers *)

\* The claims of a token that matter: whose it is, its sv, and when the password
\* it goes back to was proved.
Token == [user : Users, sv : Nat, grant : Nat]
NoToken == [user |-> NoUser, sv |-> 0, grant |-> 0]

\* known: the password is one the user chose.
Account == [email : Emails, known : BOOLEAN, sv : Nat, mfa : BOOLEAN]

\* What anonymizeUser deletes or overwrites, and privacy_requests, which it does not: their
\* reason, details and resolution, a corrected address among them.
Scrubbed == {"profile", "consent", "export", "apiKey", "notification", "mfa"}
Kinds == Scrubbed \cup {"request"}
Reset == [state : {"absent", "blank", "live", "revoked", "used", "deleted"},
          email : Emails, user : Users \cup {NoUser}, old : BOOLEAN]
Cookies == [access : Token \cup {NoToken}, refresh : Token \cup {NoToken},
            mfa : Token \cup {NoToken}]
NoCookies == [access |-> NoToken, refresh |-> NoToken, mfa |-> NoToken]

\* What the browser asks for through the proxy.
Guarded == {"consent", "export", "rights", "enroll", "logout"}

Request == [op : Guarded \cup {"none", "login", "challenge", "forgot", "reset", "fulfil"},
            at : {"guard", "refresh", "act", "deliver", "refused", "find", "revoke", "insert",
                  "commit", "execute", "complete", "idle"},
            user : Users \cup {NoUser}, token : Token \cup {NoToken},
            refresh : Token \cup {NoToken}, fresh : BOOLEAN,
            email : Emails, rows : SUBSET Resets, right : SUBSET Rights]
Idle == [op |-> "none", at |-> "idle", user |-> NoUser, token |-> NoToken,
         refresh |-> NoToken, fresh |-> FALSE, email |-> CHOOSE e \in Emails : TRUE,
         rows |-> {}, right |-> {}]

At(s, op, at) == request[s].op = op /\ request[s].at = at
Step(s, r) == request' = [request EXCEPT ![s] = r] /\ UNCHANGED <<started, faults>>
Goto(s, at) == Step(s, [request[s] EXCEPT !.at = at])
Finish(s) == Step(s, Idle)
Begin(s, r) ==
    /\ request[s] = Idle /\ started < MaxRequests
    /\ request' = [request EXCEPT ![s] = r]
    /\ started' = started + 1
    /\ UNCHANGED faults

\* A session begun now for u.
Session(u) == [user |-> u, sv |-> account[u].sv, grant |-> grants[u]]

\* verifyTypedJwt, requireUserById and the comparison with the row's version.
Accepted(t) == t \in Token /\ t.sv = account[t.user].sv

\* Sessions end by a new session version.
Revoke(u) ==
    /\ account' = [account EXCEPT ![u].sv = @ + 1]
    /\ grants' = [grants EXCEPT ![u] = @ + 1]

-----------------------------------------------------------------------------
(* Login *)

\* login reads the row once: the password, the second factor and the version of
\* the tokens are of one moment.  A privileged user without MFA is refused, one
\* that sent no code gets a challenge.
Login(s, u) ==
    /\ account[u].known
    /\ u \in Privileged => account[u].mfa
    /\ \E op \in IF u \in Privileged THEN {"challenge", "login"} ELSE {"login"} :
          Begin(s, [Idle EXCEPT !.op = op, !.at = "deliver", !.user = u, !.token = Session(u)])
    /\ UNCHANGED <<rows, sessions, ghosts>>

\* verifyMfa: the challenge's version must still be the row's, the code match its secret.
VerifyMfaUnchecked(s, u) ==
    /\ account[u].mfa
    /\ Begin(s, [Idle EXCEPT !.op = "login", !.at = "deliver", !.user = u,
                             !.token = [jar[u].mfa EXCEPT !.sv = account[u].sv]])
    /\ UNCHANGED <<rows, sessions, ghosts>>
VerifyMfa(s, u) ==
    /\ Accepted(jar[u].mfa) /\ account[u].mfa
    /\ Begin(s, [Idle EXCEPT !.op = "login", !.at = "deliver", !.user = u,
                             !.token = [jar[u].mfa EXCEPT !.sv = account[u].sv]])
    /\ UNCHANGED <<rows, sessions, ghosts>>

\* buildSessionTokens or buildMfaChallenge; the route drops the old cookies.
Deliver(s) ==
    LET r == request[s]
    IN  /\ r.op \in {"login", "challenge"} /\ r.at = "deliver"
        /\ issued' = issued \cup {r.token}
        /\ jar' = [jar EXCEPT ![r.user] =
                     IF r.op = "login"
                     THEN [access |-> r.token, refresh |-> r.token, mfa |-> NoToken]
                     ELSE [NoCookies EXCEPT !.mfa = r.token]]
        /\ Finish(s)
        /\ UNCHANGED <<rows, ghosts>>

\* The access cookie lives as long as its token, one hour.
AccessExpires(u) ==
    /\ jar[u].access # NoToken
    /\ jar' = [jar EXCEPT ![u].access = NoToken]
    /\ UNCHANGED <<rows, issued, request, ghosts, started, faults>>

-----------------------------------------------------------------------------
(* proxyRequest and the guards behind it *)

Send(s, u, op) ==
    /\ jar[u].access # NoToken \/ jar[u].refresh # NoToken
    /\ Begin(s, [Idle EXCEPT !.op = op, !.at = "guard", !.user = u, !.token = jar[u].access,
                             !.refresh = IF op = "logout" THEN NoToken ELSE jar[u].refresh])
    /\ UNCHANGED <<rows, sessions, ghosts>>

\* The logout route asks the backend only if there is an access cookie.
ForgetSession(s, u) ==
    /\ jar[u].access = NoToken
    /\ Begin(s, Idle)
    /\ jar' = [jar EXCEPT ![u] = NoCookies]
    /\ UNCHANGED <<rows, issued, ghosts>>

\* JwtAuthGuard: a missing token is a 401, for which the proxy may have a refresh
\* token; a refused one is an error of another kind, which the proxy passes on.
GuardWithToken(s) ==
    LET r == request[s]
    IN  /\ r.op \in Guarded /\ r.at = "guard" /\ r.token # NoToken
        /\ Goto(s, IF Accepted(r.token) THEN "act"
                   ELSE IF r.op = "logout" THEN "refused" ELSE "deliver")
        /\ UNCHANGED <<rows, sessions, ghosts>>
GuardWithoutToken(s) ==
    LET r == request[s]
    IN  /\ r.op \in Guarded /\ r.at = "guard" /\ r.token = NoToken
        /\ Goto(s, IF r.refresh = NoToken THEN "refused" ELSE "refresh")
        /\ UNCHANGED <<rows, sessions, ghosts>>

\* refresh: an access token of the row's version for a refresh token of that version.
Refreshed(r) == [r EXCEPT !.token = [r.refresh EXCEPT !.sv = account[r.user].sv],
                          !.refresh = NoToken, !.fresh = TRUE, !.at = "guard"]
RefreshUnchecked(s) ==
    LET r == request[s]
    IN  /\ r.op \in Guarded /\ r.at = "refresh"
        /\ Step(s, Refreshed(r))
        /\ UNCHANGED <<rows, sessions, ghosts>>
Refresh(s) ==
    LET r == request[s]
    IN  /\ r.op \in Guarded /\ r.at = "refresh"
        /\ Step(s, IF Accepted(r.refresh) THEN Refreshed(r) ELSE [r EXCEPT !.at = "refused"])
        /\ UNCHANGED <<rows, sessions, ghosts>>

\* The handlers behind the guard write by the user's id, whatever became of the
\* account since; requireProfile finds every user, as rows of users stay.
StoreFor(s, kind) ==
    /\ data' = [data EXCEPT ![request[s].user] = @ \cup {kind}]
    /\ Goto(s, "deliver")
    /\ UNCHANGED <<reset, right, sessions, ghosts>>
UpdateConsent(s) == At(s, "consent", "act") /\ StoreFor(s, "consent") /\ UNCHANGED account
RequestDataExport(s) == At(s, "export", "act") /\ StoreFor(s, "export") /\ UNCHANGED account
ConfirmMfaEnrollment(s) ==
    /\ At(s, "enroll", "act")
    /\ account' = [account EXCEPT ![request[s].user].mfa = TRUE]
    /\ StoreFor(s, "mfa")
CreateRightsRequest(s) ==
    /\ At(s, "rights", "act")
    /\ \E q \in Rights :
          /\ UserOf[q] = request[s].user /\ right[q] = "absent"
          /\ right' = [right EXCEPT ![q] = "PENDING"]
    /\ data' = [data EXCEPT ![request[s].user] = @ \cup {"request"}]
    /\ Goto(s, "deliver")
    /\ UNCHANGED <<account, reset, sessions, ghosts>>
Logout(s) ==
    /\ At(s, "logout", "act")
    /\ Revoke(request[s].user)
    /\ Goto(s, "refused")
    /\ UNCHANGED <<data, reset, right, sessions, uses, acted, contested, erased, excused>>

\* The answer sets the refreshed cookie; a 401, or a logout, clears them all.
Answer(s) ==
    /\ request[s].op \in Guarded /\ request[s].at = "deliver"
    /\ issued' = IF request[s].fresh THEN issued \cup {request[s].token} ELSE issued
    /\ jar' = IF request[s].fresh
              THEN [jar EXCEPT ![request[s].user].access = request[s].token] ELSE jar
    /\ Finish(s)
    /\ UNCHANGED <<rows, ghosts>>
ClearCookies(s) ==
    /\ request[s].op \in Guarded /\ request[s].at = "refused"
    /\ jar' = [jar EXCEPT ![request[s].user] = NoCookies]
    /\ Finish(s)
    /\ UNCHANGED <<rows, issued, ghosts>>

-----------------------------------------------------------------------------
(* Password reset *)

Recent(e) == {i \in Resets : reset[i].email = e /\ ~reset[i].old
                             /\ reset[i].state \notin {"absent", "deleted"}}
LiveFor(e) == {i \in Resets : reset[i].state = "live" /\ reset[i].email = e}

\* A reset that has read its row FOR UPDATE holds it until it commits.
HeldBy(s) == IF At(s, "reset", "commit") THEN request[s].rows ELSE {}
Locked(i) == \E s \in Slots : i \in HeldBy(s)

\* One hour: the token expires, and the request counts no more.
HourPasses(i) ==
    /\ reset[i].state # "absent" /\ ~reset[i].old
    /\ reset' = [reset EXCEPT ![i].old = TRUE]
    /\ UNCHANGED <<account, data, right, sessions, request, ghosts, started, faults>>

\* countPasswordResetRequestsSince
ForgotPasswordLenient(s, e) ==
    /\ Cardinality(Recent(e)) <= Limit
    /\ Begin(s, [Idle EXCEPT !.op = "forgot", !.at = "find", !.email = e])
    /\ UNCHANGED <<rows, sessions, ghosts>>
ForgotPassword(s, e) ==
    /\ Cardinality(Recent(e)) < Limit
    /\ Begin(s, [Idle EXCEPT !.op = "forgot", !.at = "find", !.email = e])
    /\ UNCHANGED <<rows, sessions, ghosts>>

\* findUserByEmail; no user, no token.
FindUserByEmail(s) ==
    LET found == {u \in Users : account[u].email = request[s].email}
    IN  /\ At(s, "forgot", "find")
        /\ \/ found = {} /\ Goto(s, "insert")
           \/ \E u \in found : Step(s, [request[s] EXCEPT !.at = "revoke", !.user = u])
        /\ UNCHANGED <<rows, sessions, ghosts>>

\* createPasswordResetRequest: the UPDATE has picked its rows, but not locked them.
RevokeOlder(s) ==
    /\ At(s, "forgot", "revoke")
    /\ Step(s, [request[s] EXCEPT !.at = "insert", !.rows = LiveFor(request[s].email)])
    /\ UNCHANGED <<rows, sessions, ghosts>>

\* It waits for a reset that holds one of them, skips those that are live no more,
\* inserts the new request and commits.
InsertReset(s) ==
    LET r == request[s]
        row == [state |-> IF r.user = NoUser THEN "blank" ELSE "live",
                email |-> r.email, user |-> r.user, old |-> FALSE]
    IN  /\ At(s, "forgot", "insert")
        /\ \A i \in r.rows : ~Locked(i)
        /\ \E i \in Resets :
              /\ reset[i].state = "absent"
              /\ \A j \in Resets : j < i => reset[j].state # "absent"
              /\ reset' = [j \in Resets |->
                             IF j = i THEN row
                             ELSE IF j \in r.rows /\ reset[j].state = "live"
                                  THEN [reset[j] EXCEPT !.state = "revoked"] ELSE reset[j]]
        /\ Finish(s)
        /\ UNCHANGED <<account, data, right, sessions, ghosts>>

\* resetPassword: SELECT ... FOR UPDATE and the checks of what it read.
ReadTokenUnlocked(s, i) ==
    /\ reset[i].state = "live" /\ ~reset[i].old
    /\ Begin(s, [Idle EXCEPT !.op = "reset", !.at = "commit", !.rows = {i}])
    /\ UNCHANGED <<rows, sessions, ghosts>>
ReadToken(s, i) ==
    /\ ~Locked(i)
    /\ reset[i].state = "live" /\ ~reset[i].old
    /\ Begin(s, [Idle EXCEPT !.op = "reset", !.at = "commit", !.rows = {i}])
    /\ UNCHANGED <<rows, sessions, ghosts>>

\* The password, the session version and used_at change in one transaction.
ChangePassword(s, i) ==
    /\ At(s, "reset", "commit") /\ i \in request[s].rows
    /\ account' = [account EXCEPT ![reset[i].user].sv = @ + 1, ![reset[i].user].known = TRUE]
    /\ grants' = [grants EXCEPT ![reset[i].user] = @ + 1]
    /\ reset' = [reset EXCEPT ![i].state = "used"]
    /\ uses' = [uses EXCEPT ![i] = @ + 1]
    /\ Finish(s)
    /\ UNCHANGED <<data, right, sessions, acted, contested, erased, excused>>

-----------------------------------------------------------------------------
(* fulfillPrivacyRequest: find it, carry it out, mark it completed *)

Fulfilling(q) == {s \in Slots : request[s].op = "fulfil" /\ q \in request[s].right}

Contest(q, isContested) == contested' = IF isContested THEN contested \cup {q} ELSE contested

FindAnyRequest(s, q) ==
    /\ right[q] # "absent"
    /\ Begin(s, [Idle EXCEPT !.op = "fulfil", !.at = "execute", !.right = {q}])
    /\ Contest(q, Fulfilling(q) # {})
    /\ UNCHANGED <<rows, sessions, grants, uses, acted, erased, excused>>
FindRequest(s, q) ==
    /\ right[q] = "PENDING"
    /\ Begin(s, [Idle EXCEPT !.op = "fulfil", !.at = "execute", !.right = {q}])
    /\ Contest(q, Fulfilling(q) # {})
    /\ UNCHANGED <<rows, sessions, grants, uses, acted, erased, excused>>

Executing(s, q, type) == At(s, "fulfil", "execute") /\ q \in request[s].right /\ TypeOf[q] = type
Executed(s, q) ==
    /\ acted' = [acted EXCEPT ![q] = @ + 1]
    /\ Goto(s, "complete")
    /\ UNCHANGED <<right, sessions, uses, contested>>

\* A request that is carried out for a person who was erased brings rows back.
CarriedOutLate(q) ==
    excused' = IF UserOf[q] \in erased THEN excused \cup {UserOf[q]} ELSE excused

\* ACCESS and PORTABILITY store an export, WITHDRAW_CONSENT and OBJECTION an event.
FulfilWithRow(s, q) ==
    /\ Executing(s, q, "EXPORT") \/ Executing(s, q, "WITHDRAW")
    /\ data' = [data EXCEPT ![UserOf[q]] =
                  @ \cup {IF TypeOf[q] = "EXPORT" THEN "export" ELSE "consent"}]
    /\ CarriedOutLate(q)
    /\ Executed(s, q)
    /\ UNCHANGED <<account, reset, grants, erased>>

\* updateUserProfile: addresses are unique; sessions and reset tokens stay.
Taken(e, u) == \E v \in Users \ {u} : account[v].email = e
FulfilCorrection(s, q) ==
    LET u == UserOf[q]
    IN  /\ Executing(s, q, "CORRECTION")
        /\ \E e \in Correction[q] :
              /\ ~Taken(e, u)
              /\ account' = [account EXCEPT ![u].email = e]
        /\ data' = [data EXCEPT ![u] = @ \cup {"profile"}]
        /\ CarriedOutLate(q)
        /\ Executed(s, q)
        /\ UNCHANGED <<reset, grants, erased>>
CorrectionFails(s, q) ==
    /\ Executing(s, q, "CORRECTION")
    /\ \E e \in Correction[q] : Taken(e, UserOf[q])
    /\ Finish(s)
    /\ UNCHANGED <<rows, sessions, ghosts>>

\* anonymizeUser, one transaction, which waits for resets of the user that hold a row.
\* chk_admin_auditor_mfa keeps the MFA of an administrator or auditor enabled: the UPDATE
\* that disables it fails, all is rolled back, and the request stays PENDING.
OwnResets(u) == {i \in Resets : reset[i].user = u /\ reset[i].state # "absent"}
Erase(u) ==
    /\ \A i \in OwnResets(u) : ~Locked(i)
    /\ data' = [data EXCEPT ![u] = @ \ Scrubbed]
    /\ reset' = [i \in Resets |-> IF i \in OwnResets(u)
                                  THEN [reset[i] EXCEPT !.state = "deleted"] ELSE reset[i]]
    /\ erased' = erased \cup {u}
EraseInSession(s, q) ==
    LET u == UserOf[q]
    IN  /\ Executing(s, q, "DELETION") /\ u \notin Privileged
        /\ Erase(u)
        /\ account' = [account EXCEPT ![u] = [@ EXCEPT !.email = Anonymous[u], !.known = FALSE,
                                                       !.mfa = FALSE]]
        /\ grants' = [grants EXCEPT ![u] = @ + 1]
        /\ excused' = IF \E t \in Slots \ {s} : request[t] # Idle
                      THEN excused \cup {u} ELSE excused
        /\ Executed(s, q)
FulfilDeletion(s, q) ==
    LET u == UserOf[q]
    IN  /\ Executing(s, q, "DELETION") /\ u \notin Privileged
        /\ Erase(u)
        /\ account' = [account EXCEPT ![u] = [email |-> Anonymous[u], known |-> FALSE,
                                              sv |-> @.sv + 1, mfa |-> FALSE]]
        /\ grants' = [grants EXCEPT ![u] = @ + 1]
        /\ excused' = IF \E t \in Slots \ {s} : request[t] # Idle
                      THEN excused \cup {u} ELSE excused
        /\ Executed(s, q)
ErasureFails(s, q) ==
    /\ Executing(s, q, "DELETION") /\ UserOf[q] \in Privileged
    /\ \A i \in OwnResets(UserOf[q]) : ~Locked(i)
    /\ Finish(s)
    /\ UNCHANGED <<rows, sessions, ghosts>>

\* completePrivacyRequest overwrites whatever another fulfilment wrote.
CompleteRequest(s, q) ==
    /\ At(s, "fulfil", "complete") /\ q \in request[s].right
    /\ right' = [right EXCEPT ![q] = "COMPLETED"]
    /\ Finish(s)
    /\ UNCHANGED <<account, data, reset, sessions, ghosts>>

-----------------------------------------------------------------------------
\* A request dies before a step, or after one whose answer is lost: a process
\* crashes, a statement fails, a connection breaks.  Locks go with it.
Die(s) ==
    /\ request[s] # Idle /\ faults < MaxFaults
    /\ request' = [request EXCEPT ![s] = Idle]
    /\ faults' = faults + 1
    /\ contested' = contested \cup request[s].right
    /\ UNCHANGED <<rows, sessions, grants, uses, acted, erased, excused, started>>

Init ==
    /\ account = [u \in Users |-> [email |-> Address[u], known |-> TRUE, sv |-> 0,
                                   mfa |-> u \in Privileged]]
    /\ reset = [i \in Resets |-> [state |-> "absent", email |-> CHOOSE e \in Emails : TRUE,
                                  user |-> NoUser, old |-> FALSE]]
    /\ \E filed \in {"absent", "PENDING"} : right = [q \in Rights |-> filed]
    /\ data = [u \in Users |-> {"profile", "apiKey", "notification"} \cup
                 IF \E q \in Rights : UserOf[q] = u /\ right[q] # "absent" THEN {"request"} ELSE {}]
    /\ jar = [u \in Users |-> NoCookies]
    /\ issued = {}
    /\ request = [s \in Slots |-> Idle]
    /\ grants = [u \in Users |-> 0]
    /\ uses = [i \in Resets |-> 0]
    /\ acted = [q \in Rights |-> 0]
    /\ contested = {} /\ erased = {} /\ excused = {}
    /\ started = 0 /\ faults = 0

SessionStep(s) ==
    \/ \E u \in Users : Login(s, u) \/ VerifyMfa(s, u) \/ ForgetSession(s, u)
    \/ \E u \in Users, op \in Guarded : Send(s, u, op)
    \/ Deliver(s) \/ GuardWithToken(s) \/ GuardWithoutToken(s) \/ Refresh(s)
    \/ UpdateConsent(s) \/ RequestDataExport(s) \/ ConfirmMfaEnrollment(s)
    \/ CreateRightsRequest(s) \/ Logout(s) \/ Answer(s) \/ ClearCookies(s)
ResetStep(s) ==
    \/ \E e \in Emails \ {Anonymous[u] : u \in Users} : ForgotPassword(s, e)
    \/ FindUserByEmail(s) \/ RevokeOlder(s) \/ InsertReset(s)
    \/ \E i \in Resets : ReadToken(s, i) \/ ChangePassword(s, i)
FulfilStep(s, q) ==
    \/ FindRequest(s, q) \/ FulfilWithRow(s, q)
    \/ FulfilCorrection(s, q) \/ CorrectionFails(s, q)
    \/ FulfilDeletion(s, q) \/ ErasureFails(s, q)
    \/ CompleteRequest(s, q)

Next ==
    \/ \E s \in Slots : SessionStep(s) \/ ResetStep(s) \/ Die(s)
    \/ \E s \in Slots, q \in Rights : FulfilStep(s, q)
    \/ \E u \in Users : AccessExpires(u)
    \/ \E i \in Resets : HourPasses(i)

Spec == Init /\ [][Next]_vars

-----------------------------------------------------------------------------
(* Properties *)

\* Every variable keeps its type.
TypeOK ==
    /\ account \in [Users -> Account]
    /\ data \in [Users -> SUBSET Kinds]
    /\ reset \in [Resets -> Reset]
    /\ right \in [Rights -> {"absent", "PENDING", "COMPLETED"}]
    /\ jar \in [Users -> Cookies]
    /\ issued \subseteq Token
    /\ request \in [Slots -> Request]
    /\ grants \in [Users -> Nat] /\ uses \in [Resets -> Nat] /\ acted \in [Rights -> Nat]
    /\ contested \subseteq Rights /\ erased \subseteq Users /\ excused \subseteq erased
    /\ started \in 0 .. MaxRequests /\ faults \in 0 .. MaxFaults

\* A token that is accepted goes back to a login after the last logout, password
\* reset or erasure of the account, whatever was under way when that was committed.
SessionsEnd == \A t \in issued : Accepted(t) => t.grant = grants[t.user]

\* The token of a reset request changes a password at most once, also when two
\* resets, or a reset and a newer request, meet.
ResetTokensWorkOnce == \A i \in Resets : uses[i] <= 1

\* At most Limit requests an hour are stored for an address, plus those of
\* requests that were counted while others were under way.
ResetsAreLimited ==
    \A e \in Emails : Cardinality(Recent(e)) < Limit + Cardinality(Slots)

\* Once an erasure is committed only the person's rights requests are left, with what they
\* say of the person, and nothing else comes back, unless a request was under way then, or
\* another rights request is carried out later.
ErasureLeavesRequests ==
    \A u \in erased \ excused :
        /\ data[u] = {"request"} /\ account[u].email = Anonymous[u]
        /\ ~account[u].known /\ ~account[u].mfa
        /\ \A i \in OwnResets(u) : reset[i].state = "deleted"

\* A data subject request is carried out at most once, unless two fulfilments of
\* it overlap or one dies before it marked the request completed; and a deletion is not
\* marked completed unless the person was erased, however the statements in between end.
FulfilledOnce ==
    \A q \in Rights :
        /\ acted[q] > 1 => q \in contested
        /\ TypeOf[q] = "DELETION" /\ right[q] = "COMPLETED" => UserOf[q] \in erased
===============================================================================
