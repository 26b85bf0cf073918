------------------------------ MODULE Accounts ------------------------------
(***************************************************************************)
(* The sessions of RefreshTokens as their users meet them: registration    *)
(* and login, browsers that keep both tokens in cookies and may send the   *)
(* next request before the last one is answered, answers that are late,    *)
(* lost or wrong, and tokens copied out of their browser                   *)
(* (auth.controller.js, auth.service.js, requireAuth.js).                  *)
(*                                                                         *)
(* A user is named after the request that registered it.  The access and   *)
(* the refresh token of one answer are set and cleared together, so a jar  *)
(* keeps one name for both.  An access token is not stored anywhere: what  *)
(* it says follows from the row inserted together with it.                 *)
(***************************************************************************)
EXTENDS RefreshTokens

CONSTANTS
  Emails,
  Browsers,
  AccessTTL   \* JWT_ACCESS_TTL

ASSUME AccountAssumption ==
  /\ NULL \notin Emails
  /\ AccessTTL \in Nat \ {0}

VARIABLES
  email,      \* users.email, by the request that inserted the row
  userOf,     \* refresh_tokens.user_id
  jar,        \* the request whose tokens a browser has
  call,       \* what the browser that sent a request is waiting for
  closedAt,   \* history: when a session was closed
  slipped,    \* history: sessions whose browser did not wait for, or get, an answer
  copied      \* history: sessions a stranger has a token of

accounts == <<email, userOf, jar, call, closedAt, slipped, copied>>
allVars == <<vars, accounts>>

-----------------------------------------------------------------------------
\* A registration or a logout that has not reached its transaction's last
\* statement, a request whose answer is still to come, and one that has ended.
Calls ==
  [pc : {"none", "over"}]
    \cup [pc : {"registering"}, browser : Browsers, email : Emails]
    \cup [pc : {"login"}, browser : Browsers]
    \cup [pc : {"refresh", "leaving", "logout"}, browser : Browsers, token : Requests]

AccountsTypeOK ==
  /\ TypeOK
  /\ email \in [Requests -> Emails \cup {NULL}]
  /\ userOf \in [Requests -> Requests \cup {NULL}]
  /\ jar \in [Browsers -> Requests \cup {NULL}]
  /\ call \in [Requests -> Calls]
  /\ closedAt \in [Requests -> Nat \cup {NULL}]
  /\ slipped \subseteq Requests /\ copied \subseteq Requests

AccountsInit ==
  /\ Init
  /\ email = [r \in Requests |-> NULL]
  /\ userOf = [r \in Requests |-> NULL]
  /\ jar = [b \in Browsers |-> NULL]
  /\ call = [r \in Requests |-> [pc |-> "none"]]
  /\ closedAt = [r \in Requests |-> NULL]
  /\ slipped = {} /\ copied = {}

-----------------------------------------------------------------------------
Fresh(r) == tx[r] = NewTx /\ call[r].pc = "none"

Registered(e) == {u \in Requests : email[u] = e}

\* Requests the browser has sent with this token and heard nothing of yet.
Pending(t) == {r \in Requests : call[r].pc \in {"refresh", "leaving", "logout"}
                                /\ call[r].token = t}

\* When a session is closed, if this step does it.
RecordClosing ==
  closedAt' = [f \in Requests |->
                 IF fate'[f] = "closed" /\ fate[f] # "closed" THEN clock ELSE closedAt[f]]

\* Registration: findUserByEmail() finds nobody.
CheckEmail(r, b, e) ==
  /\ Fresh(r)
  /\ Registered(e) = {}
  /\ call' = [call EXCEPT ![r] = [pc |-> "registering", browser |-> b, email |-> e]]
  /\ UNCHANGED <<vars, email, userOf, jar, closedAt, slipped, copied>>

\* EmailTakenError: the browser's cookies stay as they are.
RefuseEmail(r, b, e) ==
  /\ Fresh(r)
  /\ Registered(e) # {}
  /\ call' = [call EXCEPT ![r] = [pc |-> "over"]]
  /\ UNCHANGED <<vars, email, userOf, jar, closedAt, slipped, copied>>

\* The UNIQUE constraint forgotten.
InsertsUserAnyway(r) == call[r].pc = "registering"

\* users.email is UNIQUE, whatever the check found.
InsertsUser(r) == call[r].pc = "registering" /\ Registered(call[r].email) = {}

\* insertUser() and issueTokenPair(), in one transaction.
RegisterUser(r) ==
  /\ InsertsUser(r)
  /\ Login(r)
  /\ email' = [email EXCEPT ![r] = call[r].email]
  /\ userOf' = [userOf EXCEPT ![r] = r]
  /\ call' = [call EXCEPT ![r] = [pc |-> "login", browser |-> call[r].browser]]
  /\ UNCHANGED <<jar, closedAt, slipped, copied>>

\* The constraint, an error, a timeout or a crash: all of it is rolled back.
FailRegistration(r) ==
  /\ call[r].pc = "registering"
  /\ call' = [call EXCEPT ![r] = [pc |-> "over"]]
  /\ UNCHANGED <<vars, email, userOf, jar, closedAt, slipped, copied>>

\* loginUser() with the right password; with a wrong one nothing happens.
LoginUser(r, b, u) ==
  /\ Fresh(r)
  /\ email[u] # NULL
  /\ Login(r)
  /\ userOf' = [userOf EXCEPT ![r] = u]
  /\ call' = [call EXCEPT ![r] = [pc |-> "login", browser |-> b]]
  /\ UNCHANGED <<email, jar, closedAt, slipped, copied>>

-----------------------------------------------------------------------------
\* A request goes out with the refresh cookie.  If an earlier one with the same
\* cookie has not been answered, the browser gets ahead of itself.
SendCookie(r, b, pc) ==
  /\ jar[b] # NULL
  /\ call' = [call EXCEPT ![r] = [pc |-> pc, browser |-> b, token |-> jar[b]]]
  /\ slipped' = IF Pending(jar[b]) = {} THEN slipped
                ELSE slipped \cup {token[jar[b]].family}

\* POST /auth/refresh: jwt.verify() of the cookie's token.
SendRefresh(r, b) ==
  /\ Fresh(r)
  /\ SendCookie(r, b, "refresh")
  /\ PresentToken(r)
  /\ tx'[r].token = jar[b]
  /\ UNCHANGED <<email, userOf, jar, closedAt, copied>>

\* No cookie, or a token past its exp: the cookies are cleared.
RefuseRefresh(b) ==
  /\ jar[b] # NULL
  /\ clock >= token[jar[b]].expiresAt
  /\ jar' = [jar EXCEPT ![b] = NULL]
  /\ UNCHANGED <<vars, email, userOf, call, closedAt, slipped, copied>>

\* Somebody who has a copy of a token, and no browser of ours.
Replay(r) ==
  /\ Fresh(r)
  /\ PresentToken(r)
  /\ call' = [call EXCEPT ![r] = [pc |-> "over"]]
  /\ copied' = copied \cup {token[tx'[r].token].family}
  /\ UNCHANGED <<email, userOf, jar, closedAt, slipped>>

\* A successor without its user.
RotatedForNobody(r) == UNCHANGED userOf

\* issueTokenPair() for the user of the old row.
RotatedFor(r) ==
  userOf' = IF Issued(r)' /\ ~ Issued(r) THEN [userOf EXCEPT ![r] = userOf[tx[r].token]]
            ELSE userOf

\* The transaction of refreshTokens().
ServeRefresh(r) ==
  /\ ReadToken(r) \/ Rotate(r) \/ ReportReuse(r) \/ Rollback(r)
  /\ RotatedFor(r)
  /\ RecordClosing
  /\ UNCHANGED <<email, jar, call, slipped, copied>>

SendLogout(r, b) ==
  /\ Fresh(r)
  /\ SendCookie(r, b, "leaving")
  /\ UNCHANGED <<vars, email, userOf, jar, closedAt, copied>>

\* logoutUser()
ServeLogout(r) ==
  /\ call[r].pc = "leaving"
  /\ Logout(call[r].token)
  /\ call' = [call EXCEPT ![r].pc = "logout"]
  /\ RecordClosing
  /\ UNCHANGED <<email, userOf, jar, slipped, copied>>

-----------------------------------------------------------------------------
\* What is left to answer.
Answered(r) ==
  \/ call[r].pc \in {"login", "logout"}
  \/ call[r].pc = "refresh" /\ tx[r] = DoneTx

Over(r) == call' = [call EXCEPT ![r] = [pc |-> "over"]]

\* A refresh that answers with the new access token alone.
CookiesWithoutRefresh(r) == IF Issued(r) /\ call[r].pc = "login" THEN r
                            ELSE jar[call[r].browser]

\* setAuthCookies() if there are new tokens; if not, clearAuthCookies().
CookiesAfter(r) == IF Issued(r) THEN r ELSE NULL

Deliver(r) ==
  /\ Answered(r)
  /\ jar' = [jar EXCEPT ![call[r].browser] = CookiesAfter(r)]
  /\ Over(r)
  /\ UNCHANGED <<vars, email, userOf, closedAt, slipped, copied>>

\* The request took effect and the answer says 500, or never comes: refresh()
\* clears the cookies on any error, the others leave them alone.
AnswerWrongly(r) ==
  /\ Answered(r)
  /\ \/ call[r].pc = "refresh" /\ jar' = [jar EXCEPT ![call[r].browser] = NULL]
     \/ UNCHANGED jar
  /\ Over(r)
  /\ slipped' = IF call[r].pc = "login" THEN slipped
                ELSE slipped \cup {token[call[r].token].family}
  /\ UNCHANGED <<vars, email, userOf, closedAt, copied>>

\* The logout is lost before it did anything.
LoseLogout(r) ==
  /\ call[r].pc = "leaving"
  /\ Over(r)
  /\ UNCHANGED <<vars, email, userOf, jar, closedAt, slipped, copied>>

BrowserSends(r, b) ==
  \/ \E e \in Emails : CheckEmail(r, b, e) \/ RefuseEmail(r, b, e)
  \/ \E u \in Requests : LoginUser(r, b, u)
  \/ SendRefresh(r, b)
  \/ SendLogout(r, b)

Serve(r) ==
  \/ RegisterUser(r)
  \/ FailRegistration(r)
  \/ ServeRefresh(r)
  \/ ServeLogout(r)

Answer(r) ==
  \/ Deliver(r)
  \/ AnswerWrongly(r)
  \/ LoseLogout(r)

AccountsNext ==
  \/ \E r \in Requests, b \in Browsers : BrowserSends(r, b)
  \/ \E b \in Browsers : RefuseRefresh(b)
  \/ \E r \in Requests : Replay(r) \/ Serve(r) \/ Answer(r)
  \/ Tick /\ UNCHANGED accounts

AccountsSpec == AccountsInit /\ [][AccountsNext]_allVars

-----------------------------------------------------------------------------
\* When the access token of a row's answer was signed, and whether requireAuth()
\* lets it pass.
SignedAt(r) == token[r].expiresAt - TokenTTL
Authenticates(r) == Issued(r) /\ clock < SignedAt(r) + AccessTTL

\* An address has one account, which came with the session its registration
\* began, and every session is of one such account however its tokens came to be:
\* rotations, replays and races never carry it over to another one
\* (registerUser's check, constraint and transaction; refreshTokens).
SessionsAreOfOneAccount ==
  /\ \A u, v \in Requests : email[u] # NULL =>
       /\ email[u] = email[v] => u = v
       /\ Issued(u) /\ userOf[u] = u
  /\ \A r \in Requests : Issued(r) =>
       /\ userOf[r] \in Requests
       /\ email[userOf[r]] # NULL
       /\ userOf[r] = userOf[token[r].family]

\* Access tokens cannot be revoked, but none outlives the end of its session by
\* more than JWT_ACCESS_TTL, whatever was in flight when the session ended.
AccessEndsAfterClose ==
  \A r \in Requests :
    LET f == token[r].family
    IN  Issued(r) /\ fate[f] = "closed" /\ clock >= closedAt[f] + AccessTTL
          => ~ Authenticates(r)

\* A session that no stranger has a token of, whose browser waits for its
\* answers and gets them, is never taken for a stolen one.
ReuseNeedsASlip ==
  \A r \in Requests :
    tx[r].pc = "reuse" => token[tx[r].token].family \in slipped \cup copied
=============================================================================
