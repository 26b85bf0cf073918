--------------------------- MODULE RefreshTokens ----------------------------
(***************************************************************************)
(* Sessions: login, refresh with rotation and reuse detection, logout      *)
(* (auth.service.js, auth.queries.js, migration 008).                      *)
(*                                                                         *)
(* A request that inserts a refresh_tokens row gives it its own name; the  *)
(* family of a session is named after the login that began it.             *)
(***************************************************************************)
EXTENDS Naturals

CONSTANTS
  Requests,   \* logins and refreshes
  NULL,
  TokenTTL,   \* JWT_REFRESH_TTL
  MaxTime     \* bound on the clock

ASSUME TokenAssumption ==
  /\ NULL \notin Requests
  /\ TokenTTL \in Nat \ {0}
  /\ MaxTime \in Nat

VARIABLES
  clock,   \* of the server and the database alike
  token,   \* refresh_tokens, by the request that inserted the row
  tx,      \* what each request is doing
  fate     \* history: how the session of each family went

vars == <<clock, token, tx, fate>>

-----------------------------------------------------------------------------
TokenRows ==
  [family : Requests \cup {NULL}, status : {"valid", "revoked"}, expiresAt : Nat]

NewTx      == [pc |-> "new"]
DoneTx     == [pc |-> "done"]
RefreshTx  == [pc : {"verified", "rotating", "reuse"}, token : Requests]

\* A session is over ("closed") when the last of its tokens is revoked while
\* nobody is exchanging one of them.
Fates == {"none", "open", "loggedOut", "reported", "closed"}

TypeOK ==
  /\ clock \in Nat
  /\ token \in [Requests -> TokenRows]
  /\ tx \in [Requests -> {NewTx, DoneTx} \cup RefreshTx]
  /\ fate \in [Requests -> Fates]

NoToken == [family |-> NULL, status |-> "valid", expiresAt |-> 0]

Init ==
  /\ clock = 0
  /\ token = [r \in Requests |-> NoToken]
  /\ tx = [r \in Requests |-> NewTx]
  /\ fate = [r \in Requests |-> "none"]

-----------------------------------------------------------------------------
Issued(t) == token[t].family # NULL
Family(f) == {t \in Requests : token[t].family = f}
Live(f)   == {t \in Family(f) : token[t].status = "valid"}

\* Refreshes that found their token good and have not rotated it yet.
Rotating(f) ==
  {r \in Requests : tx[r].pc = "rotating" /\ token[tx[r].token].family = f}

\* revokeRefreshToken() and revokeRefreshTokenFamily(): rows revoked before stay so.
Revoke(tokens) ==
  [t \in Requests |-> IF t \in tokens THEN [token[t] EXCEPT !.status = "revoked"]
                      ELSE token[t]]

FateAfter(f, revoked, otherwise) ==
  fate' = [fate EXCEPT ![f] = IF Rotating(f) = {} /\ Live(f) \subseteq revoked
                              THEN "closed" ELSE otherwise]

Finish(r) == tx' = [tx EXCEPT ![r] = DoneTx]

\* A token without an expiry.
NewTokenForever(f) == [family |-> f, status |-> "valid", expiresAt |-> NULL]

\* issueTokenPair()
NewToken(f) == [family |-> f, status |-> "valid", expiresAt |-> clock + TokenTTL]

\* registerUser() and loginUser(): a family of its own.
Login(r) ==
  /\ tx[r] = NewTx
  /\ token' = [token EXCEPT ![r] = NewToken(r)]
  /\ fate' = [fate EXCEPT ![r] = "open"]
  /\ Finish(r)
  /\ UNCHANGED clock

\* refreshTokens() up to its transaction: jwt.verify() checks signature and exp.
PresentToken(r) ==
  \E t \in Requests :
    /\ tx[r] = NewTx
    /\ Issued(t)
    /\ clock < token[t].expiresAt
    /\ tx' = [tx EXCEPT ![r] = [pc |-> "verified", token |-> t]]
    /\ UNCHANGED <<clock, token, fate>>

\* BEGIN and findRefreshTokenByHash(): an unlocked read.  Revoked comes first.
ReadToken(r) ==
  /\ tx[r].pc = "verified"
  /\ LET row == token[tx[r].token]
     IN  tx' = [tx EXCEPT ![r] = IF row.status = "revoked" THEN [@ EXCEPT !.pc = "reuse"]
                                 ELSE IF row.expiresAt <= clock THEN DoneTx
                                 ELSE [@ EXCEPT !.pc = "rotating"]]
  /\ UNCHANGED <<clock, token, fate>>

\* A rotation whose new row is lost.
RotateHalf(r) ==
  /\ tx[r].pc = "rotating"
  /\ token' = Revoke({tx[r].token})
  /\ Finish(r)
  /\ UNCHANGED <<clock, fate>>

\* The token is revoked, by this request or by one that was faster, and its
\* successor inserted in the same family; then COMMIT.
Rotate(r) ==
  /\ tx[r].pc = "rotating"
  /\ token' = [Revoke({tx[r].token}) EXCEPT ![r] = NewToken(token[tx[r].token].family)]
  /\ Finish(r)
  /\ UNCHANGED <<clock, fate>>

\* Reuse reported by a throw inside the transaction, which undoes the revocation.
ReportReuseByThrow(r) ==
  /\ tx[r].pc = "reuse"
  /\ LET f == token[tx[r].token].family IN FateAfter(f, Family(f), "reported")
  /\ Finish(r)
  /\ UNCHANGED <<clock, token>>

\* revokeRefreshTokenFamily() and COMMIT; the caller is told afterwards.
ReportReuse(r) ==
  /\ tx[r].pc = "reuse"
  /\ LET f == token[tx[r].token].family
     IN  /\ token' = Revoke(Family(f))
         /\ FateAfter(f, Family(f), "reported")
  /\ Finish(r)
  /\ UNCHANGED clock

\* logoutUser(): any number of times, with any token of the session.
Logout(t) ==
  /\ Issued(t)
  /\ token' = Revoke({t})
  /\ LET f == token[t].family
     IN  FateAfter(f, {t}, IF t \in Live(f) /\ fate[f] = "open"
                           THEN "loggedOut" ELSE fate[f])
  /\ UNCHANGED <<clock, tx>>

\* An error, a timeout or a crash inside the transaction.
Rollback(r) ==
  /\ tx[r].pc \in {"verified", "rotating", "reuse"}
  /\ Finish(r)
  /\ UNCHANGED <<clock, token, fate>>

Tick ==
  /\ clock < MaxTime
  /\ clock' = clock + 1
  /\ UNCHANGED <<token, tx, fate>>

Refresh(r) ==
  \/ PresentToken(r)
  \/ ReadToken(r)
  \/ Rotate(r)
  \/ ReportReuse(r)
  \/ Rollback(r)

Next ==
  \/ \E r \in Requests : Login(r) \/ Refresh(r)
  \/ \E t \in Requests : Logout(t)
  \/ Tick

Spec == Init /\ [][Next]_vars

-----------------------------------------------------------------------------
\* "A crash between revoke old and insert new can never leave the family with
\* zero valid tokens while also not registering as reuse" (step 6 of
\* refreshTokens): unless somebody logged out or reuse was reported, a session
\* has a token to go on with.
SessionNeverLost == \A f \in Requests : fate[f] = "open" => Live(f) # {}

\* A session closed by a logout or by a reported reuse, at a moment when no
\* rotation of it was under way, stays closed: whatever is replayed, in
\* whatever order, no token of the family is good again.
ClosedForGood == \A f \in Requests : fate[f] = "closed" => Live(f) = {}

-----------------------------------------------------------------------------
\* "It revokes the ENTIRE family ... Both parties are now logged out" (step 4):
\* once reuse was reported, the session has no token left.
ReuseEndsSession == \A f \in Requests : fate[f] = "reported" => Live(f) = {}
=============================================================================
