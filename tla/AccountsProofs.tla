--------------------------- MODULE AccountsProofs ---------------------------
(***************************************************************************)
(* What Accounts promises for any number of requests, addresses, browsers  *)
(* and lifetimes.  Its steps are steps of RefreshTokens, whose invariant   *)
(* therefore holds of it.                                                  *)
(***************************************************************************)
EXTENDS Accounts, RefreshTokensProofs

\* What a browser keeps, and what it asks about, was once issued.
BrowsersHaveTokens ==
  /\ \A b \in Browsers : jar[b] # NULL => Issued(jar[b])
  /\ \A r \in Requests :
       call[r].pc \in {"refresh", "leaving", "logout"} => Issued(call[r].token)

\* The login that a family is named after is its first row.
FamiliesBegin ==
  \A r \in Requests : Issued(r) =>
    token[r].family \in Requests /\ token[token[r].family].family = token[r].family

\* A session that is closed got no token after it was.
NothingAfterClose ==
  /\ \A r \in Requests : Issued(r) => token[r].expiresAt <= clock + TokenTTL
  /\ \A f \in Requests : fate[f] = "closed" =>
       /\ closedAt[f] \in Nat
       /\ \A r \in Requests : token[r].family = f =>
            token[r].expiresAt <= closedAt[f] + TokenTTL

AInv ==
  /\ IInv
  /\ AccountsTypeOK
  /\ BrowsersHaveTokens
  /\ FamiliesBegin
  /\ SessionsAreOfOneAccount
  /\ NothingAfterClose

-----------------------------------------------------------------------------
\* Every step is one of RefreshTokens, or leaves its tables alone.
LEMMA StepIsTokenStep ==
  ASSUME AccountsTypeOK, [AccountsNext]_allVars PROVE [Next]_vars
<1>1. ASSUME NEW r \in Requests, NEW b \in Browsers, BrowserSends(r, b)
      PROVE  [Next]_vars
  BY <1>1 DEF BrowserSends, CheckEmail, RefuseEmail, LoginUser, SendRefresh,
              SendLogout, Next, Refresh
<1>2. ASSUME NEW b \in Browsers, RefuseRefresh(b) PROVE [Next]_vars
  BY <1>2 DEF RefuseRefresh
<1>3. ASSUME NEW r \in Requests, Replay(r) PROVE [Next]_vars
  BY <1>3 DEF Replay, Next, Refresh
<1>4. ASSUME NEW r \in Requests, Serve(r) PROVE [Next]_vars
  <2>1. CASE RegisterUser(r) BY <2>1 DEF RegisterUser, Next
  <2>2. CASE FailRegistration(r) BY <2>2 DEF FailRegistration
  <2>3. CASE ServeRefresh(r) BY <2>3 DEF ServeRefresh, Next, Refresh
  <2>4. CASE ServeLogout(r)
    <3>1. call[r] \in Calls /\ call[r].pc = "leaving"
      BY <2>4 DEF ServeLogout, AccountsTypeOK
    <3>2. call[r].token \in Requests BY <3>1 DEF Calls
    <3> QED BY <2>4, <3>2 DEF ServeLogout, Next
  <2> QED BY <1>4, <2>1, <2>2, <2>3, <2>4 DEF Serve
<1>5. ASSUME NEW r \in Requests, Answer(r) PROVE [Next]_vars
  BY <1>5 DEF Answer, Deliver, AnswerWrongly, LoseLogout
<1>6. CASE Tick BY <1>6 DEF Next
<1>7. CASE UNCHANGED allVars BY <1>7 DEF allVars
<1> QED BY <1>1, <1>2, <1>3, <1>4, <1>5, <1>6, <1>7 DEF AccountsNext

LEMMA InitAInv == AccountsInit => AInv
<1> SUFFICES ASSUME AccountsInit PROVE AInv
  OBVIOUS
<1>1. IInv BY InitIInv DEF AccountsInit
<1>2. \A r \in Requests : ~ Issued(r)
  BY DEF AccountsInit, Init, NoToken, Issued
<1>3. AccountsTypeOK
  BY <1>1 DEF AccountsInit, AccountsTypeOK, IInv, Calls
<1>4. BrowsersHaveTokens BY DEF AccountsInit, BrowsersHaveTokens
<1>5. FamiliesBegin BY <1>2 DEF FamiliesBegin
<1>6. SessionsAreOfOneAccount BY <1>2 DEF AccountsInit, SessionsAreOfOneAccount
<1>7. NothingAfterClose BY <1>2 DEF AccountsInit, Init, NothingAfterClose
<1> QED BY <1>1, <1>3, <1>4, <1>5, <1>6, <1>7 DEF AInv

-----------------------------------------------------------------------------
\* A row keeps its family and its expiry for good.
LEMMA RowsStay ==
  ASSUME IInv, [Next]_vars, NEW t \in Requests, Issued(t)
  PROVE  /\ token'[t].family = token[t].family
         /\ token'[t].expiresAt = token[t].expiresAt
<1>1. /\ token \in [Requests -> TokenRows]
      /\ \A r \in Requests : tx[r] # DoneTx => ~ Issued(r)
  BY DEF IInv, TypeOK, NoRowBeforeTheEnd, Issued, NoToken
<1>2. \A S : /\ Revoke(S)[t].family = token[t].family
            /\ Revoke(S)[t].expiresAt = token[t].expiresAt
  BY <1>1 DEF Revoke, TokenRows
<1>3. NewTx # DoneTx BY DEF NewTx, DoneTx
<1>4. ASSUME NEW r \in Requests, Login(r)
      PROVE  token'[t] = token[t]
  BY <1>1, <1>3, <1>4 DEF Login
<1>5. ASSUME NEW r \in Requests, Rotate(r)
      PROVE  token'[t] = Revoke({tx[r].token})[t]
  BY <1>1, <1>5 DEF Rotate, DoneTx, Revoke
<1>6. ASSUME NEW r \in Requests, ReportReuse(r)
      PROVE  \E S : token'[t] = Revoke(S)[t]
  BY <1>6 DEF ReportReuse
<1>7. ASSUME NEW u \in Requests, Logout(u)
      PROVE  \E S : token'[t] = Revoke(S)[t]
  BY <1>7 DEF Logout
<1>8. \/ token'[t] = token[t]
      \/ \E S : token'[t] = Revoke(S)[t]
  BY <1>4, <1>5, <1>6, <1>7
     DEF Next, Refresh, PresentToken, ReadToken, Rollback, Tick, vars
<1> QED BY <1>2, <1>8

\* Only the first and the last statement of a session's story write new rows.
OldRowsOnly ==
  \A t \in Requests : /\ token'[t].family = token[t].family
                      /\ token'[t].expiresAt = token[t].expiresAt

LEMMA LoginStarts ==
  ASSUME IInv, NEW r \in Requests, Login(r)
  PROVE  /\ ~ Issued(r)
         /\ token'[r].family = r
         /\ token'[r].expiresAt = clock + TokenTTL
         /\ \A t \in Requests \ {r} : token'[t] = token[t]
         /\ fate'[r] = "open" /\ \A f \in Requests \ {r} : fate'[f] = fate[f]
         /\ clock' = clock
<1>1. tx[r] # DoneTx BY DEF Login, NewTx, DoneTx
<1>2. ~ Issued(r) BY <1>1 DEF IInv, NoRowBeforeTheEnd, Issued, NoToken
<1>3. token \in [Requests -> TokenRows] /\ fate \in [Requests -> Fates]
  BY DEF IInv, TypeOK
<1> QED BY <1>2, <1>3 DEF Login, NewToken

LEMMA RotateContinues ==
  ASSUME IInv, NEW r \in Requests, Rotate(r)
  PROVE  /\ ~ Issued(r)
         /\ tx[r].token \in Requests /\ Issued(tx[r].token)
         /\ token'[r].family = token[tx[r].token].family
         /\ token'[r].family \in Requests
         /\ fate[token'[r].family] # "closed"
         /\ token'[r].expiresAt = clock + TokenTTL
         /\ \A t \in Requests \ {r} : /\ token'[t].family = token[t].family
                                     /\ token'[t].expiresAt = token[t].expiresAt
         /\ UNCHANGED <<clock, fate>>
<1> DEFINE u == tx[r].token
<1>1. /\ token \in [Requests -> TokenRows]
      /\ tx[r] \in {NewTx, DoneTx} \cup RefreshTx
      /\ tx[r].pc = "rotating"
  BY DEF IInv, TypeOK, Rotate
<1>2. tx[r] \in RefreshTx /\ tx[r] # DoneTx BY <1>1, Phases
<1>3. u \in Requests /\ Issued(u)
  BY <1>2 DEF IInv, PresentedIsIssued, RefreshTx
<1>4. ~ Issued(r) BY <1>2 DEF IInv, NoRowBeforeTheEnd, Issued, NoToken
<1>5. token[u].family \in Requests BY <1>1, <1>3 DEF TokenRows, Issued
<1>6. fate[token[u].family] # "closed"
  BY <1>1, <1>5 DEF IInv, NoRotationOfClosed, Rotating
<1>7. \A t \in Requests : /\ Revoke({u})[t].family = token[t].family
                          /\ Revoke({u})[t].expiresAt = token[t].expiresAt
  BY <1>1 DEF Revoke, TokenRows
<1>8. token' = [Revoke({u}) EXCEPT ![r] = NewToken(token[u].family)]
  BY DEF Rotate
<1>9. \A t \in Requests \ {r} : token'[t] = Revoke({u})[t]
  BY <1>8 DEF Revoke
<1>10. token'[r] = NewToken(token[u].family) BY <1>8 DEF Revoke
<1>11. /\ token'[r].family = token[u].family
       /\ token'[r].expiresAt = clock + TokenTTL
  BY <1>10 DEF NewToken
<1>12. UNCHANGED <<clock, fate>> BY DEF Rotate
<1>13. /\ token'[r].family \in Requests
       /\ fate[token'[r].family] # "closed"
  BY <1>5, <1>6, <1>11
<1>14. ASSUME NEW t \in Requests \ {r}
       PROVE  /\ token'[t].family = token[t].family
              /\ token'[t].expiresAt = token[t].expiresAt
  <2>1. token'[t] = Revoke({u})[t] BY <1>9
  <2>2. /\ Revoke({u})[t].family = token[t].family
        /\ Revoke({u})[t].expiresAt = token[t].expiresAt
    BY <1>7
  <2> QED BY <2>1, <2>2
<1> QED BY <1>3, <1>4, <1>11, <1>12, <1>13, <1>14

\* Whatever else happens changes no family and no expiry.
LEMMA OthersWriteNoRow ==
  ASSUME IInv, [Next]_vars, \A r \in Requests : ~ Login(r) /\ ~ Rotate(r)
  PROVE  OldRowsOnly
<1> SUFFICES ASSUME NEW t \in Requests
             PROVE  /\ token'[t].family = token[t].family
                    /\ token'[t].expiresAt = token[t].expiresAt
  BY DEF OldRowsOnly
<1>1. token \in [Requests -> TokenRows] BY DEF IInv, TypeOK
<1>2. \A S : /\ Revoke(S)[t].family = token[t].family
            /\ Revoke(S)[t].expiresAt = token[t].expiresAt
  BY <1>1 DEF Revoke, TokenRows
<1>3. token' = token \/ \E S : token' = Revoke(S)
  BY DEF Next, Refresh, PresentToken, ReadToken, ReportReuse, Logout, Rollback, Tick,
         vars
<1> QED BY <1>2, <1>3

LEMMA FamiliesStayBegun ==
  ASSUME IInv, FamiliesBegin, [Next]_vars
  PROVE  FamiliesBegin'
<1>1. ASSUME NEW r \in Requests, Login(r) PROVE FamiliesBegin'
  BY <1>1, LoginStarts DEF FamiliesBegin, Issued
<1>2. ASSUME NEW r \in Requests, Rotate(r) PROVE FamiliesBegin'
  BY <1>2, RotateContinues DEF FamiliesBegin, Issued
<1>3. CASE \A r \in Requests : ~ Login(r) /\ ~ Rotate(r)
  BY <1>3, OthersWriteNoRow DEF FamiliesBegin, Issued, OldRowsOnly
<1> QED BY <1>1, <1>2, <1>3

\* A step that names no user and gives no session a new row.
LEMMA UsersUntouched ==
  ASSUME SessionsAreOfOneAccount, OldRowsOnly, UNCHANGED <<email, userOf>>
  PROVE  SessionsAreOfOneAccount'
BY DEF SessionsAreOfOneAccount, OldRowsOnly, Issued

LEMMA RegistrationsAreApart ==
  ASSUME AInv, NEW r \in Requests, RegisterUser(r)
  PROVE  SessionsAreOfOneAccount'
<1>1. /\ ~ Issued(r) /\ token'[r].family = r
      /\ \A t \in Requests \ {r} : token'[t] = token[t]
  BY LoginStarts DEF RegisterUser, AInv
<1>2. /\ email \in [Requests -> Emails \cup {NULL}]
      /\ userOf \in [Requests -> Requests \cup {NULL}]
      /\ call[r] \in Calls
  BY DEF AInv, AccountsTypeOK
<1>3. call[r].email \in Emails
  BY <1>2 DEF RegisterUser, InsertsUser, Calls
<1>4. \A u \in Requests : email[u] # call[r].email
  BY DEF RegisterUser, InsertsUser, Registered
<1>5. /\ email'[r] = call[r].email /\ userOf'[r] = r
      /\ \A u \in Requests \ {r} : email'[u] = email[u] /\ userOf'[u] = userOf[u]
  BY <1>2 DEF RegisterUser
<1>6. email'[r] # NULL BY <1>3, <1>5, AccountAssumption
<1>7. Issued(r)' /\ \A t \in Requests \ {r} : Issued(t)' <=> Issued(t)
  BY <1>1, TokenAssumption DEF Issued
<1>8. ASSUME NEW u \in Requests, NEW v \in Requests, email'[u] # NULL
      PROVE  /\ email'[u] = email'[v] => u = v
             /\ Issued(u)' /\ userOf'[u] = u
  BY <1>4, <1>5, <1>7, <1>8 DEF AInv, SessionsAreOfOneAccount
<1>9. ASSUME NEW t \in Requests, Issued(t)'
      PROVE  /\ userOf'[t] \in Requests
             /\ email'[userOf'[t]] # NULL
             /\ userOf'[t] = userOf'[token'[t].family]
  <2>1. CASE t = r BY <2>1, <1>1, <1>5, <1>6
  <2>2. CASE t # r
    <3>1. /\ Issued(t) /\ token'[t] = token[t] /\ userOf'[t] = userOf[t]
          /\ userOf[t] \in Requests /\ email[userOf[t]] # NULL
          /\ userOf[t] = userOf[token[t].family]
      BY <2>2, <1>1, <1>5, <1>7, <1>9 DEF AInv, SessionsAreOfOneAccount
    <3>2. token[t].family \in Requests \ {r}
      BY <3>1, <1>1, TokenAssumption DEF AInv, FamiliesBegin, Issued
    <3> QED BY <3>1, <3>2, <1>5, <1>6
  <2> QED BY <2>1, <2>2
<1> QED BY <1>8, <1>9 DEF SessionsAreOfOneAccount

LEMMA LoginsAreOfTheirUser ==
  ASSUME AInv, NEW r \in Requests, NEW b, NEW u \in Requests, LoginUser(r, b, u)
  PROVE  SessionsAreOfOneAccount'
<1>1. /\ ~ Issued(r) /\ token'[r].family = r
      /\ \A t \in Requests \ {r} : token'[t] = token[t]
  BY LoginStarts DEF LoginUser, AInv
<1>2. userOf \in [Requests -> Requests \cup {NULL}] BY DEF AInv, AccountsTypeOK
<1>3. /\ email' = email /\ email[u] # NULL /\ userOf'[r] = u
      /\ \A t \in Requests \ {r} : userOf'[t] = userOf[t]
  BY <1>2 DEF LoginUser
<1>4. Issued(r)' /\ \A t \in Requests \ {r} : Issued(t)' <=> Issued(t)
  BY <1>1, TokenAssumption DEF Issued
<1>5. ASSUME NEW v \in Requests, NEW w \in Requests, email'[v] # NULL
      PROVE  /\ email'[v] = email'[w] => v = w
             /\ Issued(v)' /\ userOf'[v] = v
  BY <1>1, <1>3, <1>4, <1>5 DEF AInv, SessionsAreOfOneAccount
<1>6. ASSUME NEW t \in Requests, Issued(t)'
      PROVE  /\ userOf'[t] \in Requests
             /\ email'[userOf'[t]] # NULL
             /\ userOf'[t] = userOf'[token'[t].family]
  <2>1. CASE t = r BY <2>1, <1>1, <1>3
  <2>2. CASE t # r
    <3>1. /\ Issued(t) /\ token'[t] = token[t] /\ userOf'[t] = userOf[t]
          /\ userOf[t] \in Requests /\ email[userOf[t]] # NULL
          /\ userOf[t] = userOf[token[t].family]
      BY <2>2, <1>1, <1>3, <1>4, <1>6 DEF AInv, SessionsAreOfOneAccount
    <3>2. token[t].family \in Requests \ {r}
      BY <3>1, <1>1, TokenAssumption DEF AInv, FamiliesBegin, Issued
    <3> QED BY <3>1, <3>2, <1>3
  <2> QED BY <2>1, <2>2
<1> QED BY <1>5, <1>6 DEF SessionsAreOfOneAccount

\* A successor is for the user of the row it replaces, whose family has that user.
LEMMA RotationsKeepTheirUser ==
  ASSUME AInv, NEW r \in Requests, Rotate(r), RotatedFor(r), UNCHANGED email
  PROVE  SessionsAreOfOneAccount'
<1> DEFINE old == tx[r].token
<1>1. /\ ~ Issued(r) /\ old \in Requests /\ Issued(old)
      /\ token'[r].family = token[old].family /\ token'[r].family \in Requests
      /\ \A t \in Requests \ {r} : token'[t].family = token[t].family
  BY RotateContinues DEF AInv
<1>2. userOf \in [Requests -> Requests \cup {NULL}] BY DEF AInv, AccountsTypeOK
<1>3. Issued(r)' /\ \A t \in Requests \ {r} : Issued(t)' <=> Issued(t)
  BY <1>1, TokenAssumption DEF Issued
<1>4. userOf' = [userOf EXCEPT ![r] = userOf[old]]
  BY <1>1, <1>3 DEF RotatedFor
<1>5. userOf'[r] = userOf[old] /\ \A t \in Requests \ {r} : userOf'[t] = userOf[t]
  BY <1>2, <1>4
<1> HIDE DEF old
<1>6. ASSUME NEW t \in Requests, Issued(t)
      PROVE  /\ t # r /\ userOf[t] \in Requests /\ email[userOf[t]] # NULL
             /\ token[t].family \in Requests \ {r}
             /\ userOf[t] = userOf[token[t].family]
  BY <1>1, <1>6, TokenAssumption
     DEF AInv, SessionsAreOfOneAccount, FamiliesBegin, Issued
<1>7. ASSUME NEW v \in Requests, NEW w \in Requests, email'[v] # NULL
      PROVE  /\ email'[v] = email'[w] => v = w
             /\ Issued(v)' /\ userOf'[v] = v
  BY <1>1, <1>3, <1>5, <1>7 DEF AInv, SessionsAreOfOneAccount
<1>8. ASSUME NEW t \in Requests, Issued(t)'
      PROVE  /\ userOf'[t] \in Requests
             /\ email'[userOf'[t]] # NULL
             /\ userOf'[t] = userOf'[token'[t].family]
  <2>1. CASE t = r
    <3>1. /\ userOf[old] \in Requests /\ email[userOf[old]] # NULL
          /\ token[old].family \in Requests \ {r}
          /\ userOf[old] = userOf[token[old].family]
      BY <1>1, <1>6
    <3> QED BY <2>1, <3>1, <1>1, <1>5
  <2>2. CASE t # r
    <3>1. Issued(t) BY <2>2, <1>3, <1>8
    <3> QED BY <2>2, <3>1, <1>1, <1>5, <1>6
  <2> QED BY <2>1, <2>2
<1> QED BY <1>7, <1>8 DEF SessionsAreOfOneAccount

LEMMA UsersStayApart ==
  ASSUME AInv, [AccountsNext]_allVars
  PROVE  SessionsAreOfOneAccount'
<1>1. [Next]_vars BY StepIsTokenStep DEF AInv
<1>2. ASSUME NEW r \in Requests, RegisterUser(r) PROVE SessionsAreOfOneAccount'
  BY <1>2, RegistrationsAreApart
<1>3. ASSUME NEW r \in Requests, NEW b \in Browsers, NEW u \in Requests,
             LoginUser(r, b, u)
      PROVE  SessionsAreOfOneAccount'
  BY <1>3, LoginsAreOfTheirUser
<1>4. ASSUME NEW r \in Requests, ServeRefresh(r) PROVE SessionsAreOfOneAccount'
  <2>1. CASE Rotate(r) BY <2>1, <1>4, RotationsKeepTheirUser DEF ServeRefresh
  <2>2. CASE ReadToken(r) \/ ReportReuse(r) \/ Rollback(r)
    <3>1. OldRowsOnly
      <4>1. token \in [Requests -> TokenRows] BY DEF AInv, IInv, TypeOK
      <4>2. token' = token \/ \E S : token' = Revoke(S)
        BY <2>2 DEF ReadToken, ReportReuse, Rollback
      <4> QED BY <4>1, <4>2 DEF OldRowsOnly, Revoke, TokenRows
    <3>2. UNCHANGED <<email, userOf>>
      BY <3>1, <1>4 DEF ServeRefresh, RotatedFor, OldRowsOnly, Issued
    <3> QED BY <3>1, <3>2, UsersUntouched DEF AInv
  <2> QED BY <1>4, <2>1, <2>2 DEF ServeRefresh
<1>5. ASSUME NEW r \in Requests, ServeLogout(r) PROVE SessionsAreOfOneAccount'
  <2>1. token \in [Requests -> TokenRows] BY DEF AInv, IInv, TypeOK
  <2>2. \E S : token' = Revoke(S) BY <1>5 DEF ServeLogout, Logout
  <2>3. OldRowsOnly BY <2>1, <2>2 DEF OldRowsOnly, Revoke, TokenRows
  <2> QED BY <1>5, <2>3, UsersUntouched DEF ServeLogout, AInv
<1>6. ASSUME UNCHANGED <<token, email, userOf>> PROVE SessionsAreOfOneAccount'
  BY <1>6, UsersUntouched DEF OldRowsOnly, AInv
<1>7. \/ UNCHANGED <<token, email, userOf>>
      \/ \E r \in Requests : RegisterUser(r) \/ ServeRefresh(r) \/ ServeLogout(r)
      \/ \E r \in Requests, b \in Browsers, u \in Requests : LoginUser(r, b, u)
  BY DEF AccountsNext, BrowserSends, Serve, Answer, CheckEmail, RefuseEmail, SendRefresh,
         SendLogout, RefuseRefresh, Replay, FailRegistration, Deliver, AnswerWrongly,
         LoseLogout, PresentToken, Tick, accounts, allVars, vars
<1> QED BY <1>2, <1>3, <1>4, <1>5, <1>6, <1>7

-----------------------------------------------------------------------------
\* Closing is only for a session that no rotation is about to continue.
LEMMA NothingComesAfter ==
  ASSUME AInv, [AccountsNext]_allVars, AccountsTypeOK'
  PROVE  NothingAfterClose'
<1>1. [Next]_vars BY StepIsTokenStep DEF AInv
<1>2. /\ clock \in Nat /\ clock' \in Nat /\ clock <= clock' /\ TokenTTL \in Nat
      /\ token \in [Requests -> TokenRows]
  <2>1. clock' = clock \/ clock' = clock + 1
    BY <1>1 DEF Next, Login, Refresh, PresentToken, ReadToken, Rotate, ReportReuse,
                Rollback, Logout, Tick, vars
  <2>2. clock \in Nat /\ token \in [Requests -> TokenRows] BY DEF AInv, IInv, TypeOK
  <2> QED BY <2>1, <2>2, TokenAssumption
<1>3. \A r \in Requests : token[r].expiresAt \in Nat BY <1>2 DEF TokenRows
<1>4. ASSUME NEW r \in Requests, Issued(r)'
      PROVE  /\ token'[r].expiresAt <= clock + TokenTTL
             /\ \/ Issued(r) /\ token'[r].family = token[r].family
                              /\ token'[r].expiresAt = token[r].expiresAt
                \/ fate'[token'[r].family] # "closed"
  <2>1. CASE Issued(r)
    BY <2>1, <1>1, <1>2, RowsStay DEF AInv, NothingAfterClose
  <2>2. CASE ~ Issued(r)
    <3>1. \E q \in Requests : Login(q) \/ Rotate(q)
      BY <2>2, <1>1, <1>4, OthersWriteNoRow DEF AInv, OldRowsOnly, Issued
    <3>2. ASSUME NEW q \in Requests, Login(q)
          PROVE  r = q /\ fate'[token'[r].family] # "closed"
                 /\ token'[r].expiresAt <= clock + TokenTTL
      BY <2>2, <3>2, <1>2, <1>4, LoginStarts DEF AInv, Issued
    <3>3. ASSUME NEW q \in Requests, Rotate(q)
          PROVE  r = q /\ fate'[token'[r].family] # "closed"
                 /\ token'[r].expiresAt <= clock + TokenTTL
      BY <2>2, <3>3, <1>2, <1>4, RotateContinues DEF AInv, Issued
    <3> QED BY <3>1, <3>2, <3>3
  <2> QED BY <2>1, <2>2
<1>5. ASSUME NEW f \in Requests, fate'[f] = "closed", fate[f] # "closed"
      PROVE  closedAt'[f] = clock
  <2>1. RecordClosing
    <3>1. \/ UNCHANGED fate \/ RecordClosing
          \/ \E r \in Requests : Login(r)
      BY DEF AccountsNext, BrowserSends, Serve, Answer, CheckEmail, RefuseEmail,
             LoginUser, RegisterUser, SendRefresh, SendLogout, RefuseRefresh, Replay,
             FailRegistration, Deliver, AnswerWrongly, LoseLogout, PresentToken,
             ServeRefresh, ServeLogout, Tick, accounts, allVars, vars
    <3>2. ASSUME NEW r \in Requests, Login(r) PROVE FALSE
      BY <3>2, <1>5, LoginStarts DEF AInv
    <3> QED BY <3>1, <3>2, <1>5
  <2> QED BY <2>1, <1>5 DEF RecordClosing
<1>6. ASSUME NEW f \in Requests, fate[f] = "closed"
      PROVE  closedAt'[f] = closedAt[f]
  BY <1>6 DEF AccountsNext, BrowserSends, Serve, Answer, CheckEmail, RefuseEmail,
         LoginUser, RegisterUser, SendRefresh, SendLogout, RefuseRefresh, Replay,
         FailRegistration, Deliver, AnswerWrongly, LoseLogout, PresentToken,
         ServeRefresh, ServeLogout, RecordClosing, Tick, accounts, allVars, vars
<1>7. ASSUME NEW r \in Requests, Issued(r)'
      PROVE  token'[r].expiresAt <= clock' + TokenTTL
  <2>1. token'[r].expiresAt \in Nat
    BY DEF AccountsTypeOK, TypeOK, TokenRows
  <2> QED BY <2>1, <1>2, <1>4, <1>7
<1>8. ASSUME NEW f \in Requests, fate'[f] = "closed"
      PROVE  /\ closedAt'[f] \in Nat
             /\ \A r \in Requests : token'[r].family = f =>
                  token'[r].expiresAt <= closedAt'[f] + TokenTTL
  <2>1. ASSUME NEW r \in Requests, token'[r].family = f PROVE Issued(r)'
    BY <2>1, TokenAssumption DEF Issued
  <2>2. CASE fate[f] # "closed"
    BY <2>1, <2>2, <1>2, <1>4, <1>5, <1>8
  <2>3. CASE fate[f] = "closed"
    BY <2>1, <2>3, <1>4, <1>6, <1>8 DEF AInv, NothingAfterClose
  <2> QED BY <2>2, <2>3
<1> QED BY <1>7, <1>8 DEF NothingAfterClose

-----------------------------------------------------------------------------
\* What a request waits for can be told from its pc.
LEMMA CallShape ==
  ASSUME AccountsTypeOK, NEW r \in Requests
  PROVE  /\ call[r].pc \in {"login", "refresh", "leaving", "logout", "registering"}
              => call[r].browser \in Browsers
         /\ call[r].pc \in {"refresh", "leaving", "logout"} => call[r].token \in Requests
         /\ call[r].pc = "registering" => call[r].email \in Emails
         /\ call[r].pc = "leaving" => [call[r] EXCEPT !.pc = "logout"] \in Calls
<1>1. call[r] \in Calls BY DEF AccountsTypeOK
<1> QED BY <1>1 DEF Calls

LEMMA FamilyIsRequest ==
  ASSUME AInv, NEW t \in Requests, Issued(t) PROVE token[t].family \in Requests
BY DEF AInv, FamiliesBegin

\* The cookies of an answer, and of a browser that sends them.
LEMMA SendingKeepsShape ==
  ASSUME AInv, TypeOK', NEW r \in Requests, NEW b \in Browsers, BrowserSends(r, b)
  PROVE  AccountsTypeOK'
<1>1. CASE \E e \in Emails : CheckEmail(r, b, e) \/ RefuseEmail(r, b, e)
  BY <1>1 DEF CheckEmail, RefuseEmail, AInv, AccountsTypeOK, Calls
<1>2. CASE \E u \in Requests : LoginUser(r, b, u)
  BY <1>2 DEF LoginUser, AInv, AccountsTypeOK, Calls
<1>3. ASSUME NEW pc \in {"refresh", "leaving"}, SendCookie(r, b, pc)
      PROVE  call' \in [Requests -> Calls] /\ slipped' \subseteq Requests
  <2>1. jar[b] \in Requests /\ Issued(jar[b])
    BY <1>3 DEF SendCookie, AInv, AccountsTypeOK, BrowsersHaveTokens
  <2>2. token[jar[b]].family \in Requests BY <2>1, FamilyIsRequest
  <2> QED BY <1>3, <2>1, <2>2 DEF SendCookie, AInv, AccountsTypeOK, Calls
<1>4. CASE SendRefresh(r, b)
  BY <1>3, <1>4 DEF SendRefresh, AInv, AccountsTypeOK
<1>5. CASE SendLogout(r, b)
  BY <1>3, <1>5 DEF SendLogout, AInv, AccountsTypeOK
<1> QED BY <1>1, <1>2, <1>4, <1>5 DEF BrowserSends

LEMMA ReplayKeepsShape ==
  ASSUME AInv, TypeOK', NEW r \in Requests, Replay(r)
  PROVE  AccountsTypeOK'
<1>1. PICK t \in Requests : Issued(t) /\ tx' = [tx EXCEPT ![r] = [pc |-> "verified", token |-> t]]
  BY DEF Replay, PresentToken
<1>2. tx'[r].token = t BY <1>1 DEF AInv, IInv, TypeOK
<1>3. token[t].family \in Requests BY <1>1, FamilyIsRequest
<1> QED BY <1>2, <1>3 DEF Replay, AInv, AccountsTypeOK, Calls

LEMMA ServingKeepsShape ==
  ASSUME AInv, TypeOK', NEW r \in Requests, Serve(r)
  PROVE  AccountsTypeOK'
<1>1. RecordClosing => closedAt' \in [Requests -> Nat \cup {NULL}]
  BY DEF RecordClosing, AInv, IInv, TypeOK, AccountsTypeOK
<1>2. CASE RegisterUser(r)
  <2>1. call[r].email \in Emails /\ call[r].browser \in Browsers
    BY <1>2, CallShape DEF RegisterUser, InsertsUser, AInv
  <2> QED BY <1>2, <2>1 DEF RegisterUser, AInv, AccountsTypeOK, Calls
<1>3. CASE FailRegistration(r)
  BY <1>3 DEF FailRegistration, AInv, AccountsTypeOK, Calls
<1>4. CASE ServeRefresh(r)
  <2>1. userOf' \in [Requests -> Requests \cup {NULL}]
    <3>1. CASE Issued(r)' /\ ~ Issued(r)
      <4>1. Rotate(r)
        <5>1. token \in [Requests -> TokenRows] BY DEF AInv, IInv, TypeOK
        <5>2. \A S : Revoke(S)[r].family = token[r].family
          BY <5>1 DEF Revoke, TokenRows
        <5>3. ~ Rotate(r) => token' = token \/ \E S : token' = Revoke(S)
          BY <1>4 DEF ServeRefresh, ReadToken, ReportReuse, Rollback
        <5> QED BY <3>1, <5>2, <5>3 DEF Issued
      <4>2. tx[r].token \in Requests BY <4>1, RotateContinues DEF AInv
      <4> QED BY <1>4, <3>1, <4>2 DEF ServeRefresh, RotatedFor, AInv, AccountsTypeOK
    <3>2. CASE ~ (Issued(r)' /\ ~ Issued(r))
      BY <1>4, <3>2 DEF ServeRefresh, RotatedFor, AInv, AccountsTypeOK
    <3> QED BY <3>1, <3>2
  <2> QED BY <1>1, <1>4, <2>1 DEF ServeRefresh, AInv, AccountsTypeOK
<1>5. CASE ServeLogout(r)
  <2>1. [call[r] EXCEPT !.pc = "logout"] \in Calls
    BY <1>5, CallShape DEF ServeLogout, AInv
  <2> QED BY <1>1, <1>5, <2>1 DEF ServeLogout, AInv, AccountsTypeOK
<1> QED BY <1>2, <1>3, <1>4, <1>5 DEF Serve

LEMMA AnsweringKeepsShape ==
  ASSUME AInv, TypeOK', NEW r \in Requests, Answer(r)
  PROVE  AccountsTypeOK'
<1>1. Over(r) => call' \in [Requests -> Calls]
  BY DEF Over, AInv, AccountsTypeOK, Calls
<1>2. CASE Deliver(r)
  <2>1. CookiesAfter(r) \in Requests \cup {NULL} BY DEF CookiesAfter
  <2> QED BY <1>1, <1>2, <2>1 DEF Deliver, AInv, AccountsTypeOK
<1>3. CASE AnswerWrongly(r)
  <2>1. call[r].pc \in {"login", "refresh", "logout"}
    BY <1>3 DEF AnswerWrongly, Answered
  <2>2. CASE call[r].pc = "login"
    BY <1>1, <1>3, <2>2 DEF AnswerWrongly, AInv, AccountsTypeOK
  <2>3. CASE call[r].pc # "login"
    <3>1. call[r].token \in Requests /\ Issued(call[r].token)
      BY <2>1, <2>3, CallShape DEF AInv, BrowsersHaveTokens
    <3>2. token[call[r].token].family \in Requests BY <3>1, FamilyIsRequest
    <3> QED BY <1>1, <1>3, <2>3, <3>2 DEF AnswerWrongly, AInv, AccountsTypeOK
  <2> QED BY <2>2, <2>3
<1>4. CASE LoseLogout(r)
  BY <1>1, <1>4 DEF LoseLogout, AInv, AccountsTypeOK
<1> QED BY <1>2, <1>3, <1>4 DEF Answer

LEMMA AccountsKeepShape ==
  ASSUME AInv, [AccountsNext]_allVars
  PROVE  IInv' /\ AccountsTypeOK'
<1>1. IInv' /\ TypeOK' BY StepIsTokenStep, NextIInv DEF AInv, IInv
<1>2. ASSUME NEW b \in Browsers, RefuseRefresh(b) PROVE AccountsTypeOK'
  BY <1>1, <1>2 DEF RefuseRefresh, AInv, AccountsTypeOK
<1>3. ASSUME UNCHANGED accounts PROVE AccountsTypeOK'
  BY <1>1, <1>3 DEF accounts, AInv, AccountsTypeOK
<1> QED BY <1>1, <1>2, <1>3, SendingKeepsShape, ReplayKeepsShape, ServingKeepsShape,
           AnsweringKeepsShape
        DEF AccountsNext, allVars

LEMMA CookiesAreIssued ==
  ASSUME AInv, [AccountsNext]_allVars
  PROVE  BrowsersHaveTokens'
<1>1. [Next]_vars BY StepIsTokenStep DEF AInv
<1>2. ASSUME NEW t \in Requests, Issued(t) PROVE token'[t].family # NULL
  BY <1>1, <1>2, RowsStay DEF AInv, Issued
<1>3. /\ \A b \in Browsers : jar[b] # NULL => token'[jar[b]].family # NULL
      /\ \A r \in Requests :
           call[r].pc \in {"refresh", "leaving", "logout"} => token'[call[r].token].family # NULL
  BY <1>2, CallShape DEF AInv, BrowsersHaveTokens, AccountsTypeOK
<1> USE DEF AInv, AccountsTypeOK
<1>4. ASSUME NEW b \in Browsers, jar'[b] # NULL PROVE token'[jar'[b]].family # NULL
  <2>1. CASE UNCHANGED jar BY <1>3, <1>4, <2>1
  <2>2. ASSUME NEW c \in Browsers, RefuseRefresh(c) PROVE token'[jar'[b]].family # NULL
    BY <1>3, <1>4, <2>2 DEF RefuseRefresh
  <2>3. ASSUME NEW r \in Requests, Deliver(r) \/ AnswerWrongly(r)
        PROVE  token'[jar'[b]].family # NULL
    BY <1>2, <1>3, <1>4, <2>3 DEF Deliver, CookiesAfter, AnswerWrongly, Issued
  <2> QED BY <2>1, <2>2, <2>3
          DEF AccountsNext, BrowserSends, Serve, Answer, CheckEmail, RefuseEmail,
              LoginUser, RegisterUser, SendRefresh, SendLogout, Replay,
              FailRegistration, LoseLogout, ServeRefresh, ServeLogout, accounts,
              allVars
<1>5. ASSUME NEW r \in Requests, call'[r].pc \in {"refresh", "leaving", "logout"}
      PROVE  token'[call'[r].token].family # NULL
  <2>1. CASE call'[r] = call[r] BY <1>3, <1>5, <2>1
  <2>2. ASSUME NEW q \in Requests, NEW b \in Browsers, NEW pc, SendCookie(q, b, pc)
        PROVE  token'[call'[r].token].family # NULL
    BY <1>3, <1>5, <2>1, <2>2 DEF SendCookie
  <2>3. ASSUME NEW q \in Requests, ServeLogout(q) PROVE token'[call'[r].token].family # NULL
    <3>1. CASE q = r
      <4>1. call[r] \in Calls /\ call[r].pc = "leaving"
        BY <2>3, <3>1 DEF ServeLogout
      <4>2. call'[r] = [call[r] EXCEPT !.pc = "logout"]
        BY <2>3, <3>1 DEF ServeLogout
      <4>3. call'[r].token = call[r].token BY <4>1, <4>2 DEF Calls
      <4> QED BY <1>3, <4>1, <4>3
    <3>2. CASE q # r BY <2>1, <2>3, <3>2 DEF ServeLogout
    <3> QED BY <3>1, <3>2
  <2>4. \/ call'[r] = call[r]
        \/ call'[r].pc \in {"registering", "login", "over"}
        \/ \E q \in Requests, b \in Browsers, pc \in {"refresh", "leaving"} :
             SendCookie(q, b, pc)
        \/ \E q \in Requests : ServeLogout(q)
    BY DEF AccountsNext, BrowserSends, Serve, Answer, CheckEmail, RefuseEmail,
           LoginUser, RegisterUser, SendRefresh, SendLogout, RefuseRefresh, Replay,
           FailRegistration, Deliver, AnswerWrongly, LoseLogout, Over, ServeRefresh,
           accounts, allVars
  <2> QED BY <1>5, <2>1, <2>2, <2>3, <2>4
<1> QED BY <1>4, <1>5 DEF BrowsersHaveTokens, Issued

LEMMA NextAInv == AInv /\ [AccountsNext]_allVars => AInv'
<1> SUFFICES ASSUME AInv, [AccountsNext]_allVars PROVE AInv'
  OBVIOUS
<1>1. FamiliesBegin' BY StepIsTokenStep, FamiliesStayBegun DEF AInv
<1> QED BY <1>1, AccountsKeepShape, CookiesAreIssued, UsersStayApart, NothingComesAfter
        DEF AInv

LEMMA AlwaysAInv == AccountsSpec => []AInv
BY InitAInv, NextAInv, PTL DEF AccountsSpec

-----------------------------------------------------------------------------
(* Who is taken for a thief.  The invariant follows a token from the answer *)
(* that delivers it to the request that spends it.                         *)

\* A request whose tokens, if it issues any, are still to be delivered.
Undelivered(r) == call[r].pc \in {"none", "registering", "login", "refresh"}

\* A token reaches one browser, and is sent by that one only.
TokensHaveOneHome ==
  /\ \A b, c \in Browsers : jar[b] # NULL /\ jar[b] = jar[c] => b = c
  /\ \A r \in Requests : Undelivered(r) =>
       Pending(r) = {} /\ \A b \in Browsers : jar[b] # r
  /\ \A r \in Requests, b \in Browsers :
       r \in Pending(jar[b]) => call[r].browser = b

\* A refresh under way is one of a browser, or a stranger's.
RefreshesHaveACall ==
  \A r \in Requests : tx[r].pc \in {"verified", "rotating", "reuse"} =>
    \/ r \in Pending(tx[r].token) /\ call[r].pc = "refresh"
    \/ token[tx[r].token].family \in copied

\* A logout is no login and no refresh.
LogoutsIssueNothing ==
  \A r \in Requests : call[r].pc \in {"leaving", "logout"} => tx[r] = NewTx

\* A token of a session that gave no reason to suspect it.
Clean(t) == Issued(t) /\ token[t].family \notin slipped \cup copied

\* What is sent with a clean token, is sent once.
SentOnce == \A t \in Requests : Clean(t) => \A q, r \in Pending(t) : q = r

\* The request with token t has not touched the tables.
Unserved(r) ==
  \/ call[r].pc = "leaving"
  \/ call[r].pc = "refresh" /\ tx[r] # DoneTx

\* A clean token is good until the request that was sent with it is served.
CleanTokensAreGood ==
  \A t \in Requests : Clean(t) =>
    \/ token[t].status = "valid"
    \/ \E r \in Pending(t) : ~ Unserved(r)
    \/ Pending(t) = {} /\ ~ Undelivered(t) /\ \A b \in Browsers : jar[b] # t

SlipInv ==
  /\ TokensHaveOneHome
  /\ RefreshesHaveACall
  /\ LogoutsIssueNothing
  /\ SentOnce
  /\ CleanTokensAreGood
  /\ ReuseNeedsASlip

LEMMA InitSlipInv == AccountsInit => SlipInv
<1> SUFFICES ASSUME AccountsInit PROVE SlipInv
  OBVIOUS
<1>1. \A t : Pending(t) = {} BY DEF AccountsInit, Pending
<1>2. \A r \in Requests : ~ Issued(r)
  BY DEF AccountsInit, Init, NoToken, Issued
<1>3. TokensHaveOneHome
  BY <1>1, TokenAssumption DEF AccountsInit, TokensHaveOneHome
<1>4. RefreshesHaveACall /\ ReuseNeedsASlip /\ LogoutsIssueNothing
  BY DEF AccountsInit, Init, NewTx, RefreshesHaveACall, ReuseNeedsASlip,
         LogoutsIssueNothing
<1>5. SentOnce /\ CleanTokensAreGood BY <1>2 DEF SentOnce, CleanTokensAreGood, Clean
<1> QED BY <1>3, <1>4, <1>5 DEF SlipInv

LEMMA SamePending ==
  ASSUME NEW u, \A q \in Requests : q \in Pending(u)' <=> q \in Pending(u)
  PROVE  Pending(u)' = Pending(u)
<1>1. Pending(u) \subseteq Requests /\ Pending(u)' \subseteq Requests BY DEF Pending
<1> QED BY <1>1

\* Suspicion only grows, so that what is clean was clean when it was issued.
LEMMA CleanBefore ==
  ASSUME AInv, [Next]_vars, slipped \subseteq slipped', copied \subseteq copied',
         NEW t \in Requests, Clean(t)', Issued(t)
  PROVE  Clean(t)
BY RowsStay DEF AInv, Clean

\* A step that leaves calls and jars as they are, or takes a jar's token away,
\* or begins or ends a call that never had a cookie.
LEMMA NoCookieMoves ==
  ASSUME AInv, SlipInv, AccountsTypeOK',
         UNCHANGED <<token, tx, slipped, copied>>,
         \A b \in Browsers : jar'[b] \in {jar[b], NULL},
         \A r \in Requests :
           \/ call'[r] = call[r]
           \/ call[r].pc \in {"none", "registering"} /\ call'[r].pc \in {"registering", "over"}
  PROVE  SlipInv'
<1>1. \A t : Pending(t)' = Pending(t) BY DEF Pending
<1>2. \A r \in Requests : Undelivered(r)' => Undelivered(r) BY DEF Undelivered
<1>3. \A r \in Requests : Unserved(r)' <=> Unserved(r) BY DEF Unserved
<1>4. \A t \in Requests : Clean(t)' <=> Clean(t) BY DEF Clean, Issued
<1>5. \A b \in Browsers : jar'[b] # NULL => jar'[b] = jar[b] OBVIOUS
<1>6. TokensHaveOneHome'
  <2>1. ASSUME NEW b \in Browsers, NEW c \in Browsers, jar'[b] # NULL, jar'[b] = jar'[c]
        PROVE  b = c
    BY <1>5, <2>1 DEF SlipInv, TokensHaveOneHome
  <2>2. ASSUME NEW r \in Requests, Undelivered(r)'
        PROVE  Pending(r)' = {} /\ \A b \in Browsers : jar'[b] # r
    BY <1>1, <1>2, <1>5, <2>2, TokenAssumption DEF SlipInv, TokensHaveOneHome
  <2>3. ASSUME NEW r \in Requests, NEW b \in Browsers, r \in Pending(jar[b])'
        PROVE  call'[r].browser = b
    <3>1. call'[r] = call[r] /\ jar'[b] # NULL
      BY <2>3, TokenAssumption, CallShape DEF Pending, AInv
    <3> QED BY <1>1, <1>5, <2>3, <3>1 DEF SlipInv, TokensHaveOneHome, Pending
  <2> QED BY <2>1, <2>2, <2>3 DEF TokensHaveOneHome
<1>7. RefreshesHaveACall' BY <1>1 DEF SlipInv, RefreshesHaveACall, Pending
<1>11. LogoutsIssueNothing' BY DEF SlipInv, LogoutsIssueNothing
<1>8. SentOnce' BY <1>1, <1>4 DEF SlipInv, SentOnce
<1>9. CleanTokensAreGood'
  <2> SUFFICES ASSUME NEW t \in Requests, Clean(t)
               PROVE  \/ token[t].status = "valid"
                      \/ \E r \in Pending(t) : ~ Unserved(r)'
                      \/ /\ Pending(t) = {} /\ ~ Undelivered(t)'
                         /\ \A b \in Browsers : jar'[b] # t
    BY <1>1, <1>4 DEF CleanTokensAreGood
  <2>1. \A r \in Pending(t) : Unserved(r)' <=> Unserved(r) BY <1>3 DEF Pending
  <2>2. \A b \in Browsers : jar'[b] = t => jar[b] = t BY <1>5, TokenAssumption
  <2> QED BY <1>2, <2>1, <2>2 DEF SlipInv, CleanTokensAreGood
<1>10. ReuseNeedsASlip' BY DEF SlipInv, ReuseNeedsASlip
<1> QED BY <1>6, <1>7, <1>8, <1>9, <1>10, <1>11 DEF SlipInv

\* A request goes out with a cookie: a second one with that cookie is a slip.
LEMMA SendingIsOnce ==
  ASSUME AInv, SlipInv, [Next]_vars, AccountsTypeOK',
         NEW r \in Requests, NEW b \in Browsers, NEW pc \in {"refresh", "leaving"},
         Fresh(r), SendCookie(r, b, pc), UNCHANGED <<token, jar, copied>>,
         \/ pc = "leaving" /\ UNCHANGED tx
         \/ pc = "refresh" /\ tx' = [tx EXCEPT ![r] = [pc |-> "verified", token |-> jar[b]]]
  PROVE  SlipInv'
<1>0. PICK t : t = jar[b] OBVIOUS
<1>1. /\ t \in Requests /\ Issued(t)
      /\ call[r].pc = "none" /\ Undelivered(r) /\ tx[r] = NewTx
  BY <1>0 DEF Fresh, SendCookie, Undelivered, AInv, BrowsersHaveTokens, AccountsTypeOK
<1>2. /\ call'[r] = [pc |-> pc, browser |-> b, token |-> t]
      /\ \A q \in Requests \ {r} : call'[q] = call[q]
  BY <1>0 DEF SendCookie, AInv, AccountsTypeOK
<1>3. t # r /\ ~ Undelivered(t) BY <1>0, <1>1 DEF SlipInv, TokensHaveOneHome
<1>4. /\ \A u : u # t => Pending(u)' = Pending(u)
      /\ Pending(t)' = Pending(t) \cup {r}
      /\ \A u : r \notin Pending(u)
  <2>1. ASSUME NEW u, NEW q \in Requests
        PROVE  q \in Pending(u)' <=> q \in Pending(u) \/ (q = r /\ u = t)
    BY <1>1, <1>2 DEF Pending
  <2>2. \A u : Pending(u) \subseteq Requests /\ Pending(u)' \subseteq Requests
    BY DEF Pending
  <2>3. \A u : r \notin Pending(u) BY <1>1 DEF Pending
  <2>4. ASSUME NEW u, u # t PROVE Pending(u)' = Pending(u)
    BY <2>1, <2>2, <2>4, Zenon
  <2>5. Pending(t)' = Pending(t) \cup {r} BY <1>1, <2>1, <2>2, Zenon
  <2> QED BY <2>3, <2>4, <2>5, Zenon
<1>5. \A q \in Requests : Undelivered(q)' => Undelivered(q)
  BY <1>1, <1>2 DEF Undelivered
<1>6. /\ tx \in [Requests -> {NewTx, DoneTx} \cup RefreshTx]
      /\ \A q \in Requests \ {r} : tx'[q] = tx[q]
      /\ tx'[r] # DoneTx
      /\ pc = "refresh" => tx'[r] = [pc |-> "verified", token |-> t]
      /\ pc = "leaving" => tx'[r] = NewTx
  BY <1>0, <1>1 DEF AInv, IInv, TypeOK, NewTx, DoneTx
<1>7. Unserved(r)' /\ \A q \in Requests \ {r} : Unserved(q)' <=> Unserved(q)
  BY <1>2, <1>6 DEF Unserved
<1>8. \A u \in Requests : Clean(u)' => Clean(u)
  BY DEF SendCookie, Clean, Issued
<1>9. Clean(t)' => Pending(t) = {}
  BY <1>0 DEF SendCookie, Clean
<1>10. TokensHaveOneHome'
  <2>1. ASSUME NEW q \in Requests, Undelivered(q)'
        PROVE  Pending(q)' = {} /\ \A c \in Browsers : jar'[c] # q
    BY <1>3, <1>4, <1>5, <2>1 DEF SlipInv, TokensHaveOneHome
  <2>2. ASSUME NEW q \in Requests, NEW c \in Browsers, q \in Pending(jar[c])'
        PROVE  call'[q].browser = c
    <3>1. CASE q = r
      <4>1. jar[c] = t BY <1>2, <2>2, <3>1 DEF Pending
      <4>2. jar[b] # NULL /\ jar[b] = jar[c] BY <1>0, <1>1, <4>1, TokenAssumption
      <4>3. b = c BY <4>2 DEF SlipInv, TokensHaveOneHome
      <4> QED BY <1>2, <3>1, <4>3
    <3>2. CASE q # r
      <4>1. /\ q \in Requests /\ call'[q] = call[q] /\ jar'[c] = jar[c]
            /\ call'[q].pc \in {"refresh", "leaving", "logout"} /\ call'[q].token = jar'[c]
        BY <1>2, <2>2, <3>2 DEF Pending
      <4>2. q \in Pending(jar[c]) BY <4>1 DEF Pending
      <4> QED BY <4>1, <4>2 DEF SlipInv, TokensHaveOneHome
    <3> QED BY <3>1, <3>2
  <2> QED BY <2>1, <2>2 DEF SlipInv, TokensHaveOneHome
<1>11. RefreshesHaveACall' /\ ReuseNeedsASlip'
  <2>1. ASSUME NEW q \in Requests, tx'[q].pc \in {"verified", "rotating", "reuse"}
        PROVE  /\ \/ call'[q].pc = "refresh" /\ call'[q].token = tx'[q].token
                  \/ token[tx'[q].token].family \in copied
               /\ tx'[q].pc = "reuse" => token[tx'[q].token].family \in slipped' \cup copied
    <3>1. CASE q = r BY <1>2, <1>6, <2>1, <3>1 DEF NewTx
    <3>2. CASE q # r
      <4>1. slipped \subseteq slipped' BY DEF SendCookie
      <4> QED BY <1>2, <1>6, <2>1, <3>2, <4>1
              DEF SlipInv, RefreshesHaveACall, ReuseNeedsASlip, Pending
    <3> QED BY <3>1, <3>2
  <2> QED BY <2>1 DEF RefreshesHaveACall, ReuseNeedsASlip, Pending
<1>12. LogoutsIssueNothing'
  BY <1>2, <1>6 DEF SlipInv, LogoutsIssueNothing
<1>13. SentOnce' BY <1>4, <1>8, <1>9 DEF SlipInv, SentOnce
<1>14. CleanTokensAreGood'
  <2> SUFFICES ASSUME NEW u \in Requests, Clean(u)'
               PROVE  \/ token[u].status = "valid"
                      \/ \E q \in Pending(u)' : ~ Unserved(q)'
                      \/ /\ Pending(u)' = {} /\ ~ Undelivered(u)'
                         /\ \A c \in Browsers : jar[c] # u
    BY DEF CleanTokensAreGood
  <2>1. CASE u = t
    BY <1>0, <1>8, <1>9, <2>1 DEF SlipInv, CleanTokensAreGood
  <2>2. CASE u # t
    <3>1. \A q \in Pending(u) : Unserved(q)' <=> Unserved(q)
      BY <1>4, <1>7 DEF Pending
    <3> QED BY <1>4, <1>5, <1>8, <2>2, <3>1 DEF SlipInv, CleanTokensAreGood
  <2> QED BY <2>1, <2>2
<1> QED BY <1>10, <1>11, <1>12, <1>13, <1>14 DEF SlipInv

\* What is clean and was asked about stays good, or is gone for good, when the
\* answer comes: the browser has it no more, or the session is not clean any more.
LEMMA CallsEnd ==
  ASSUME AInv, SlipInv, NEW r \in Requests, Over(r),
         call[r].pc \in {"login", "refresh", "leaving", "logout"},
         call[r].pc = "refresh" => tx[r] = DoneTx,
         UNCHANGED <<token, tx, copied>>, slipped \subseteq slipped',
         \A b \in Browsers :
           \/ jar'[b] \in {jar[b], NULL}
           \/ jar'[b] = r /\ b = call[r].browser /\ call[r].pc \in {"login", "refresh"},
         \/ call[r].pc \in {"login", "leaving"}
         \/ token[call[r].token].family \in slipped'
         \/ jar'[call[r].browser] \in {r, NULL}
  PROVE  SlipInv'
<1>1. /\ call'[r] = [pc |-> "over"]
      /\ \A q \in Requests \ {r} : call'[q] = call[q]
  BY DEF Over, AInv, AccountsTypeOK
<1>2. \A u : Pending(u)' = Pending(u) \ {r}
  <2>1. ASSUME NEW u, NEW q \in Requests
        PROVE  q \in Pending(u)' <=> q \in Pending(u) /\ q # r
    BY <1>1 DEF Pending
  <2>2. \A u : Pending(u) \subseteq Requests /\ Pending(u)' \subseteq Requests
    BY DEF Pending
  <2> QED BY <2>1, <2>2, Zenon
<1>3. \A q \in Requests : Undelivered(q)' => q # r /\ Undelivered(q)
  BY <1>1 DEF Undelivered
<1>4. call[r].pc \in {"login", "refresh"} => Undelivered(r) BY DEF Undelivered
<1>5. \A u \in Requests : Clean(u)' => Clean(u) BY DEF Clean, Issued
<1>6. \A q \in Requests \ {r} : Unserved(q)' <=> Unserved(q) BY <1>1 DEF Unserved
<1>7. ASSUME NEW b \in Browsers, jar'[b] # NULL
      PROVE  \/ jar'[b] = jar[b]
             \/ jar'[b] = r /\ b = call[r].browser /\ Undelivered(r)
  BY <1>4, <1>7
<1>8. TokensHaveOneHome'
  <2>1. ASSUME NEW b \in Browsers, NEW c \in Browsers, jar'[b] # NULL, jar'[b] = jar'[c]
        PROVE  b = c
    BY <1>7, <2>1 DEF SlipInv, TokensHaveOneHome
  <2>2. ASSUME NEW q \in Requests, Undelivered(q)'
        PROVE  Pending(q)' = {} /\ \A b \in Browsers : jar'[b] # q
    <3>1. q # r /\ Pending(q) = {} /\ \A b \in Browsers : jar[b] # q
      BY <1>3, <2>2 DEF SlipInv, TokensHaveOneHome
    <3> QED BY <1>2, <1>7, <3>1, TokenAssumption
  <2>3. ASSUME NEW q \in Requests, NEW b \in Browsers, q \in Pending(jar[b])'
        PROVE  call'[q].browser = b
    <3>1. /\ q # r /\ call'[q] = call[q]
          /\ call[q].pc \in {"refresh", "leaving", "logout"} /\ call[q].token = jar'[b]
      BY <1>1, <2>3 DEF Pending
    <3>2. q \in Pending(jar'[b]) BY <3>1 DEF Pending
    <3>3. jar'[b] # NULL BY <3>1, CallShape, TokenAssumption DEF AInv
    <3>4. jar'[b] = jar[b] BY <1>7, <3>2, <3>3 DEF SlipInv, TokensHaveOneHome
    <3> QED BY <3>1, <3>2, <3>4 DEF SlipInv, TokensHaveOneHome
  <2> QED BY <2>1, <2>2, <2>3 DEF TokensHaveOneHome
<1>9. RefreshesHaveACall'
  <2> SUFFICES ASSUME NEW q \in Requests, tx[q].pc \in {"verified", "rotating", "reuse"}
               PROVE  \/ q \in Pending(tx[q].token)' /\ call'[q].pc = "refresh"
                      \/ token[tx[q].token].family \in copied
    BY DEF RefreshesHaveACall, Pending
  <2>1. \/ q \in Pending(tx[q].token) /\ call[q].pc = "refresh"
        \/ token[tx[q].token].family \in copied
    BY DEF SlipInv, RefreshesHaveACall
  <2>2. q = r /\ call[q].pc = "refresh" => FALSE BY DEF DoneTx
  <2> QED BY <1>1, <2>1, <2>2 DEF Pending
<1>10. LogoutsIssueNothing' BY <1>1 DEF SlipInv, LogoutsIssueNothing
<1>11. SentOnce' BY <1>2, <1>5 DEF SlipInv, SentOnce
<1>12. CleanTokensAreGood'
  <2> SUFFICES ASSUME NEW u \in Requests, Clean(u)'
               PROVE  \/ token[u].status = "valid"
                      \/ \E q \in Pending(u)' : ~ Unserved(q)'
                      \/ /\ Pending(u)' = {} /\ ~ Undelivered(u)'
                         /\ \A b \in Browsers : jar'[b] # u
    BY DEF CleanTokensAreGood
  <2>1. /\ Clean(u)
        /\ \/ token[u].status = "valid"
           \/ \E q \in Pending(u) : ~ Unserved(q)
           \/ /\ Pending(u) = {} /\ ~ Undelivered(u)
              /\ \A b \in Browsers : jar[b] # u
    BY <1>5 DEF SlipInv, CleanTokensAreGood
  <2>2. CASE r \notin Pending(u)
    <3>1. Pending(u)' = Pending(u) BY <1>2, <2>2
    <3>2. \A q \in Pending(u) : Unserved(q)' <=> Unserved(q)
      BY <1>6, <2>2 DEF Pending
    <3>3. ~ Undelivered(u) => \A b \in Browsers : jar'[b] = u => jar[b] = u
      BY <1>7, TokenAssumption
    <3> QED BY <1>3, <2>1, <3>1, <3>2, <3>3
  <2>3. CASE r \in Pending(u)
    <3>1. Pending(u)' = {} BY <1>2, <2>1, <2>3 DEF SlipInv, SentOnce
    <3>2. ~ Undelivered(u) BY <2>3 DEF SlipInv, TokensHaveOneHome
    <3>3. /\ u = call[r].token /\ call[r].pc \in {"refresh", "leaving", "logout"}
      BY <2>3 DEF Pending
    <3>4. CASE call[r].pc = "leaving"
      <4>1. \A q \in Pending(u) : Unserved(q)
        BY <2>1, <2>3, <3>4 DEF SlipInv, SentOnce, Unserved
      <4> QED BY <2>1, <2>3, <4>1
    <3>5. CASE call[r].pc # "leaving"
      <4>1. token[u].family \notin slipped' BY DEF Clean
      <4>2. jar'[call[r].browser] \in {r, NULL} BY <3>3, <3>5, <4>1
      <4>3. u # r
        <5>1. CASE call[r].pc = "refresh" BY <1>4, <3>2, <5>1
        <5>2. CASE call[r].pc = "logout"
          <6>1. tx[r] # DoneTx
            BY <5>2 DEF SlipInv, LogoutsIssueNothing, NewTx, DoneTx
          <6> QED BY <2>1, <6>1 DEF Clean, Issued, AInv, IInv, NoRowBeforeTheEnd, NoToken
        <5> QED BY <3>3, <3>5, <5>1, <5>2
      <4>4. ASSUME NEW b \in Browsers, jar'[b] = u PROVE FALSE
        <5>1. jar[b] = u BY <1>7, <4>3, <4>4, TokenAssumption
        <5>2. call[r].browser = b BY <2>3, <5>1 DEF SlipInv, TokensHaveOneHome
        <5> QED BY <4>2, <4>3, <4>4, <5>2, TokenAssumption
      <4> QED BY <1>3, <3>1, <3>2, <4>4
    <3> QED BY <3>4, <3>5
  <2> QED BY <2>2, <2>3
<1>13. ReuseNeedsASlip' BY DEF SlipInv, ReuseNeedsASlip
<1> QED BY <1>8, <1>9, <1>10, <1>11, <1>12, <1>13 DEF SlipInv

LEMMA AnswersMove ==
  ASSUME AInv, SlipInv, NEW r \in Requests, Answer(r)
  PROVE  SlipInv'
<1>1. jar \in [Browsers -> Requests \cup {NULL}] BY DEF AInv, AccountsTypeOK
<1>2. CASE Deliver(r)
  <2>1. call[r].pc \in {"login", "refresh", "logout"}
    BY <1>2 DEF Deliver, Answered
  <2>2. call[r].browser \in Browsers BY <2>1, CallShape DEF AInv
  <2>3. CookiesAfter(r) \in {r, NULL} BY DEF CookiesAfter
  <2>4. ASSUME call[r].pc = "logout" PROVE CookiesAfter(r) = NULL
    <3>1. tx[r] # DoneTx
      BY <2>4 DEF SlipInv, LogoutsIssueNothing, NewTx, DoneTx
    <3> QED BY <3>1 DEF CookiesAfter, Issued, AInv, IInv, NoRowBeforeTheEnd, NoToken
  <2>5. jar'[call[r].browser] = CookiesAfter(r)
        /\ \A b \in Browsers : b # call[r].browser => jar'[b] = jar[b]
    BY <1>1, <1>2, <2>2 DEF Deliver
  <2>6. UNCHANGED <<token, tx, slipped, copied>> /\ Over(r)
        /\ (call[r].pc = "refresh" => tx[r] = DoneTx)
    BY <1>2 DEF Deliver, Answered, vars
  <2>7. \A b \in Browsers :
          \/ jar'[b] \in {jar[b], NULL}
          \/ jar'[b] = r /\ b = call[r].browser /\ call[r].pc \in {"login", "refresh"}
    BY <2>1, <2>3, <2>4, <2>5
  <2> QED BY <2>1, <2>3, <2>5, <2>6, <2>7, CallsEnd
<1>3. CASE AnswerWrongly(r)
  <2>1. /\ call[r].pc \in {"login", "refresh", "logout"}
        /\ call[r].pc = "refresh" => tx[r] = DoneTx
        /\ UNCHANGED <<token, tx, copied>> /\ Over(r)
        /\ slipped \subseteq slipped'
    BY <1>3 DEF AnswerWrongly, Answered, vars
  <2>2. call[r].pc = "login" \/ token[call[r].token].family \in slipped'
    BY <1>3 DEF AnswerWrongly
  <2>3. \A b \in Browsers : jar'[b] \in {jar[b], NULL}
    BY <1>1, <1>3 DEF AnswerWrongly
  <2> QED BY <2>1, <2>2, <2>3, CallsEnd
<1>4. CASE LoseLogout(r)
  BY <1>4, CallsEnd DEF LoseLogout, vars
<1> QED BY <1>2, <1>3, <1>4 DEF Answer

\* The first token of a session is nobody's yet.
LEMMA LoginMoves ==
  ASSUME AInv, SlipInv, NEW r \in Requests, Login(r),
         call[r].pc \in {"none", "registering"},
         NEW b, call' = [call EXCEPT ![r] = [pc |-> "login", browser |-> b]],
         UNCHANGED <<jar, slipped, copied>>
  PROVE  SlipInv'
<1>1. /\ call'[r].pc = "login"
      /\ \A q \in Requests \ {r} : call'[q] = call[q]
  BY DEF AInv, AccountsTypeOK
<1>2. /\ ~ Issued(r)
      /\ \A t \in Requests \ {r} : token'[t] = token[t]
  BY LoginStarts DEF AInv
<1>3. /\ token'[r].status = "valid"
      /\ tx'[r] = DoneTx /\ \A q \in Requests \ {r} : tx'[q] = tx[q]
      /\ tx[r] = NewTx
  BY DEF Login, Finish, NewToken, AInv, IInv, TypeOK
<1>4. \A u : Pending(u)' = Pending(u)
  <2>1. ASSUME NEW u, NEW q \in Requests PROVE q \in Pending(u)' <=> q \in Pending(u)
    BY <1>1 DEF Pending
  <2> QED BY <2>1, SamePending
<1>5. \A q \in Requests : Undelivered(q)' <=> Undelivered(q)
  BY <1>1 DEF Undelivered
<1>6. \A q \in Requests : Unserved(q)' => Unserved(q) BY <1>1, <1>3 DEF Unserved
<1>7. Pending(r) = {} BY DEF Undelivered, SlipInv, TokensHaveOneHome
<1>8. \A t \in Requests \ {r} : Clean(t)' <=> Clean(t) BY <1>2 DEF Clean, Issued
<1>9. TokensHaveOneHome'
  <2>1. \A b1 \in Browsers : jar'[b1] = jar[b1] OBVIOUS
  <2>2. ASSUME NEW q \in Requests, NEW c \in Browsers, q \in Pending(jar[c])'
        PROVE  call'[q].browser = c
    <3>1. q \in Pending(jar[c]) /\ q # r /\ call'[q] = call[q]
      BY <1>1, <2>2 DEF Pending
    <3> QED BY <3>1 DEF SlipInv, TokensHaveOneHome
  <2> QED BY <1>4, <1>5, <2>1, <2>2 DEF SlipInv, TokensHaveOneHome
<1>10. RefreshesHaveACall' /\ ReuseNeedsASlip'
  <2>1. ASSUME NEW q \in Requests, tx'[q].pc \in {"verified", "rotating", "reuse"}
        PROVE  /\ q # r /\ tx'[q] = tx[q] /\ call'[q] = call[q]
               /\ token'[tx'[q].token] = token[tx[q].token]
    <3>1. q # r BY <1>3, <2>1 DEF DoneTx
    <3>2. tx'[q] = tx[q] /\ tx[q] \in {NewTx, DoneTx} \cup RefreshTx
      BY <1>3, <3>1 DEF AInv, IInv, TypeOK
    <3>3. tx[q] \in RefreshTx BY <2>1, <3>2, Phases
    <3>4. tx[q].token \in Requests /\ Issued(tx[q].token)
      BY <3>3 DEF AInv, IInv, PresentedIsIssued, RefreshTx
    <3> QED BY <1>1, <1>2, <3>1, <3>2, <3>4
  <2>2. RefreshesHaveACall'
    <3>1. ASSUME NEW q \in Requests, tx'[q].pc \in {"verified", "rotating", "reuse"}
          PROVE  \/ call'[q].pc = "refresh" /\ call'[q].token = tx'[q].token
                 \/ token'[tx'[q].token].family \in copied
      BY <2>1, <3>1 DEF SlipInv, RefreshesHaveACall, Pending
    <3> QED BY <3>1 DEF RefreshesHaveACall, Pending
  <2>3. ReuseNeedsASlip' BY <2>1 DEF SlipInv, ReuseNeedsASlip
  <2> QED BY <2>2, <2>3
<1>11. LogoutsIssueNothing' BY <1>1, <1>3 DEF SlipInv, LogoutsIssueNothing
<1>12. SentOnce' BY <1>4, <1>7, <1>8 DEF SlipInv, SentOnce
<1>13. CleanTokensAreGood'
  <2> SUFFICES ASSUME NEW u \in Requests \ {r}, Clean(u)
               PROVE  \/ token[u].status = "valid"
                      \/ \E q \in Pending(u) : ~ Unserved(q)'
                      \/ /\ Pending(u) = {} /\ ~ Undelivered(u)
                         /\ \A c \in Browsers : jar[c] # u
    BY <1>2, <1>3, <1>4, <1>5, <1>8 DEF CleanTokensAreGood
  <2>1. \A q \in Pending(u) : Unserved(q)' => Unserved(q) BY <1>6 DEF Pending
  <2> QED BY <2>1 DEF SlipInv, CleanTokensAreGood
<1> QED BY <1>9, <1>10, <1>11, <1>12, <1>13 DEF SlipInv

\* A refresh finds a revoked token clean only if it was presented twice.
LEMMA CleanTokensAreUnused ==
  ASSUME AInv, SlipInv, NEW r \in Requests,
         tx[r].pc = "verified", token[tx[r].token].status = "revoked"
  PROVE  token[tx[r].token].family \in slipped \cup copied
<1> DEFINE t == tx[r].token
<1>1. tx[r] \in {NewTx, DoneTx} \cup RefreshTx BY DEF AInv, IInv, TypeOK
<1>2. tx[r] \in RefreshTx BY <1>1, Phases
<1>3. t \in Requests /\ Issued(t)
  BY <1>2 DEF AInv, IInv, PresentedIsIssued, RefreshTx
<1>4. SUFFICES ASSUME token[t].family \notin slipped \cup copied PROVE FALSE
  OBVIOUS
<1>5. Clean(t) BY <1>3, <1>4 DEF Clean
<1>6. r \in Pending(t) /\ call[r].pc = "refresh"
  BY <1>4 DEF SlipInv, RefreshesHaveACall
<1>7. Unserved(r) BY <1>1, <1>2, <1>6, Phases DEF Unserved
<1>8. \A q \in Pending(t) : q = r BY <1>3, <1>5, <1>6 DEF SlipInv, SentOnce
<1> HIDE DEF t
<1> QED BY <1>3, <1>5, <1>6, <1>7, <1>8 DEF t, SlipInv, CleanTokensAreGood

LEMMA ServedMoves ==
  ASSUME AInv, SlipInv, [Next]_vars, NEW r \in Requests, ServeRefresh(r)
  PROVE  SlipInv'
<1> DEFINE t == tx[r].token
<1>1. UNCHANGED <<jar, call, slipped, copied>> BY DEF ServeRefresh
<1>2. /\ tx[r].pc \in {"verified", "rotating", "reuse"}
      /\ tx[r] \in RefreshTx /\ tx[r] # DoneTx /\ tx[r] # NewTx
  <2>1. /\ tx[r].pc \in {"verified", "rotating", "reuse"}
        /\ tx[r] \in {NewTx, DoneTx} \cup RefreshTx
    BY DEF ServeRefresh, ReadToken, Rotate, ReportReuse, Rollback, AInv, IInv, TypeOK
  <2> QED BY <2>1, Phases
<1>3. t \in Requests /\ Issued(t)
  BY <1>2 DEF AInv, IInv, PresentedIsIssued, RefreshTx
<1>4. /\ \A q \in Requests \ {r} : tx'[q] = tx[q]
      /\ \/ tx'[r] = DoneTx
         \/ /\ tx'[r].token = t /\ token' = token /\ tx[r].pc = "verified"
            /\ tx'[r].pc = IF token[t].status = "revoked" THEN "reuse" ELSE "rotating"
  <2>1. tx \in [Requests -> {NewTx, DoneTx} \cup RefreshTx] BY DEF AInv, IInv, TypeOK
  <2>2. CASE ReadToken(r) BY <1>2, <2>1, <2>2 DEF ReadToken, RefreshTx
  <2>3. CASE Rotate(r) \/ ReportReuse(r) \/ Rollback(r)
    BY <2>1, <2>3 DEF Rotate, ReportReuse, Rollback, Finish
  <2> QED BY <2>2, <2>3 DEF ServeRefresh
<1>5. ~ Issued(r) BY <1>2 DEF AInv, IInv, NoRowBeforeTheEnd, Issued, NoToken
<1>6. Pending(r) = {}
  BY <1>5 DEF Pending, AInv, BrowsersHaveTokens
<1>7. \A u \in Requests : Issued(u) => token'[u].family = token[u].family
  BY RowsStay DEF AInv
<1>8. token \in [Requests -> TokenRows] BY DEF AInv, IInv, TypeOK
<1>9. ASSUME NEW u \in Requests, ~ Issued(u), Issued(u)'
      PROVE  u = r /\ token'[u].status = "valid"
  <2>1. \A S : Revoke(S)[u].family = token[u].family BY <1>8 DEF Revoke, TokenRows
  <2>2. Rotate(r)
    BY <1>9, <2>1 DEF ServeRefresh, ReadToken, ReportReuse, Rollback, Issued
  <2>3. u # r => token'[u] = Revoke({t})[u] BY <2>2 DEF Rotate, Revoke
  <2>4. u = r => token'[u] = NewToken(token[t].family) BY <2>2 DEF Rotate, Revoke
  <2> QED BY <1>9, <2>1, <2>3, <2>4 DEF Issued, NewToken
<1>10. ASSUME NEW u \in Requests, Issued(u), token'[u].status # token[u].status
       PROVE  \/ u = t /\ tx'[r] = DoneTx
              \/ token[u].family \in slipped \cup copied
  <2>1. token' # token BY <1>10
  <2>2. \/ token' = [Revoke({t}) EXCEPT ![r] = NewToken(token[t].family)] /\ Rotate(r)
        \/ token' = Revoke(Family(token[t].family)) /\ ReportReuse(r)
    BY <2>1 DEF ServeRefresh, ReadToken, Rotate, ReportReuse, Rollback
  <2>3. CASE Rotate(r)
    <3>1. u # r BY <1>5, <1>10
    <3>2. token'[u] = Revoke({t})[u] BY <2>3, <3>1 DEF Rotate, Revoke
    <3>3. u = t BY <1>10, <3>2 DEF Revoke
    <3>4. tx'[r] = DoneTx BY <2>3 DEF Rotate, Finish, AInv, IInv, TypeOK
    <3> QED BY <3>3, <3>4
  <2>4. CASE ReportReuse(r)
    <3>1. token' = Revoke(Family(token[t].family)) BY <2>4 DEF ReportReuse
    <3>2. u \in Family(token[t].family) BY <1>10, <3>1 DEF Revoke
    <3>3. token[t].family \in slipped \cup copied
      BY <2>4 DEF ReportReuse, SlipInv, ReuseNeedsASlip
    <3> QED BY <3>2, <3>3 DEF Family
  <2> QED BY <2>2, <2>3, <2>4
<1> HIDE DEF t
<1>11. \A u : Pending(u)' = Pending(u) BY <1>1 DEF Pending
<1>12. \A q \in Requests : /\ Undelivered(q)' <=> Undelivered(q)
                           /\ Unserved(q)' => Unserved(q)
  BY <1>1, <1>2, <1>4 DEF Undelivered, Unserved
<1>13. ASSUME NEW u \in Requests, Clean(u)'
       PROVE  Clean(u) \/ (u = r /\ ~ Clean(u) /\ token'[u].status = "valid")
  BY <1>1, <1>5, <1>7, <1>9, <1>13 DEF Clean
<1>14. TokensHaveOneHome'
  <2>1. ASSUME NEW q \in Requests, NEW c \in Browsers, q \in Pending(jar[c])'
        PROVE  call'[q].browser = c
    <3>1. q \in Pending(jar[c]) /\ call'[q] = call[q]
      BY <1>1, <2>1 DEF Pending
    <3> QED BY <3>1 DEF SlipInv, TokensHaveOneHome
  <2> QED BY <1>1, <1>11, <1>12, <2>1 DEF SlipInv, TokensHaveOneHome
<1>15. ASSUME NEW q \in Requests, tx'[q].pc \in {"verified", "rotating", "reuse"}
       PROVE  /\ tx'[q].token = tx[q].token
              /\ tx[q].pc \in {"verified", "rotating", "reuse"}
              /\ token'[tx'[q].token].family = token[tx[q].token].family
  <2>1. CASE q = r
    BY <1>2, <1>3, <1>4, <1>7, <1>15, <2>1 DEF t, DoneTx
  <2>2. CASE q # r
    <3>1. tx'[q] = tx[q] /\ tx[q] \in {NewTx, DoneTx} \cup RefreshTx
      BY <1>4, <2>2 DEF AInv, IInv, TypeOK
    <3>2. tx[q] \in RefreshTx BY <1>15, <3>1, Phases
    <3>3. tx[q].token \in Requests /\ Issued(tx[q].token)
      BY <3>2 DEF AInv, IInv, PresentedIsIssued, RefreshTx
    <3> QED BY <1>7, <1>15, <3>1, <3>3
  <2> QED BY <2>1, <2>2
<1>16. RefreshesHaveACall'
  <2>1. ASSUME NEW q \in Requests, tx'[q].pc \in {"verified", "rotating", "reuse"}
        PROVE  \/ call'[q].pc = "refresh" /\ call'[q].token = tx'[q].token
               \/ token'[tx'[q].token].family \in copied'
    BY <1>1, <1>15, <2>1 DEF SlipInv, RefreshesHaveACall, Pending
  <2> QED BY <2>1 DEF RefreshesHaveACall, Pending
<1>17. LogoutsIssueNothing'
  BY <1>1, <1>2, <1>4 DEF SlipInv, LogoutsIssueNothing
<1>18. SentOnce' BY <1>6, <1>11, <1>13 DEF SlipInv, SentOnce
<1>19. CleanTokensAreGood'
  <2> SUFFICES ASSUME NEW u \in Requests, Clean(u), Clean(u)'
               PROVE  \/ token'[u].status = "valid"
                      \/ \E q \in Pending(u) : ~ Unserved(q)'
                      \/ /\ Pending(u) = {} /\ ~ Undelivered(u)
                         /\ \A c \in Browsers : jar[c] # u
    BY <1>1, <1>11, <1>12, <1>13 DEF CleanTokensAreGood
  <2>1. \A q \in Pending(u) : Unserved(q)' => Unserved(q) BY <1>12 DEF Pending
  <2>2. CASE token'[u].status = token[u].status
    BY <2>1, <2>2 DEF SlipInv, CleanTokensAreGood
  <2>3. CASE token'[u].status # token[u].status
    <3>1. u = t /\ tx'[r] = DoneTx BY <1>10, <2>3 DEF Clean
    <3>2. r \in Pending(u) /\ call[r].pc = "refresh"
      BY <1>2, <3>1 DEF t, SlipInv, RefreshesHaveACall, Clean
    <3>3. ~ Unserved(r)' BY <1>1, <3>1, <3>2 DEF Unserved
    <3> QED BY <3>2, <3>3
  <2> QED BY <2>2, <2>3
<1>20. ReuseNeedsASlip'
  <2> SUFFICES ASSUME NEW q \in Requests, tx'[q].pc = "reuse"
               PROVE  token[tx[q].token].family \in slipped \cup copied
    BY <1>1, <1>15 DEF ReuseNeedsASlip
  <2>1. CASE tx[q].pc = "reuse" BY <2>1 DEF SlipInv, ReuseNeedsASlip
  <2>2. CASE tx[q].pc # "reuse"
    <3>1. q = r BY <1>4, <2>2
    <3>2. tx[r].pc = "verified" /\ token[t].status = "revoked"
      BY <1>4, <3>1 DEF DoneTx
    <3> QED BY <3>1, <3>2, CleanTokensAreUnused DEF t
  <2> QED BY <2>1, <2>2
<1> QED BY <1>14, <1>16, <1>17, <1>18, <1>19, <1>20 DEF SlipInv

\* A logout revokes the token it was sent with.
LEMMA LogoutMoves ==
  ASSUME AInv, SlipInv, [Next]_vars, NEW r \in Requests, ServeLogout(r)
  PROVE  SlipInv'
<1>0. PICK t : t = call[r].token OBVIOUS
<1>1. t \in Requests /\ Issued(t) /\ call[r].pc = "leaving"
  BY <1>0, CallShape DEF ServeLogout, AInv, BrowsersHaveTokens
<1>2. /\ call'[r].pc = "logout" /\ call'[r].token = t
      /\ call'[r].browser = call[r].browser
      /\ \A q \in Requests \ {r} : call'[q] = call[q]
  <2>1. call[r] \in Calls /\ call' = [call EXCEPT ![r] = [call[r] EXCEPT !.pc = "logout"]]
    BY DEF ServeLogout, AInv, AccountsTypeOK
  <2>2. call \in [Requests -> Calls] BY DEF AInv, AccountsTypeOK
  <2> QED BY <1>0, <1>1, <2>1, <2>2 DEF Calls
<1>3. /\ UNCHANGED <<tx, jar, slipped, copied>>
      /\ token' = Revoke({t})
  BY <1>0 DEF ServeLogout, Logout
<1>4. token \in [Requests -> TokenRows] BY DEF AInv, IInv, TypeOK
<1>5. \A u \in Requests : /\ token'[u].family = token[u].family
                          /\ u # t => token'[u].status = token[u].status
  BY <1>3, <1>4 DEF Revoke, TokenRows
<1>6. \A u : Pending(u)' = Pending(u)
  <2>1. ASSUME NEW u, NEW q \in Requests PROVE q \in Pending(u)' <=> q \in Pending(u)
    BY <1>0, <1>1, <1>2 DEF Pending
  <2> QED BY <2>1, SamePending
<1>7. /\ \A q \in Requests : Undelivered(q)' <=> Undelivered(q)
      /\ \A q \in Requests : Unserved(q)' => Unserved(q)
      /\ ~ Unserved(r)'
  BY <1>1, <1>2, <1>3 DEF Undelivered, Unserved
<1>8. \A u \in Requests : Clean(u)' <=> Clean(u) BY <1>3, <1>5 DEF Clean, Issued
<1>9. TokensHaveOneHome'
  <2>1. ASSUME NEW q \in Requests, NEW c \in Browsers, q \in Pending(jar[c])'
        PROVE  call'[q].browser = c
    <3>1. q \in Pending(jar[c]) BY <1>3, <2>1, <1>0, <1>1, <1>2 DEF Pending
    <3>2. call'[q].browser = call[q].browser BY <1>2
    <3> QED BY <3>1, <3>2 DEF SlipInv, TokensHaveOneHome
  <2> QED BY <1>3, <1>6, <1>7, <2>1 DEF SlipInv, TokensHaveOneHome
<1>10. ASSUME NEW q \in Requests, tx[q].pc \in {"verified", "rotating", "reuse"}
       PROVE  /\ q # r
              /\ token'[tx[q].token].family = token[tx[q].token].family
  <2>1. tx[q] \in {NewTx, DoneTx} \cup RefreshTx BY DEF AInv, IInv, TypeOK
  <2>2. tx[q].token \in Requests BY <1>10, <2>1, Phases DEF RefreshTx
  <2>3. q # r BY <1>1, <1>10 DEF SlipInv, LogoutsIssueNothing, NewTx
  <2> QED BY <1>5, <2>2, <2>3
<1>11. RefreshesHaveACall'
  <2>1. ASSUME NEW q \in Requests, tx'[q].pc \in {"verified", "rotating", "reuse"}
        PROVE  \/ call'[q].pc = "refresh" /\ call'[q].token = tx'[q].token
               \/ token'[tx'[q].token].family \in copied'
    BY <1>2, <1>3, <1>10, <2>1 DEF SlipInv, RefreshesHaveACall, Pending
  <2> QED BY <2>1 DEF RefreshesHaveACall, Pending
<1>12. ReuseNeedsASlip' BY <1>3, <1>10 DEF SlipInv, ReuseNeedsASlip
<1>13. LogoutsIssueNothing' BY <1>1, <1>2, <1>3 DEF SlipInv, LogoutsIssueNothing
<1>14. SentOnce' BY <1>6, <1>8 DEF SlipInv, SentOnce
<1>15. CleanTokensAreGood'
  <2> SUFFICES ASSUME NEW u \in Requests, Clean(u)
               PROVE  \/ token'[u].status = "valid"
                      \/ \E q \in Pending(u) : ~ Unserved(q)'
                      \/ /\ Pending(u) = {} /\ ~ Undelivered(u)
                         /\ \A c \in Browsers : jar[c] # u
    BY <1>3, <1>6, <1>7, <1>8 DEF CleanTokensAreGood
  <2>1. \A q \in Pending(u) : Unserved(q)' => Unserved(q) BY <1>7 DEF Pending
  <2>2. CASE u = t
    <3>1. r \in Pending(u) BY <1>0, <1>1, <2>2 DEF Pending
    <3> QED BY <1>7, <3>1
  <2>3. CASE u # t BY <1>5, <2>1, <2>3 DEF SlipInv, CleanTokensAreGood
  <2> QED BY <2>2, <2>3
<1> QED BY <1>9, <1>11, <1>12, <1>13, <1>14, <1>15 DEF SlipInv

\* Whoever has a copy of a token spoils its session.
LEMMA ReplayMoves ==
  ASSUME AInv, SlipInv, NEW r \in Requests, Replay(r)
  PROVE  SlipInv'
<1>1. PICK t \in Requests :
        /\ Issued(t)
        /\ tx' = [tx EXCEPT ![r] = [pc |-> "verified", token |-> t]]
  BY DEF Replay, PresentToken
<1>2. /\ UNCHANGED <<token, jar, slipped>> /\ call[r].pc = "none" /\ tx[r] = NewTx
      /\ call'[r].pc = "over" /\ \A q \in Requests \ {r} : call'[q] = call[q]
  BY DEF Replay, Fresh, PresentToken, AInv, AccountsTypeOK
<1>3. /\ tx'[r].token = t /\ tx'[r].pc = "verified" /\ tx'[r] # DoneTx
      /\ \A q \in Requests \ {r} : tx'[q] = tx[q]
  BY <1>1 DEF AInv, IInv, TypeOK, DoneTx
<1>4. copied' = copied \cup {token[t].family} BY <1>3 DEF Replay
<1>5. \A u : Pending(u)' = Pending(u)
  <2>1. ASSUME NEW u, NEW q \in Requests PROVE q \in Pending(u)' <=> q \in Pending(u)
    BY <1>2 DEF Pending
  <2> QED BY <2>1, SamePending
<1>6. \A q \in Requests : /\ Undelivered(q)' => Undelivered(q)
                          /\ Unserved(q)' => Unserved(q)
  BY <1>2, <1>3 DEF Undelivered, Unserved
<1>7. \A u \in Requests : Clean(u)' => Clean(u) BY <1>2, <1>4 DEF Clean, Issued
<1>8. TokensHaveOneHome'
  <2>1. ASSUME NEW q \in Requests, NEW c \in Browsers, q \in Pending(jar[c])'
        PROVE  call'[q].browser = c
    <3>1. q \in Pending(jar[c]) /\ call'[q] = call[q]
      BY <1>2, <2>1 DEF Pending
    <3> QED BY <3>1 DEF SlipInv, TokensHaveOneHome
  <2> QED BY <1>2, <1>5, <1>6, <2>1 DEF SlipInv, TokensHaveOneHome
<1>9. RefreshesHaveACall'
  <2>1. ASSUME NEW q \in Requests, tx'[q].pc \in {"verified", "rotating", "reuse"}
        PROVE  \/ call'[q].pc = "refresh" /\ call'[q].token = tx'[q].token
               \/ token'[tx'[q].token].family \in copied'
    <3>1. CASE q = r BY <1>2, <1>3, <1>4, <3>1
    <3>2. CASE q # r
      BY <1>2, <1>3, <1>4, <2>1, <3>2 DEF SlipInv, RefreshesHaveACall, Pending
    <3> QED BY <3>1, <3>2
  <2> QED BY <2>1 DEF RefreshesHaveACall, Pending
<1>10. LogoutsIssueNothing' BY <1>2, <1>3 DEF SlipInv, LogoutsIssueNothing
<1>11. SentOnce' BY <1>5, <1>7 DEF SlipInv, SentOnce
<1>12. CleanTokensAreGood'
  <2> SUFFICES ASSUME NEW u \in Requests, Clean(u)
               PROVE  \/ token[u].status = "valid"
                      \/ \E q \in Pending(u) : ~ Unserved(q)'
                      \/ /\ Pending(u) = {} /\ ~ Undelivered(u)'
                         /\ \A c \in Browsers : jar[c] # u
    BY <1>2, <1>5, <1>7 DEF CleanTokensAreGood
  <2>1. \A q \in Pending(u) : Unserved(q)' => Unserved(q) BY <1>6 DEF Pending
  <2> QED BY <1>6, <2>1 DEF SlipInv, CleanTokensAreGood
<1>13. ReuseNeedsASlip' BY <1>2, <1>3, <1>4 DEF SlipInv, ReuseNeedsASlip
<1> QED BY <1>8, <1>9, <1>10, <1>11, <1>12, <1>13 DEF SlipInv

LEMMA NextSlipInv == AInv /\ SlipInv /\ [AccountsNext]_allVars => SlipInv'
<1> SUFFICES ASSUME AInv, SlipInv, [AccountsNext]_allVars PROVE SlipInv'
  OBVIOUS
<1>1. [Next]_vars /\ AccountsTypeOK'
  BY StepIsTokenStep, AccountsKeepShape DEF AInv
<1>2. ASSUME UNCHANGED <<token, tx, slipped, copied>>,
             \A b \in Browsers : jar'[b] \in {jar[b], NULL},
             \/ UNCHANGED call
             \/ \E r \in Requests, new \in [pc : {"registering"}, browser : Browsers, email : Emails]
                                            \cup [pc : {"over"}] :
                  /\ call[r].pc \in {"none", "registering"}
                  /\ call' = [call EXCEPT ![r] = new]
      PROVE  SlipInv'
  <2>1. \A r \in Requests :
          \/ call'[r] = call[r]
          \/ call[r].pc \in {"none", "registering"} /\ call'[r].pc \in {"registering", "over"}
    BY <1>2 DEF AInv, AccountsTypeOK
  <2> QED BY <1>1, <1>2, <2>1, NoCookieMoves
<1>3. ASSUME NEW r \in Requests, NEW b \in Browsers, BrowserSends(r, b) PROVE SlipInv'
  <2>1. CASE \E e \in Emails : CheckEmail(r, b, e) \/ RefuseEmail(r, b, e)
    BY <1>2, <2>1 DEF CheckEmail, RefuseEmail, Fresh, vars
  <2>2. CASE \E u \in Requests : LoginUser(r, b, u)
    BY <2>2, LoginMoves DEF LoginUser, Fresh
  <2>3. CASE SendRefresh(r, b)
    <3>1. /\ Fresh(r) /\ SendCookie(r, b, "refresh") /\ UNCHANGED <<token, jar, copied>>
          /\ tx' = [tx EXCEPT ![r] = [pc |-> "verified", token |-> jar[b]]]
      BY <2>3 DEF SendRefresh, PresentToken, AInv, IInv, TypeOK
    <3> QED BY <1>1, <3>1, SendingIsOnce
  <2>4. CASE SendLogout(r, b)
    BY <1>1, <2>4, SendingIsOnce DEF SendLogout, vars
  <2> QED BY <1>3, <2>1, <2>2, <2>3, <2>4 DEF BrowserSends
<1>4. ASSUME NEW b \in Browsers, RefuseRefresh(b) PROVE SlipInv'
  BY <1>2, <1>4 DEF RefuseRefresh, vars, AInv, AccountsTypeOK
<1>5. ASSUME NEW r \in Requests, Serve(r) PROVE SlipInv'
  <2>1. CASE RegisterUser(r)
    BY <2>1, LoginMoves DEF RegisterUser, InsertsUser
  <2>2. CASE FailRegistration(r)
    BY <1>2, <2>2 DEF FailRegistration, vars
  <2> QED BY <1>1, <1>5, <2>1, <2>2, ServedMoves, LogoutMoves DEF Serve
<1>6. CASE Tick /\ UNCHANGED accounts
  BY <1>2, <1>6 DEF Tick, accounts, AInv, AccountsTypeOK
<1>7. CASE UNCHANGED allVars
  BY <1>2, <1>7 DEF allVars, accounts, vars, AInv, AccountsTypeOK
<1> QED BY <1>3, <1>4, <1>5, <1>6, <1>7, ReplayMoves, AnswersMove DEF AccountsNext

LEMMA AlwaysSlipInv == AccountsSpec => []SlipInv
<1>1. AInv /\ AInv' /\ SlipInv /\ [AccountsNext]_allVars => SlipInv'
  BY NextSlipInv
<1> QED BY <1>1, AlwaysAInv, InitSlipInv, PTL DEF AccountsSpec

-----------------------------------------------------------------------------
\* The users' side of the sessions changes nothing about them: what is proved of
\* RefreshTokens holds of Accounts.
THEOREM AccountsKeepSessions == AccountsSpec => Spec
<1>1. AccountsInit => Init BY DEF AccountsInit
<1>2. AInv /\ [AccountsNext]_allVars => [Next]_vars
  BY StepIsTokenStep DEF AInv
<1> QED BY <1>1, <1>2, AlwaysAInv, PTL DEF AccountsSpec, Spec

\* Every row, cookie jar and call keeps its shape, and no browser has a token
\* that was not issued.
THEOREM AccountsTypeCorrect == AccountsSpec => []AccountsTypeOK
BY AlwaysAInv, PTL DEF AInv

\* No interleaving of registrations makes two accounts of one address or an
\* account without its session, and no rotation moves a session to another
\* account (registerUser, refreshTokens).
THEOREM SessionsBelong == AccountsSpec => []SessionsAreOfOneAccount
BY AlwaysAInv, PTL DEF AInv

\* An access token ends within its lifetime of the end of its session
\* (signAccessToken, requireAuth).
THEOREM AccessEnds == AccountsSpec => []AccessEndsAfterClose
<1>1. AInv => AccessEndsAfterClose
  <2> SUFFICES ASSUME AInv, NEW r \in Requests, Issued(r),
                      fate[token[r].family] = "closed",
                      clock >= closedAt[token[r].family] + AccessTTL
               PROVE  ~ Authenticates(r)
    BY DEF AccessEndsAfterClose
  <2>1. token[r].family \in Requests BY FamilyIsRequest
  <2>2. /\ closedAt[token[r].family] \in Nat
        /\ token[r].expiresAt <= closedAt[token[r].family] + TokenTTL
    BY <2>1 DEF AInv, NothingAfterClose
  <2>3. token[r].expiresAt \in Nat /\ clock \in Nat
    BY DEF AInv, IInv, TypeOK, TokenRows
  <2> QED BY <2>2, <2>3, AccountAssumption, TokenAssumption DEF Authenticates, SignedAt
<1> QED BY <1>1, AlwaysAInv, PTL

\* A browser that waits for its answers and gets them, and whose tokens nobody
\* copied, is never logged out as a thief: whatever the requests of all the others
\* do in between, the token it has is good until it is exchanged, and the token it
\* exchanged is not sent again (refreshTokens, setAuthCookies).
THEOREM OnlySlipsAreReported == AccountsSpec => []ReuseNeedsASlip
BY AlwaysSlipInv, PTL DEF SlipInv
=============================================================================
