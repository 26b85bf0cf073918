------------------------ MODULE RefreshTokensProofs -------------------------
(***************************************************************************)
(* What RefreshTokens promises for any number of requests.                 *)
(***************************************************************************)
EXTENDS RefreshTokens, TLAPS

\* No rotation of a closed session is under way, so none can bring it back.
NoRotationOfClosed == \A f \in Requests : fate[f] = "closed" => Rotating(f) = {}

\* A request that has not ended has inserted nothing.
NoRowBeforeTheEnd == \A r \in Requests : tx[r] # DoneTx => token[r] = NoToken

\* A token that is presented was issued, so its family does not change any more.
PresentedIsIssued == \A r \in Requests : tx[r] \in RefreshTx => Issued(tx[r].token)

IInv ==
  /\ TypeOK
  /\ SessionNeverLost
  /\ ClosedForGood
  /\ NoRotationOfClosed
  /\ NoRowBeforeTheEnd
  /\ PresentedIsIssued

-----------------------------------------------------------------------------
\* What a request is doing can be told from its pc.
LEMMA Phases ==
  ASSUME NEW x \in {NewTx, DoneTx} \cup RefreshTx
  PROVE  /\ x.pc \in {"verified", "rotating", "reuse"} => x \in RefreshTx
         /\ x = NewTx => x \notin RefreshTx
         /\ x = DoneTx => x \notin RefreshTx
         /\ NewTx # DoneTx
         /\ x.pc = "rotating" => x \in RefreshTx /\ x # DoneTx
BY SMT DEF NewTx, DoneTx, RefreshTx

LEMMA InitIInv == Init => IInv
BY TokenAssumption, SMT
DEF Init, IInv, TypeOK, SessionNeverLost, ClosedForGood, NoRotationOfClosed,
    NoRowBeforeTheEnd, PresentedIsIssued, NoToken, NewTx, DoneTx, RefreshTx,
    TokenRows, Fates, Issued

LEMMA RevokeType ==
  ASSUME TypeOK, NEW S
  PROVE  /\ Revoke(S) \in [Requests -> TokenRows]
         /\ \A t \in Requests : Revoke(S)[t].family = token[t].family
         /\ \A t \in Requests \cap S : Revoke(S)[t].status = "revoked"
         /\ \A t \in Requests \ S : Revoke(S)[t] = token[t]
BY SMT DEF TypeOK, Revoke, TokenRows

LEMMA NewTokenType ==
  ASSUME TypeOK, NEW f \in Requests
  PROVE  /\ NewToken(f) \in TokenRows
         /\ NewToken(f).family = f
         /\ NewToken(f).status = "valid"
BY TokenAssumption, SMT DEF TypeOK, NewToken, TokenRows

-----------------------------------------------------------------------------
\* A step that only moves a request, and not into a rotation of a closed session.
LEMMA MoveKeepsIInv ==
  ASSUME IInv, NEW r \in Requests,
         NEW x \in {NewTx, DoneTx} \cup RefreshTx,
         tx[r] # DoneTx,
         tx' = [tx EXCEPT ![r] = x],
         UNCHANGED <<clock, token, fate>>,
         x \in RefreshTx => Issued(x.token),
         x.pc = "rotating" => fate[token[x.token].family] # "closed"
  PROVE  IInv'
<1>1. TypeOK' BY SMT DEF IInv, TypeOK
<1>2. SessionNeverLost' /\ ClosedForGood'
  BY Zenon DEF IInv, SessionNeverLost, ClosedForGood, Live, Family
<1>3. \A q \in Requests : tx'[q] = IF q = r THEN x ELSE tx[q]
  BY Zenon DEF IInv, TypeOK
<1>4. NoRotationOfClosed'
  <2> SUFFICES ASSUME NEW f \in Requests, fate[f] = "closed",
                      NEW q \in Requests, tx'[q].pc = "rotating",
                      token[tx'[q].token].family = f
               PROVE  FALSE
    BY Zenon DEF NoRotationOfClosed, Rotating
  <2> QED BY <1>3, Zenon DEF IInv, NoRotationOfClosed, Rotating
<1>5. NoRowBeforeTheEnd' BY <1>3, Zenon DEF IInv, NoRowBeforeTheEnd
<1>6. PresentedIsIssued' BY <1>3, Zenon DEF IInv, PresentedIsIssued, Issued
<1> QED BY <1>1, <1>2, <1>4, <1>5, <1>6 DEF IInv

LEMMA MovesKeepIInv ==
  ASSUME IInv, NEW r \in Requests,
         PresentToken(r) \/ ReadToken(r) \/ Rollback(r)
  PROVE  IInv'
<1> DEFINE Tx == {NewTx, DoneTx} \cup RefreshTx
<1>0. tx[r] \in Tx BY DEF IInv, TypeOK
<1>1. CASE PresentToken(r)
  <2>1. PICK t \in Requests : /\ tx[r] = NewTx /\ Issued(t)
                              /\ tx' = [tx EXCEPT ![r] = [pc |-> "verified", token |-> t]]
                              /\ UNCHANGED <<clock, token, fate>>
    BY <1>1 DEF PresentToken
  <2> DEFINE x == [pc |-> "verified", token |-> t]
  <2>2. x \in RefreshTx /\ x.token = t /\ x.pc # "rotating" BY SMT DEF RefreshTx
  <2>3. tx[r] # DoneTx BY <2>1, <1>0, Phases
  <2> HIDE DEF x
  <2> QED BY <2>1, <2>2, <2>3, MoveKeepsIInv DEF x
<1>2. CASE ReadToken(r)
  <2> DEFINE row == token[tx[r].token]
             x == IF row.status = "revoked" THEN [tx[r] EXCEPT !.pc = "reuse"]
                  ELSE IF row.expiresAt <= clock THEN DoneTx
                  ELSE [tx[r] EXCEPT !.pc = "rotating"]
  <2>1. tx[r] \in RefreshTx /\ tx[r] # DoneTx BY <1>0, <1>2, Phases DEF ReadToken
  <2>2. /\ x \in Tx
        /\ x \in RefreshTx => x.token = tx[r].token
        /\ x.pc = "rotating" => x.token = tx[r].token /\ row.status # "revoked"
    BY <2>1, SMT DEF RefreshTx, DoneTx
  <2>3. tx[r].token \in Requests /\ Issued(tx[r].token)
    BY <2>1, SMT DEF IInv, PresentedIsIssued, RefreshTx
  <2>4. row \in TokenRows BY <2>3 DEF IInv, TypeOK
  <2>5. row.family \in Requests BY <2>3, <2>4, SMT DEF Issued, TokenRows
  <2>6. row.status # "revoked" => fate[row.family] # "closed"
    BY <2>3, <2>4, <2>5, SMT DEF IInv, ClosedForGood, Live, Family, TokenRows
  <2>7. tx' = [tx EXCEPT ![r] = x] /\ UNCHANGED <<clock, token, fate>>
    BY <1>2 DEF ReadToken
  <2> HIDE DEF x
  <2> QED BY <2>1, <2>2, <2>3, <2>6, <2>7, MoveKeepsIInv
<1>3. CASE Rollback(r)
  <2>1. tx[r] # DoneTx BY <1>0, <1>3, Phases, SMT DEF Rollback, DoneTx
  <2>2. DoneTx \notin RefreshTx /\ DoneTx.pc # "rotating" BY SMT DEF DoneTx, RefreshTx
  <2> QED BY <1>3, <2>1, <2>2, MoveKeepsIInv DEF Rollback, Finish
<1> QED BY <1>1, <1>2, <1>3

-----------------------------------------------------------------------------
\* A step that ends a request or none, and changes the family of no issued token.
LEMMA EndKeepsRequests ==
  ASSUME IInv,
         token' \in [Requests -> TokenRows],
         fate' \in [Requests -> Fates],
         clock' \in Nat,
         \/ UNCHANGED tx
         \/ \E r \in Requests : Finish(r),
         \A t \in Requests : Issued(t) => token'[t].family = token[t].family,
         \A r \in Requests : tx'[r] # DoneTx => token'[r] = token[r]
  PROVE  /\ TypeOK' /\ NoRowBeforeTheEnd' /\ PresentedIsIssued'
         /\ \A f \in Requests : Rotating(f)' \subseteq Rotating(f)
<1>1. \A r \in Requests : tx'[r] \in {tx[r], DoneTx}
  BY Zenon DEF IInv, TypeOK, Finish
<1>2. tx' \in [Requests -> {NewTx, DoneTx} \cup RefreshTx]
  BY Zenon DEF IInv, TypeOK, Finish
<1>3. TypeOK' BY <1>2 DEF TypeOK
<1>4. DoneTx \notin RefreshTx /\ DoneTx.pc # "rotating" BY SMT DEF DoneTx, RefreshTx
<1>5. NoRowBeforeTheEnd'
  BY <1>1, Zenon DEF IInv, NoRowBeforeTheEnd
<1>6. ASSUME NEW r \in Requests, tx[r] \in RefreshTx
      PROVE  /\ tx[r].token \in Requests
             /\ token'[tx[r].token].family = token[tx[r].token].family
             /\ token[tx[r].token].family # NULL
  BY <1>6, SMT DEF IInv, PresentedIsIssued, Issued, RefreshTx
<1>7. PresentedIsIssued'
  BY <1>1, <1>4, <1>6, Zenon DEF PresentedIsIssued, Issued
<1>8. ASSUME NEW f \in Requests, NEW r \in Requests, tx'[r].pc = "rotating",
             token'[tx'[r].token].family = f
      PROVE  r \in Rotating(f)
  <2>1. tx'[r] = tx[r] /\ tx[r].pc = "rotating" BY <1>1, <1>4, <1>8, Zenon
  <2>2. tx[r] \in RefreshTx BY <2>1, Phases, Zenon DEF IInv, TypeOK
  <2> QED BY <1>6, <1>8, <2>1, <2>2, Zenon DEF Rotating
<1> QED BY <1>3, <1>5, <1>7, <1>8, Zenon DEF Rotating

\* Sessions whose rows a step leaves alone keep the tokens they had.
LEMMA LiveStays ==
  ASSUME NEW f,
         \A t \in Requests :
           /\ token'[t].family = f <=> token[t].family = f
           /\ token'[t].family = f => token'[t].status = token[t].status
  PROVE  Live(f)' = Live(f)
BY SMT DEF Live, Family

LEMMA LoginKeepsIInv ==
  ASSUME IInv, NEW r \in Requests, Login(r)
  PROVE  IInv'
<1>1. tx[r] # DoneTx /\ token[r] = NoToken
  BY Phases, Zenon DEF IInv, TypeOK, NoRowBeforeTheEnd, Login
<1>2. ~ Issued(r) BY <1>1, SMT DEF Issued, NoToken
<1>3. NewToken(r) \in TokenRows /\ NewToken(r).family = r /\ NewToken(r).status = "valid"
  BY NewTokenType DEF IInv
<1>4. /\ token' = [token EXCEPT ![r] = NewToken(r)]
      /\ fate' = [fate EXCEPT ![r] = "open"]
      /\ tx' = [tx EXCEPT ![r] = DoneTx]
      /\ UNCHANGED clock
  BY DEF Login, Finish
<1>5. /\ token' \in [Requests -> TokenRows] /\ fate' \in [Requests -> Fates]
      /\ \A t \in Requests : token'[t] = IF t = r THEN NewToken(r) ELSE token[t]
      /\ \A f \in Requests : fate'[f] = IF f = r THEN "open" ELSE fate[f]
      /\ tx'[r] = DoneTx
  <2> HIDE DEF NewToken
  <2> QED BY <1>3, <1>4, SMT DEF IInv, TypeOK, Fates
<1>6. /\ TypeOK' /\ NoRowBeforeTheEnd' /\ PresentedIsIssued'
      /\ \A f \in Requests : Rotating(f)' \subseteq Rotating(f)
  <2>1. \A t \in Requests : Issued(t) => token'[t].family = token[t].family
    BY <1>2, <1>5, Zenon
  <2>2. \A q \in Requests : tx'[q] # DoneTx => token'[q] = token[q]
    BY <1>5, Zenon
  <2>3. clock' \in Nat BY <1>4 DEF IInv, TypeOK
  <2> QED BY <1>5, <2>1, <2>2, <2>3, EndKeepsRequests DEF Login
<1>7. r \in Live(r)' BY <1>3, <1>5, Zenon DEF Live, Family
<1>8. \A f \in Requests \ {r} : Live(f)' = Live(f)
  <2>1. token[r].family = NULL /\ r # NULL
    BY <1>1, TokenAssumption, SMT DEF NoToken, TokenAssumption
  <2>2. ASSUME NEW f \in Requests \ {r}, NEW t \in Requests
        PROVE  /\ token'[t].family = f <=> token[t].family = f
               /\ token'[t].family = f => token'[t].status = token[t].status
    <3>1. CASE t = r BY <1>3, <1>5, <2>1, <2>2, <3>1, TokenAssumption, Zenon
                     DEF TokenAssumption
    <3>2. CASE t # r BY <1>5, <3>2, Zenon
    <3> QED BY <3>1, <3>2
  <2> QED BY <2>2, LiveStays
<1>9. SessionNeverLost' /\ ClosedForGood' /\ NoRotationOfClosed'
  <2>1. "open" # "closed" OBVIOUS
  <2> QED BY <1>5, <1>6, <1>7, <1>8, <2>1, Zenon
          DEF IInv, SessionNeverLost, ClosedForGood, NoRotationOfClosed
<1> QED BY <1>6, <1>9 DEF IInv

LEMMA RotateKeepsIInv ==
  ASSUME IInv, NEW r \in Requests, Rotate(r)
  PROVE  IInv'
<1>1. /\ tx[r] # DoneTx /\ tx[r] \in RefreshTx
      /\ token[r] = NoToken
  BY Phases, Zenon DEF IInv, TypeOK, NoRowBeforeTheEnd, Rotate
<1>2. PICK old \in Requests : old = tx[r].token /\ Issued(old)
  BY <1>1, SMT DEF IInv, PresentedIsIssued, RefreshTx
<1>3. PICK f \in Requests : f = token[old].family
  BY <1>2, SMT DEF IInv, TypeOK, TokenRows, Issued
<1> DEFINE row == NewToken(f)
<1>4. ~ Issued(r) /\ r # old
  BY <1>1, <1>2, SMT DEF Issued, NoToken
<1>5. row \in TokenRows /\ row.family = f /\ row.status = "valid"
  BY <1>3, NewTokenType DEF IInv
<1>6. /\ token' = [Revoke({old}) EXCEPT ![r] = row]
      /\ tx' = [tx EXCEPT ![r] = DoneTx]
      /\ UNCHANGED <<clock, fate>>
  BY <1>2, <1>3 DEF Rotate, Finish
<1> HIDE DEF row
<1>7. /\ token' \in [Requests -> TokenRows]
      /\ token'[r] = row
      /\ token'[old].family = token[old].family
      /\ \A t \in Requests \ {r, old} : token'[t] = token[t]
      /\ tx'[r] = DoneTx
  <2>1. /\ Revoke({old}) \in [Requests -> TokenRows]
        /\ Revoke({old})[old].family = token[old].family
        /\ \A t \in Requests \ {old} : Revoke({old})[t] = token[t]
    BY <1>2, RevokeType, Zenon DEF IInv
  <2> QED BY <1>2, <1>4, <1>5, <1>6, <2>1, Zenon DEF IInv, TypeOK
<1>8. /\ TypeOK' /\ NoRowBeforeTheEnd' /\ PresentedIsIssued'
      /\ \A g \in Requests : Rotating(g)' \subseteq Rotating(g)
  <2>1. \A t \in Requests : Issued(t) => token'[t].family = token[t].family
    BY <1>4, <1>7, Zenon
  <2>2. \A q \in Requests : tx'[q] # DoneTx => token'[q] = token[q]
    <3>1. tx'[old] = tx[old] BY <1>2, <1>4, <1>6, Zenon DEF IInv, TypeOK
    <3>2. token[old] # NoToken BY <1>2, SMT DEF Issued, NoToken
    <3> QED BY <1>2, <1>7, <3>1, <3>2, Zenon DEF IInv, NoRowBeforeTheEnd
  <2>3. clock' \in Nat /\ fate' \in [Requests -> Fates] BY <1>6 DEF IInv, TypeOK
  <2> QED BY <1>7, <2>1, <2>2, <2>3, EndKeepsRequests DEF Rotate
<1>9. fate[f] # "closed"
  <2>1. r \in Rotating(f) BY <1>2, <1>3, Zenon DEF Rotating, Rotate
  <2> QED BY <1>3, <2>1, Zenon DEF IInv, NoRotationOfClosed
<1>10. r \in Live(f)' BY <1>5, <1>7, Zenon DEF Live, Family
<1>11. \A g \in Requests \ {f} : Live(g)' = Live(g)
  <2>1. token[r].family = NULL BY <1>1, SMT DEF NoToken
  <2>2. ASSUME NEW g \in Requests \ {f}, NEW t \in Requests
        PROVE  /\ token'[t].family = g <=> token[t].family = g
               /\ token'[t].family = g => token'[t].status = token[t].status
    <3>1. CASE t = r BY <1>5, <1>7, <2>1, <2>2, <3>1, TokenAssumption, Zenon
                     DEF TokenAssumption
    <3>2. CASE t = old BY <1>3, <1>7, <2>2, <3>2, Zenon
    <3>3. CASE t \notin {r, old} BY <1>7, <3>3, Zenon
    <3> QED BY <3>1, <3>2, <3>3
  <2> QED BY <2>2, LiveStays
<1>12. SessionNeverLost' /\ ClosedForGood' /\ NoRotationOfClosed'
  BY <1>3, <1>6, <1>8, <1>9, <1>10, <1>11, Zenon
  DEF IInv, SessionNeverLost, ClosedForGood, NoRotationOfClosed
<1> QED BY <1>8, <1>12 DEF IInv

\* Revoking issued tokens, all of one session, disturbs no request.
LEMMA RevokeKeepsRequests ==
  ASSUME IInv, NEW f \in Requests, NEW S \in SUBSET Family(f),
         token' = Revoke(S),
         \E x \in Fates : fate' = [fate EXCEPT ![f] = x],
         UNCHANGED clock,
         UNCHANGED tx \/ \E r \in Requests : Finish(r)
  PROVE  /\ TypeOK' /\ NoRowBeforeTheEnd' /\ PresentedIsIssued'
         /\ \A g \in Requests : Rotating(g)' \subseteq Rotating(g)
         /\ \A g \in Requests \ {f} : Live(g)' = Live(g) /\ fate'[g] = fate[g]
         /\ Live(f)' = Live(f) \ S
<1>1. /\ token' \in [Requests -> TokenRows]
      /\ \A t \in Requests : token'[t].family = token[t].family
      /\ \A t \in S : token'[t].status = "revoked"
      /\ \A t \in Requests \ S : token'[t] = token[t]
  BY RevokeType, Zenon DEF IInv, Family
<1>2. fate' \in [Requests -> Fates] /\ \A g \in Requests \ {f} : fate'[g] = fate[g]
  BY Zenon DEF IInv, TypeOK
<1>3. \A t \in S : t \in Requests /\ token[t].family = f /\ token[t] # NoToken
  BY TokenAssumption, SMT DEF Family, NoToken, TokenAssumption
<1>4. \A r \in Requests : tx'[r] # DoneTx => token'[r] = token[r]
  <2>1. \A r \in Requests : tx'[r] \in {tx[r], DoneTx}
    BY Zenon DEF IInv, TypeOK, Finish
  <2> QED BY <1>1, <1>3, <2>1, Zenon DEF IInv, NoRowBeforeTheEnd
<1>5. /\ TypeOK' /\ NoRowBeforeTheEnd' /\ PresentedIsIssued'
      /\ \A g \in Requests : Rotating(g)' \subseteq Rotating(g)
  <2>1. clock' \in Nat BY DEF IInv, TypeOK
  <2> QED BY <1>1, <1>2, <1>4, <2>1, EndKeepsRequests
<1>6. \A g \in Requests \ {f} : Live(g)' = Live(g)
  <2>1. ASSUME NEW g \in Requests \ {f}, NEW t \in Requests
        PROVE  /\ token'[t].family = g <=> token[t].family = g
               /\ token'[t].family = g => token'[t].status = token[t].status
    BY <1>1, <1>3, <2>1, Zenon
  <2> QED BY <2>1, LiveStays
<1>7. Live(f)' = Live(f) \ S
  <2>1. ASSUME NEW t \in Requests
        PROVE  t \in Live(f)' <=> t \in Live(f) /\ t \notin S
    <3>1. "revoked" # "valid" OBVIOUS
    <3> QED BY <1>1, <2>1, <3>1, Zenon DEF Live, Family
  <2>2. Live(f)' \subseteq Requests /\ Live(f) \subseteq Requests
    BY Zenon DEF Live, Family
  <2> QED BY <2>1, <2>2, Zenon
<1> QED BY <1>2, <1>5, <1>6, <1>7

LEMMA ReportReuseKeepsIInv ==
  ASSUME IInv, NEW r \in Requests, ReportReuse(r)
  PROVE  IInv'
<1>1. tx[r] \in RefreshTx
  BY Phases, Zenon DEF IInv, TypeOK, ReportReuse
<1>2. PICK f \in Requests : f = token[tx[r].token].family
  BY <1>1, SMT DEF IInv, PresentedIsIssued, RefreshTx, TypeOK, TokenRows, Issued
<1>3. /\ token' = Revoke(Family(f))
      /\ FateAfter(f, Family(f), "reported")
      /\ Finish(r) /\ UNCHANGED clock
  BY <1>2 DEF ReportReuse
<1>4. /\ fate' = [fate EXCEPT ![f] = IF Rotating(f) = {} THEN "closed" ELSE "reported"]
      /\ \E x \in Fates : fate' = [fate EXCEPT ![f] = x]
  <2>1. Live(f) \subseteq Family(f) BY DEF Live
  <2>2. "closed" \in Fates /\ "reported" \in Fates BY DEF Fates
  <2> QED BY <1>3, <2>1, <2>2, Zenon DEF FateAfter
<1>5. /\ TypeOK' /\ NoRowBeforeTheEnd' /\ PresentedIsIssued'
      /\ \A g \in Requests : Rotating(g)' \subseteq Rotating(g)
      /\ \A g \in Requests \ {f} : Live(g)' = Live(g) /\ fate'[g] = fate[g]
      /\ Live(f)' = {}
  <2>1. Live(f) \ Family(f) = {} BY DEF Live
  <2> QED BY <1>2, <1>3, <1>4, <2>1, RevokeKeepsRequests
<1>6. fate'[f] = IF Rotating(f) = {} THEN "closed" ELSE "reported"
  BY <1>2, <1>4, Zenon DEF IInv, TypeOK
<1>7. SessionNeverLost' /\ ClosedForGood' /\ NoRotationOfClosed'
  <2>1. "closed" # "open" /\ "reported" # "open" /\ "reported" # "closed" OBVIOUS
  <2> QED BY <1>2, <1>5, <1>6, <2>1, Zenon
          DEF IInv, SessionNeverLost, ClosedForGood, NoRotationOfClosed
<1> QED BY <1>5, <1>7 DEF IInv

LEMMA LogoutKeepsIInv ==
  ASSUME IInv, NEW t \in Requests, Logout(t)
  PROVE  IInv'
<1>0. PICK f \in Requests : f = token[t].family
  BY SMT DEF IInv, TypeOK, TokenRows, Logout, Issued
<1> DEFINE x == IF t \in Live(f) /\ fate[f] = "open" THEN "loggedOut" ELSE fate[f]
           y == IF Rotating(f) = {} /\ Live(f) \subseteq {t} THEN "closed" ELSE x
<1>1. t \in Family(f)
  BY <1>0 DEF Family
<1>2. /\ token' = Revoke({t})
      /\ fate' = [fate EXCEPT ![f] = y]
      /\ UNCHANGED <<clock, tx>>
  BY <1>0 DEF Logout, FateAfter
<1>3. y \in Fates BY <1>1, Zenon DEF IInv, TypeOK, Fates
<1>4. /\ TypeOK' /\ NoRowBeforeTheEnd' /\ PresentedIsIssued'
      /\ \A g \in Requests : Rotating(g)' \subseteq Rotating(g)
      /\ \A g \in Requests \ {f} : Live(g)' = Live(g) /\ fate'[g] = fate[g]
      /\ Live(f)' = Live(f) \ {t}
      /\ fate'[f] = y
  <2>1. {t} \in SUBSET Family(f) BY <1>1
  <2>2. fate'[f] = y BY <1>1, <1>2, Zenon DEF IInv, TypeOK
  <2> HIDE DEF y
  <2> QED BY <1>1, <1>2, <1>3, <2>1, <2>2, RevokeKeepsRequests
<1>5. y = "closed" => Rotating(f) = {} /\ Live(f)' = {}
  <2>1. "loggedOut" # "closed" OBVIOUS
  <2>2. fate[f] = "closed" => Live(f) = {} /\ Rotating(f) = {}
    BY <1>1 DEF IInv, ClosedForGood, NoRotationOfClosed
  <2>3. y = "closed" => Rotating(f) = {} /\ Live(f) \subseteq {t}
    BY <2>1, <2>2, Zenon
  <2> QED BY <1>4, <2>3, Zenon
<1>6. y = "open" => Live(f)' # {}
  <2>1. "loggedOut" # "open" /\ "closed" # "open" OBVIOUS
  <2>2. fate[f] = "open" => Live(f) # {} BY <1>1 DEF IInv, SessionNeverLost
  <2>3. y = "open" => fate[f] = "open" /\ t \notin Live(f) BY <2>1, Zenon
  <2> QED BY <1>4, <2>2, <2>3, Zenon
<1> HIDE DEF x, y
<1>7. SessionNeverLost' /\ ClosedForGood' /\ NoRotationOfClosed'
  BY <1>1, <1>4, <1>5, <1>6, Zenon
  DEF IInv, SessionNeverLost, ClosedForGood, NoRotationOfClosed
<1> QED BY <1>4, <1>7 DEF IInv

\* The clock matters to no conjunct.
LEMMA QuietKeepsIInv ==
  ASSUME IInv, clock' \in Nat, UNCHANGED <<token, tx, fate>>
  PROVE  IInv'
<1>1. TypeOK' BY SMT DEF IInv, TypeOK
<1>2. SessionNeverLost' /\ ClosedForGood'
  BY Zenon DEF IInv, SessionNeverLost, ClosedForGood, Live, Family
<1>3. NoRotationOfClosed' BY Zenon DEF IInv, NoRotationOfClosed, Rotating
<1>4. NoRowBeforeTheEnd' /\ PresentedIsIssued'
  BY Zenon DEF IInv, NoRowBeforeTheEnd, PresentedIsIssued, Issued
<1> QED BY <1>1, <1>2, <1>3, <1>4 DEF IInv

LEMMA NextIInv == IInv /\ [Next]_vars => IInv'
<1> SUFFICES ASSUME IInv, [Next]_vars PROVE IInv'
  OBVIOUS
<1>1. ASSUME NEW r \in Requests, Login(r) PROVE IInv' BY <1>1, LoginKeepsIInv
<1>2. ASSUME NEW r \in Requests, Refresh(r) PROVE IInv'
  <2>1. CASE PresentToken(r) \/ ReadToken(r) \/ Rollback(r) BY <2>1, MovesKeepIInv
  <2>2. CASE Rotate(r) BY <2>2, RotateKeepsIInv
  <2>3. CASE ReportReuse(r) BY <2>3, ReportReuseKeepsIInv
  <2> QED BY <1>2, <2>1, <2>2, <2>3 DEF Refresh
<1>3. ASSUME NEW t \in Requests, Logout(t) PROVE IInv' BY <1>3, LogoutKeepsIInv
<1>4. CASE Tick
  <2>1. clock' \in Nat BY <1>4, SMT DEF IInv, TypeOK, Tick
  <2> QED BY <1>4, <2>1, QuietKeepsIInv DEF Tick
<1>5. CASE UNCHANGED vars
  <2>1. clock' \in Nat BY <1>5 DEF vars, IInv, TypeOK
  <2> QED BY <1>5, <2>1, QuietKeepsIInv DEF vars
<1> QED BY <1>1, <1>2, <1>3, <1>4, <1>5 DEF Next

LEMMA AlwaysIInv == Spec => []IInv
BY InitIInv, NextIInv, PTL DEF Spec

-----------------------------------------------------------------------------
\* Every refresh_tokens row and every request keeps its shape.
THEOREM TypeCorrect == Spec => []TypeOK
BY AlwaysIInv, PTL DEF IInv

\* A session that nobody ended always has a token to go on with: no crash and no
\* pair of concurrent refreshes loses it (refreshTokens, step 6).
THEOREM SessionsAreKept == Spec => []SessionNeverLost
BY AlwaysIInv, PTL DEF IInv

\* A session closed while no rotation of it was under way stays closed, whatever
\* is replayed (refreshTokens, step 4, and logoutUser).
THEOREM ClosedSessionsStayClosed == Spec => []ClosedForGood
BY AlwaysIInv, PTL DEF IInv
=============================================================================
