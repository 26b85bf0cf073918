--------------------------- MODULE WaitlistProofs ---------------------------
(***************************************************************************)
(* What TicketSystem promises to those who wait, for any number of seats,  *)
(* people and cancellations: the queue's head is claimed by one of them,   *)
(* and what a cancellation reserves is reserved for whom it claimed.  From *)
(* the same invariant, what a step may do to a seat, and that every step   *)
(* is one of SeatSale or unseen by it.                                     *)
(***************************************************************************)
EXTENDS TicketSystemProofs

Cancels(r) == tx[r].pc \in {"cancel", "cancelling"}

\* What SKIP LOCKED is for: a claimed entry stays WAITING until its claimant is
\* done, and has one claimant.
ClaimsAreExclusive ==
  \A r \in Requests, c \in Categories :
    Cancels(r) /\ tx[r].heir[c] # NULL =>
      /\ Cancelling(r)
      /\ entry[c][tx[r].heir[c]].status = "WAITING"
      /\ \A q \in Requests :
           Cancels(q) /\ tx[q].heir[c] = tx[r].heir[c] => q = r

\* A request that is not done has made no offer; an offer is for somebody, and of
\* seats of its category; an acceptance is of an offer that was made.
OffersAreSound ==
  /\ \A r \in Requests, c \in Categories :
       /\ tx[r] # DoneTx => offer[r][c] = NoOffer
       /\ offer[r][c].status = "NONE" <=> offer[r][c].user = NULL
       /\ \A s \in offer[r][c].seats : CategoryOf[s] = c
  /\ \A r \in Requests :
       tx[r].pc = "accept" => offer[tx[r].by][tx[r].category].status # "NONE"

QueueInv ==
  /\ ClaimsAreExclusive
  /\ OffersAreSound
  /\ OfferedOnce

\* An offer that may be behind the reservation of a seat.
Backs(r, s) ==
  LET row == offer[r][CategoryOf[s]]
  IN  row.status = "PENDING" /\ s \in row.seats /\ row.expiresAt = seat[s].expiresAt

\* Every reserved seat has an offer behind it, and both its deadlines count from
\* the cancellation that reserved it.
ReservationsAreBacked ==
  \A s \in Seats : seat[s].state = "OFFER_RESERVED" =>
    /\ \E r \in Requests : Backs(r, s)
    /\ \E now \in Nat : /\ seat[s].expiresAt = now + OfferTTL
                        /\ seat[s].reservedUntil = now + ReservedFor

WInv == IInv /\ QueueInv /\ ReservationsAreBacked

-----------------------------------------------------------------------------
(* The queue.                                                              *)

LEMMA QueueInit == Init => QueueInv /\ ReservationsAreBacked
<1> SUFFICES ASSUME Init PROVE QueueInv /\ ReservationsAreBacked
  OBVIOUS
<1>1. ClaimsAreExclusive
  BY DEF Init, ClaimsAreExclusive, Cancels, NewTx
<1>2. OffersAreSound
  BY DEF Init, OffersAreSound, NewTx, NoOffer
<1>3. OfferedOnce
  BY StoreAssumption DEF Init, OfferedOnce, OffersTo, NoOffer, NoEntry, StoreAssumption
<1>4. ReservationsAreBacked
  BY DEF Init, ReservationsAreBacked, FreeSeat
<1> QED  BY <1>1, <1>2, <1>3, <1>4 DEF QueueInv

\* A request that does not touch the waitlist leaves the queue as sound as it was.
LEMMA QueueUntouched ==
  ASSUME TypeOK, QueueInv, NEW r \in Requests,
         UNCHANGED <<entry, offer>>,
         \A q \in Requests \ {r} : tx'[q] = tx[q],
         tx'[r] # DoneTx => tx[r] # DoneTx,
         Cancels(r)' => \A c \in Categories : tx'[r].heir[c] = NULL,
         tx'[r].pc = "accept" => offer[tx'[r].by][tx'[r].category].status # "NONE"
  PROVE  QueueInv'
<1>1. ClaimsAreExclusive'
  BY DEF QueueInv, ClaimsAreExclusive, Cancels, Cancelling
<1>2. OffersAreSound'
  BY DEF QueueInv, OffersAreSound
<1>3. OfferedOnce'
  BY DEF QueueInv, OfferedOnce, OffersTo
<1> QED  BY <1>1, <1>2, <1>3 DEF QueueInv

\* A request that ends without writing to the waitlist.
LEMMA QueueEnd ==
  ASSUME TypeOK, QueueInv, NEW r \in Requests, Finish(r), UNCHANGED <<entry, offer>>
  PROVE  QueueInv'
<1>1. tx'[r] = DoneTx /\ \A q \in Requests \ {r} : tx'[q] = tx[q]
  BY DEF Finish, TypeOK
<1> QED  BY <1>1, QueueUntouched DEF DoneTx, Cancels

LEMMA QueueArrive ==
  ASSUME TypeOK, QueueInv, NEW r \in Requests, Arrive(r)
  PROVE  QueueInv'
<1>1. PICK t : Begin(r, t)
               /\ (t.pc \in {"cancel", "cancelling"} =>
                     \A c \in Categories : t.heir[c] = NULL)
               /\ (t.pc = "accept" => offer[t.by][t.category].status # "NONE")
               /\ t # DoneTx
  <2>1. CASE BeginHold(r)
    <3>1. PICK seats \in SUBSET Seats :
            Begin(r, [pc |-> "hold", now |-> clock, seats |-> seats])
      BY <2>1 DEF BeginHold
    <3> QED  BY <3>1 DEF DoneTx
  <2>2. CASE BeginConfirm(r)
    <3>1. PICK h \in Requests : Begin(r, [pc |-> "confirm", now |-> clock, hold |-> h])
      BY <2>2 DEF BeginConfirm
    <3> QED  BY <3>1 DEF DoneTx
  <2>3. CASE BeginCancel(r)
    <3> DEFINE t(b) == [pc |-> "cancel", now |-> clock, booking |-> b, decided |-> {},
                        heir |-> [c \in Categories |-> NULL]]
    <3>1. PICK b \in Requests : Begin(r, t(b))
      BY <2>3 DEF BeginCancel
    <3>2. t(b).pc = "cancel" /\ \A c \in Categories : t(b).heir[c] = NULL
      OBVIOUS
    <3>3. t(b) # DoneTx  BY DEF DoneTx
    <3> HIDE DEF t
    <3> QED  BY <3>1, <3>2, <3>3
  <2>4. CASE BeginAccept(r)
    <3>1. PICK by \in Requests, c \in Categories :
            /\ offer[by][c].status = "PENDING"
            /\ Begin(r, [pc |-> "accept", now |-> clock, by |-> by, category |-> c])
      BY <2>4 DEF BeginAccept
    <3> QED  BY <3>1 DEF DoneTx
  <2> QED  BY <2>1, <2>2, <2>3, <2>4 DEF Arrive
<1>2. /\ tx'[r] = t /\ tx[r] # DoneTx
      /\ \A q \in Requests \ {r} : tx'[q] = tx[q]
      /\ UNCHANGED <<entry, offer>>
  BY <1>1 DEF Begin, tables, TypeOK, NewTx, DoneTx
<1> QED  BY <1>1, <1>2, QueueUntouched DEF Cancels

LEMMA QueueLockBooking ==
  ASSUME TypeOK, QueueInv, NEW r \in Requests, LockBooking(r)
  PROVE  QueueInv'
<1>1. tx[r] \in CancelTx /\ tx[r].pc = "cancel"
  BY TxShape DEF LockBooking
<1>2. /\ tx'[r].pc = "cancelling" /\ tx'[r].heir = tx[r].heir
      /\ \A q \in Requests \ {r} : tx'[q] = tx[q]
      /\ UNCHANGED <<entry, offer>>
  BY <1>1 DEF LockBooking, CancelTx, TypeOK, tables
<1>3. \A c \in Categories : tx[r].heir[c] = NULL
  BY <1>1 DEF QueueInv, ClaimsAreExclusive, Cancels, Cancelling
<1>4. tx[r] # DoneTx  BY <1>1 DEF DoneTx
<1> QED  BY <1>2, <1>3, <1>4, QueueUntouched

\* The entry claimed is WAITING and under no other claim.
LEMMA QueueClaimHeir ==
  ASSUME TypeOK, QueueInv, NEW r \in Requests, NEW c \in Categories, ClaimHeir(r, c)
  PROVE  QueueInv'
<1>1. tx[r] \in CancelTx /\ Cancelling(r)
  BY TxShape DEF ClaimHeir, Cancelling
<1>2. PICK u : /\ u = NULL \/ u \in QueueHeads(c)
               /\ tx' = [tx EXCEPT ![r].decided = @ \cup {c}, ![r].heir[c] = u]
  BY DEF ClaimHeir
<1>3. /\ tx'[r].pc = "cancelling"
      /\ \A d \in Categories : tx'[r].heir[d] = IF d = c THEN u ELSE tx[r].heir[d]
      /\ \A q \in Requests \ {r} : tx'[q] = tx[q]
      /\ UNCHANGED <<entry, offer>>
  BY <1>1, <1>2 DEF ClaimHeir, Cancelling, CancelTx, TypeOK, tables
<1>4. u # NULL => /\ entry[c][u].status = "WAITING"
                  /\ \A q \in Requests : Cancelling(q) => tx[q].heir[c] # u
  BY <1>2 DEF QueueHeads, Waiting, Locked
<1>5. ASSUME NEW q \in Requests, Cancels(q), u # NULL PROVE tx[q].heir[c] # u
  BY <1>4, <1>5 DEF QueueInv, ClaimsAreExclusive
<1>6. ClaimsAreExclusive'
  BY <1>1, <1>3, <1>4, <1>5 DEF QueueInv, ClaimsAreExclusive, Cancels, Cancelling
<1>7. OffersAreSound'
  <2>1. tx[r] # DoneTx  BY <1>1 DEF Cancelling, DoneTx
  <2> QED  BY <1>3, <2>1 DEF QueueInv, OffersAreSound
<1>8. OfferedOnce'
  BY <1>3 DEF QueueInv, OfferedOnce, OffersTo
<1> QED  BY <1>6, <1>7, <1>8 DEF QueueInv

\* Somebody new in the queue is claimed by nobody and has no offer.
LEMMA QueueInsertEntry ==
  ASSUME TypeOK, QueueInv, NEW c \in Categories, NEW u \in Users, InsertEntry(c, u)
  PROVE  QueueInv'
<1>1. /\ entry[c][u].status = "NONE" /\ entry'[c][u].status = "WAITING"
      /\ \A d \in Categories, v \in Users :
           ~ (d = c /\ v = u) => entry'[d][v] = entry[d][v]
      /\ UNCHANGED <<offer, tx>>
  BY DEF InsertEntry, TypeOK
<1>2. ClaimsAreExclusive'
  <2>1. ASSUME NEW r \in Requests, NEW d \in Categories,
               Cancels(r), tx[r].heir[d] # NULL
        PROVE  entry'[d][tx[r].heir[d]].status = "WAITING"
    <3>1. tx[r].heir[d] \in Users
      BY <2>1, TxShape DEF Cancels, CancelTx
    <3>2. entry[d][tx[r].heir[d]].status = "WAITING"
      BY <2>1 DEF QueueInv, ClaimsAreExclusive
    <3> QED  BY <1>1, <3>1, <3>2
  <2> QED  BY <1>1, <2>1 DEF QueueInv, ClaimsAreExclusive, Cancels, Cancelling
<1>3. OffersAreSound'
  BY <1>1 DEF QueueInv, OffersAreSound
<1>4. OfferedOnce'
  BY <1>1 DEF QueueInv, OfferedOnce, OffersTo
<1> QED  BY <1>2, <1>3, <1>4 DEF QueueInv

\* The claimed entries get one offer each, and nobody else gets one.
LEMMA QueueCancelBooking ==
  ASSUME TypeOK, QueueInv, NEW r \in Requests, CancelBooking(r)
  PROVE  QueueInv'
<1> DEFINE heir == tx[r].heir
           given(c) == InitialOffer(heir[c], SeatsToFree(tx[r].booking, c), tx[r].now)
<1>1. /\ tx[r] \in CancelTx /\ Cancels(r) /\ tx[r] # DoneTx
      /\ heir \in [Categories -> Users \cup {NULL}]
      /\ NULL \notin Users
  BY TxShape, StoreAssumption
  DEF CancelBooking, Cancelling, Cancels, CancelTx, DoneTx, StoreAssumption
<1>2. /\ tx'[r] = DoneTx /\ \A q \in Requests \ {r} : tx'[q] = tx[q]
      /\ \A q \in Requests \ {r} : offer'[q] = offer[q]
      /\ \A c \in Categories :
           offer'[r][c] = IF heir[c] = NULL THEN NoOffer ELSE given(c)
      /\ \A c \in Categories, u \in Users :
           entry'[c][u] = IF u = heir[c] THEN Marked(entry[c][u], "WAITING", "OFFERED")
                          ELSE entry[c][u]
  <2>1. \A c \in Categories : offer[r][c] = NoOffer
    BY <1>1 DEF QueueInv, OffersAreSound
  <2> QED  BY <2>1 DEF CancelBooking, Finish, TypeOK
<1>3. \A c \in Categories : /\ given(c).user = heir[c] /\ given(c).status = "PENDING"
                            /\ \A s \in given(c).seats : CategoryOf[s] = c
  BY DEF InitialOffer, SeatsToFree
<1>4. ASSUME NEW c \in Categories, heir[c] # NULL
      PROVE  /\ heir[c] \in Users
             /\ entry[c][heir[c]].status = "WAITING"
             /\ entry'[c][heir[c]].status = "OFFERED"
             /\ \A q \in Requests \ {r} : Cancels(q) => tx[q].heir[c] # heir[c]
  <2>1. heir[c] \in Users  BY <1>1, <1>4
  <2>2. /\ entry[c][heir[c]].status = "WAITING"
        /\ \A q \in Requests \ {r} : Cancels(q) => tx[q].heir[c] # heir[c]
    BY <1>1, <1>4 DEF QueueInv, ClaimsAreExclusive
  <2>3. entry[c][heir[c]] \in EntryRows  BY <2>1 DEF TypeOK
  <2> QED  BY <1>2, <2>1, <2>2, <2>3 DEF Marked, EntryRows
<1> HIDE DEF given, heir
<1>5. ClaimsAreExclusive'
  <2>1. ASSUME NEW q \in Requests, NEW c \in Categories,
               Cancels(q)', tx'[q].heir[c] # NULL
        PROVE  /\ Cancelling(q)'
               /\ entry'[c][tx'[q].heir[c]].status = "WAITING"
               /\ \A p \in Requests :
                    Cancels(p)' /\ tx'[p].heir[c] = tx'[q].heir[c] => p = q
    <3>1. q # r  BY <1>2, <2>1 DEF Cancels, DoneTx
    <3>2. Cancels(q) /\ tx'[q] = tx[q]  BY <1>2, <2>1, <3>1 DEF Cancels
    <3>3. tx[q].heir[c] \in Users
      BY <2>1, <3>2, TxShape DEF Cancels, CancelTx
    <3>4. tx[q].heir[c] # heir[c]
      BY <1>1, <1>4, <2>1, <3>1, <3>2, <3>3
    <3>5. entry'[c][tx[q].heir[c]] = entry[c][tx[q].heir[c]]
      BY <1>2, <3>3, <3>4
    <3>6. \A p \in Requests : Cancels(p)' => p # r /\ Cancels(p) /\ tx'[p] = tx[p]
      BY <1>2 DEF Cancels, DoneTx
    <3> QED
      BY <2>1, <3>2, <3>5, <3>6 DEF QueueInv, ClaimsAreExclusive, Cancelling
  <2> QED  BY <2>1 DEF ClaimsAreExclusive, Cancels, Cancelling
<1>6. OffersAreSound'
  <2>1. ASSUME NEW q \in Requests, NEW c \in Categories
        PROVE  /\ tx'[q] # DoneTx => offer'[q][c] = NoOffer
               /\ offer'[q][c].status = "NONE" <=> offer'[q][c].user = NULL
               /\ \A s \in offer'[q][c].seats : CategoryOf[s] = c
    <3>1. CASE q = r  BY <1>2, <1>3, <3>1 DEF NoOffer
    <3>2. CASE q # r  BY <1>2, <3>2 DEF QueueInv, OffersAreSound
    <3> QED  BY <3>1, <3>2
  <2>2. ASSUME NEW q \in Requests, tx'[q].pc = "accept"
        PROVE  offer'[tx'[q].by][tx'[q].category].status # "NONE"
    <3>1. q # r /\ tx'[q] = tx[q]  BY <1>2, <2>2 DEF DoneTx
    <3>2. /\ tx[q].by \in Requests /\ tx[q].category \in Categories
          /\ offer[tx[q].by][tx[q].category].status # "NONE"
      BY <2>2, <3>1, TxShape DEF AcceptTx, QueueInv, OffersAreSound
    <3>3. offer[r][tx[q].category].status = "NONE"
      BY <1>1, <3>2 DEF QueueInv, OffersAreSound, NoOffer
    <3> QED  BY <1>2, <3>1, <3>2, <3>3
  <2> QED  BY <2>1, <2>2 DEF OffersAreSound
<1>7. OfferedOnce'
  <2>1. ASSUME NEW c \in Categories, NEW u \in Users, u = heir[c]
        PROVE  /\ OffersTo(c, u)' = {r}
               /\ entry'[c][u].status = "OFFERED" /\ offer'[r][c].status = "PENDING"
    <3>1. heir[c] # NULL  BY <1>1, <2>1
    <3>2. OffersTo(c, u) = {}
      BY <1>4, <2>1, <3>1 DEF QueueInv, OfferedOnce
    <3> QED  BY <1>2, <1>3, <1>4, <2>1, <3>1, <3>2 DEF OffersTo
  <2>2. ASSUME NEW c \in Categories, NEW u \in Users, u # heir[c]
        PROVE  /\ OffersTo(c, u)' = OffersTo(c, u)
               /\ entry'[c][u] = entry[c][u]
               /\ \A q \in OffersTo(c, u) : offer'[q][c] = offer[q][c]
    <3>1. offer[r][c].user # u /\ offer'[r][c].user # u
      BY <1>1, <1>2, <1>3, <2>2 DEF QueueInv, OffersAreSound, NoOffer
    <3> QED  BY <1>2, <2>2, <3>1 DEF OffersTo
  <2>3. ASSUME NEW c \in Categories, NEW u \in Users
        PROVE  /\ \A p, q \in OffersTo(c, u)' : p = q
               /\ OffersTo(c, u)' # {} <=> entry'[c][u].status \in {"OFFERED", "CONVERTED"}
               /\ \A q \in OffersTo(c, u)' :
                    offer'[q][c].status = "ACCEPTED" <=> entry'[c][u].status = "CONVERTED"
    <3>1. CASE u = heir[c]  BY <2>1, <3>1
    <3>2. CASE u # heir[c]  BY <2>2, <3>2 DEF QueueInv, OfferedOnce
    <3> QED  BY <3>1, <3>2
  <2> QED  BY <2>3 DEF OfferedOnce
<1> QED  BY <1>5, <1>6, <1>7 DEF QueueInv

\* The offer and the entry it was made for change together.
LEMMA QueueAcceptOffer ==
  ASSUME TypeOK, QueueInv, NEW r \in Requests, AcceptOffer(r)
  PROVE  QueueInv'
<1> DEFINE by == tx[r].by
           c  == tx[r].category
           o  == offer[by][c]
           u  == o.user
<1>1. /\ tx[r] \in AcceptTx /\ by \in Requests /\ c \in Categories
      /\ tx[r] # DoneTx /\ o \in OfferRows /\ NULL \notin Users
  <2>1. tx[r] \in AcceptTx  BY TxShape DEF AcceptOffer
  <2> QED  BY <2>1, StoreAssumption DEF AcceptTx, DoneTx, TypeOK, StoreAssumption
<1>2. /\ o.status # "NONE" /\ u \in Users /\ by # r
      /\ by \in OffersTo(c, u)
  <2>1. o.status # "NONE"
    BY DEF AcceptOffer, QueueInv, OffersAreSound
  <2>2. u # NULL  BY <1>1, <2>1 DEF QueueInv, OffersAreSound
  <2>3. u \in Users  BY <1>1, <2>2 DEF OfferRows
  <2>4. by # r  BY <1>1, <2>1 DEF QueueInv, OffersAreSound, NoOffer
  <2> QED  BY <1>1, <2>1, <2>3, <2>4 DEF OffersTo
<1>3. /\ tx'[r] = DoneTx /\ \A q \in Requests \ {r} : tx'[q] = tx[q]
      /\ offer' = [offer EXCEPT ![by][c] = Marked(o, "PENDING", "ACCEPTED")]
      /\ entry' = [entry EXCEPT ![c][u] = Marked(entry[c][u], "OFFERED", "CONVERTED")]
  BY DEF AcceptOffer, Finish, TypeOK
<1>4. /\ entry[c][u] \in EntryRows
      /\ entry[c][u].status \in {"OFFERED", "CONVERTED"}
      /\ o.status = "ACCEPTED" <=> entry[c][u].status = "CONVERTED"
      /\ \A q \in OffersTo(c, u) : q = by
  <2>1. OfferedOnce /\ by \in OffersTo(c, u) /\ c \in Categories /\ u \in Users
    BY <1>1, <1>2 DEF QueueInv
  <2>2. offer[by][c] = o  OBVIOUS
  <2>3. entry[c][u] \in EntryRows  BY <2>1 DEF TypeOK
  <2> HIDE DEF u, o, c, by
  <2> QED  BY <2>1, <2>2, <2>3 DEF OfferedOnce
<1>5. o.status = "PENDING" \/ o.status = "ACCEPTED"
  BY <1>1, <1>2 DEF OfferRows
<1> HIDE DEF u, o, c, by
<1>6. /\ offer'[by][c].user = u /\ offer'[by][c].status = "ACCEPTED"
      /\ offer'[by][c].seats = o.seats
      /\ \A q \in Requests, d \in Categories :
           ~ (q = by /\ d = c) => offer'[q][d] = offer[q][d]
  <2>1. LET row == Marked(o, "PENDING", "ACCEPTED")
        IN  row.user = u /\ row.status = "ACCEPTED" /\ row.seats = o.seats
    BY <1>1, <1>5 DEF Marked, OfferRows, u
  <2>2. offer \in [Requests -> [Categories -> OfferRows]]  BY DEF TypeOK
  <2> QED  BY <1>1, <1>3, <2>1, <2>2
<1>7. /\ entry'[c][u].status = "CONVERTED"
      /\ \A d \in Categories, v \in Users :
           ~ (d = c /\ v = u) => entry'[d][v] = entry[d][v]
  <2>1. Marked(entry[c][u], "OFFERED", "CONVERTED").status = "CONVERTED"
    BY <1>4 DEF Marked, EntryRows
  <2>2. entry \in [Categories -> [Users -> EntryRows]]  BY DEF TypeOK
  <2> QED  BY <1>1, <1>2, <1>3, <2>1, <2>2
<1>8. ClaimsAreExclusive'
  <2>1. ASSUME NEW q \in Requests, NEW d \in Categories,
               Cancels(q)', tx'[q].heir[d] # NULL
        PROVE  /\ Cancelling(q)'
               /\ entry'[d][tx'[q].heir[d]].status = "WAITING"
               /\ \A p \in Requests :
                    Cancels(p)' /\ tx'[p].heir[d] = tx'[q].heir[d] => p = q
    <3>1. \A p \in Requests : Cancels(p)' => p # r /\ Cancels(p) /\ tx'[p] = tx[p]
      BY <1>3 DEF Cancels, DoneTx
    <3>2. Cancels(q) /\ tx'[q] = tx[q]  BY <2>1, <3>1
    <3>3. tx[q].heir[d] \in Users
      BY <2>1, <3>2, TxShape DEF Cancels, CancelTx
    <3>4. entry[d][tx[q].heir[d]].status = "WAITING"
      BY <2>1, <3>2 DEF QueueInv, ClaimsAreExclusive
    <3>5. entry'[d][tx[q].heir[d]] = entry[d][tx[q].heir[d]]
      BY <1>4, <1>7, <3>3, <3>4
    <3> QED
      BY <2>1, <3>1, <3>2, <3>4, <3>5 DEF QueueInv, ClaimsAreExclusive, Cancelling
  <2> QED  BY <2>1 DEF ClaimsAreExclusive, Cancels, Cancelling
<1>9. OffersAreSound'
  <2>1. ASSUME NEW q \in Requests, NEW d \in Categories
        PROVE  /\ tx'[q] # DoneTx => offer'[q][d] = NoOffer
               /\ offer'[q][d].status = "NONE" <=> offer'[q][d].user = NULL
               /\ \A s \in offer'[q][d].seats : CategoryOf[s] = d
    <3>1. CASE q = by /\ d = c
      <4>1. tx[by] = DoneTx /\ tx'[by] = DoneTx
        BY <1>1, <1>2, <1>3 DEF QueueInv, OffersAreSound, NoOffer, o
      <4>2. \A s \in o.seats : CategoryOf[s] = c
        BY <1>1 DEF QueueInv, OffersAreSound, o
      <4> QED  BY <1>1, <1>2, <1>6, <3>1, <4>1, <4>2
    <3>2. CASE ~ (q = by /\ d = c)
      <4>1. tx'[q] # DoneTx => tx[q] # DoneTx  BY <1>3
      <4>2. offer'[q][d] = offer[q][d]  BY <1>6, <3>2
      <4> QED  BY <4>1, <4>2 DEF QueueInv, OffersAreSound
    <3> QED  BY <3>1, <3>2
  <2>2. ASSUME NEW q \in Requests, tx'[q].pc = "accept"
        PROVE  offer'[tx'[q].by][tx'[q].category].status # "NONE"
    <3>1. q # r /\ tx'[q] = tx[q]  BY <1>3, <2>2 DEF DoneTx
    <3>2. /\ tx[q].by \in Requests /\ tx[q].category \in Categories
          /\ offer[tx[q].by][tx[q].category].status # "NONE"
      BY <2>2, <3>1, TxShape DEF AcceptTx, QueueInv, OffersAreSound
    <3> QED  BY <1>6, <3>1, <3>2
  <2> QED  BY <2>1, <2>2 DEF OffersAreSound
<1>10. OfferedOnce'
  <2>1. \A d \in Categories, v \in Users : OffersTo(d, v)' = OffersTo(d, v)
    BY <1>6 DEF OffersTo, u, o
  <2>2. ASSUME NEW d \in Categories, NEW v \in Users
        PROVE  /\ \A p, q \in OffersTo(d, v) : p = q
               /\ OffersTo(d, v) # {} <=> entry'[d][v].status \in {"OFFERED", "CONVERTED"}
               /\ \A q \in OffersTo(d, v) :
                    offer'[q][d].status = "ACCEPTED" <=> entry'[d][v].status = "CONVERTED"
    <3>1. CASE d = c /\ v = u
      BY <1>2, <1>4, <1>6, <1>7, <3>1
    <3>2. CASE ~ (d = c /\ v = u)
      <4>1. \A q \in OffersTo(d, v) : offer'[q][d] = offer[q][d] /\ q \in Requests
        BY <1>6, <3>2 DEF OffersTo, u, o
      <4> QED  BY <1>7, <3>2, <4>1 DEF QueueInv, OfferedOnce
    <3> QED  BY <3>1, <3>2
  <2> QED  BY <2>1, <2>2 DEF OfferedOnce
<1> QED  BY <1>8, <1>9, <1>10 DEF QueueInv

LEMMA QueueNext ==
  ASSUME IInv, QueueInv, [Next]_vars
  PROVE  QueueInv'
<1>1. TypeOK  BY DEF IInv
<1>2. ASSUME UNCHANGED <<tx, entry, offer>> PROVE QueueInv'
  BY <1>2 DEF QueueInv, ClaimsAreExclusive, Cancels, Cancelling, OffersAreSound,
              OfferedOnce, OffersTo
<1>3. ASSUME NEW r \in Requests, Progress(r) PROVE QueueInv'
  <2>1. CASE CreateHold(r) \/ RefuseHold(r) \/ ConfirmBooking(r) \/ RefuseConfirm(r)
               \/ RefuseAccept(r) \/ Rollback(r)
    BY <1>1, <2>1, QueueEnd
    DEF CreateHold, RefuseHold, ConfirmBooking, RefuseConfirm, RefuseAccept, Rollback,
        tables
  <2>2. CASE ReadHoldSeats(r)
    <3>1. tx[r] \in ConfirmTx  BY <1>1, <2>2, TxShape DEF ReadHoldSeats
    <3>2. /\ tx[r] # DoneTx /\ tx'[r].pc \in {"done", "checkedOut"}
          /\ \A q \in Requests \ {r} : tx'[q] = tx[q]
          /\ UNCHANGED <<entry, offer>>
      BY <1>1, <2>2, <3>1 DEF ReadHoldSeats, ConfirmTx, DoneTx, TypeOK, tables
    <3> QED  BY <1>1, <3>2, QueueUntouched DEF Cancels
  <2>3. CASE \E c \in Categories : ClaimHeir(r, c)
    BY <1>1, <2>3, QueueClaimHeir
  <2> QED
    BY <1>1, <1>3, <2>1, <2>2, <2>3, QueueLockBooking, QueueCancelBooking,
       QueueAcceptOffer
    DEF Progress
<1>4. ASSUME NEW c \in Categories, NEW u \in Users, Join(c, u) PROVE QueueInv'
  BY <1>1, <1>2, <1>4, QueueInsertEntry
  DEF Join, CheckJoin, RefuseEntry, ReadPosition, tables
<1>5. ASSUME NEW h \in Requests, ReleaseHold(h) PROVE QueueInv'
  BY <1>2, <1>5 DEF ReleaseHold
<1>6. CASE Tick  BY <1>2, <1>6 DEF Tick, tables
<1>7. CASE UNCHANGED vars  BY <1>2, <1>7 DEF vars
<1> QED  BY <1>1, <1>3, <1>4, <1>5, <1>6, <1>7, QueueArrive DEF Next

-----------------------------------------------------------------------------
(* The reserved seats.                                                     *)

\* Whoever else writes seats reserves none.
LEMMA BackedUntouched ==
  ASSUME ReservationsAreBacked, UNCHANGED offer,
         \A s \in Seats : seat'[s] = seat[s] \/ seat'[s].state # "OFFER_RESERVED"
  PROVE  ReservationsAreBacked'
BY DEF ReservationsAreBacked, Backs

\* Every seat a cancellation reserves is in the offer it makes for its category,
\* with the same deadline.
LEMMA BackedCancelBooking ==
  ASSUME TypeOK, OffersAreSound, ReservationsAreBacked, NEW r \in Requests,
         CancelBooking(r)
  PROVE  ReservationsAreBacked'
<1> DEFINE b   == tx[r].booking
           now == tx[r].now
           heir(c) == tx[r].heir[c]
           given(c) == InitialOffer(heir(c), SeatsToFree(b, c), now)
<1>1. /\ tx[r] \in CancelTx /\ tx[r] # DoneTx /\ now \in Nat
      /\ \A s \in Seats : CategoryOf[s] \in Categories /\ seat[s] \in SeatRows
  BY TxShape, StoreAssumption
  DEF CancelBooking, Cancelling, CancelTx, DoneTx, StoreAssumption, TypeOK
<1>2. \A s \in Seats :
        seat'[s] = IF s \notin BookedUnder(b) THEN seat[s]
                   ELSE IF heir(CategoryOf[s]) = NULL THEN ReturnedRow(seat[s])
                   ELSE OfferReservedRow(seat[s], now)
  BY DEF CancelBooking
<1>3. /\ \A q \in Requests \ {r} : offer'[q] = offer[q]
      /\ \A c \in Categories : heir(c) # NULL => offer'[r][c] = given(c)
  BY DEF CancelBooking, TypeOK
<1> HIDE DEF b, now, heir
<1>4. ASSUME NEW s \in Seats, seat'[s].state = "OFFER_RESERVED"
      PROVE  /\ \E q \in Requests : Backs(q, s)'
             /\ \E t \in Nat : /\ seat'[s].expiresAt = t + OfferTTL
                               /\ seat'[s].reservedUntil = t + ReservedFor
  <2> DEFINE c == CategoryOf[s]
  <2>1. CASE s \notin BookedUnder(b)
    <3>1. seat'[s] = seat[s]  BY <1>2, <2>1
    <3>2. PICK q \in Requests : Backs(q, s)
      BY <1>4, <3>1 DEF ReservationsAreBacked
    <3>3. q # r
      BY <1>1, <3>2 DEF Backs, OffersAreSound, NoOffer
    <3>4. Backs(q, s)'  BY <1>3, <3>1, <3>2, <3>3 DEF Backs
    <3> QED  BY <1>4, <3>1, <3>4 DEF ReservationsAreBacked
  <2>2. CASE s \in BookedUnder(b)
    <3>1. /\ heir(c) # NULL
          /\ seat'[s] = OfferReservedRow(seat[s], now)
      BY <1>1, <1>2, <1>4, <2>2, Columns
    <3>2. /\ seat'[s].expiresAt = now + OfferTTL
          /\ seat'[s].reservedUntil = now + ReservedFor
      BY <1>1, <3>1 DEF OfferReservedRow, SeatRows
    <3>3. /\ given(c).status = "PENDING" /\ given(c).expiresAt = now + OfferTTL
          /\ s \in given(c).seats
      BY <2>2 DEF InitialOffer, SeatsToFree
    <3>4. Backs(r, s)'  BY <1>1, <1>3, <3>1, <3>2, <3>3 DEF Backs
    <3> QED  BY <1>1, <3>2, <3>4
  <2> QED  BY <2>1, <2>2
<1> QED  BY <1>4 DEF ReservationsAreBacked

\* An acceptance that passes the count leaves no seat of its offer reserved.
LEMMA BackedAcceptOffer ==
  ASSUME TypeOK, ReservationsAreBacked, NEW r \in Requests, AcceptOffer(r)
  PROVE  ReservationsAreBacked'
<1> DEFINE by == tx[r].by
           c  == tx[r].category
           S  == offer[by][c].seats
<1>1. /\ by \in Requests /\ c \in Categories /\ S \in SUBSET Seats
      /\ \A s \in Seats : CategoryOf[s] \in Categories /\ seat[s] \in SeatRows
  <2>1. by \in Requests /\ c \in Categories
    BY TxShape DEF AcceptOffer, AcceptTx
  <2>2. offer[by][c] \in OfferRows  BY <2>1 DEF TypeOK
  <2> QED
    BY <2>1, <2>2, StoreAssumption DEF OfferRows, TypeOK, StoreAssumption
<1>2. StillReserved(S, tx[r].now) = S
  <2>1. /\ Complete(StillReserved(S, tx[r].now), S)
        /\ StillReserved(S, tx[r].now) \in SUBSET S
    BY DEF AcceptOffer, StillReserved
  <2> HIDE DEF S
  <2> QED  BY <1>1, <2>1, NoShortfall
<1>3. \A s \in Seats : seat'[s] = IF s \in S THEN OfferBookedRow(seat[s], r) ELSE seat[s]
  BY <1>2 DEF AcceptOffer
<1>4. \A q \in Requests, d \in Categories :
        ~ (q = by /\ d = c) => offer'[q][d] = offer[q][d]
  BY <1>1 DEF AcceptOffer, TypeOK
<1>5. ASSUME NEW s \in Seats, seat'[s].state = "OFFER_RESERVED"
      PROVE  /\ \E q \in Requests : Backs(q, s)'
             /\ \E t \in Nat : /\ seat'[s].expiresAt = t + OfferTTL
                               /\ seat'[s].reservedUntil = t + ReservedFor
  <2>1. s \notin S /\ seat'[s] = seat[s]
    BY <1>1, <1>3, <1>5, Columns, 0 \in Nat
  <2>2. PICK q \in Requests : Backs(q, s)
    BY <1>5, <2>1 DEF ReservationsAreBacked
  <2>3. ~ (q = by /\ CategoryOf[s] = c)  BY <2>1, <2>2 DEF Backs
  <2>4. Backs(q, s)'  BY <1>1, <1>4, <2>1, <2>2, <2>3 DEF Backs
  <2> QED  BY <1>5, <2>1, <2>4 DEF ReservationsAreBacked
<1> QED  BY <1>5 DEF ReservationsAreBacked

LEMMA BackedNext ==
  ASSUME WInv, [Next]_vars
  PROVE  ReservationsAreBacked'
<1>1. /\ TypeOK /\ OffersAreSound /\ ReservationsAreBacked
      /\ \A s \in Seats : seat[s] \in SeatRows
  BY DEF WInv, IInv, QueueInv, TypeOK
<1>2. ASSUME UNCHANGED <<seat, offer>> PROVE ReservationsAreBacked'
  BY <1>1, <1>2, BackedUntouched
<1>3. ASSUME NEW r \in Requests, CreateHold(r) PROVE ReservationsAreBacked'
  <2>1. \A s \in Seats : \/ seat'[s] = seat[s]
                         \/ seat'[s] = HeldRow(seat[s], r, tx[r].now + HoldTTL)
    BY <1>3 DEF CreateHold
  <2> QED  BY <1>1, <1>3, <2>1, Columns, BackedUntouched DEF CreateHold
<1>4. ASSUME NEW r \in Requests, ConfirmBooking(r) PROVE ReservationsAreBacked'
  <2>1. \A s \in Seats : seat'[s] = seat[s] \/ seat'[s] = BookedRow(seat[s], r)
    BY <1>4 DEF ConfirmBooking
  <2> QED  BY <1>1, <1>4, <2>1, Columns, 0 \in Nat, BackedUntouched DEF ConfirmBooking
<1>5. ASSUME NEW h \in Requests, ReleaseHold(h) PROVE ReservationsAreBacked'
  <2>1. \A s \in Seats : seat'[s] = seat[s] \/ seat'[s] = ReleasedRow(seat[s])
    BY <1>5 DEF ReleaseHold
  <2> QED  BY <1>1, <1>5, <2>1, Columns, 0 \in Nat, BackedUntouched DEF ReleaseHold
<1>6. ASSUME NEW r \in Requests, Progress(r) PROVE ReservationsAreBacked'
  <2>1. CASE \/ RefuseHold(r) \/ ReadHoldSeats(r) \/ RefuseConfirm(r) \/ LockBooking(r)
             \/ (\E c \in Categories : ClaimHeir(r, c)) \/ RefuseAccept(r)
             \/ Rollback(r)
    BY <1>2, <2>1
    DEF RefuseHold, ReadHoldSeats, RefuseConfirm, LockBooking, ClaimHeir, RefuseAccept,
        Rollback, tables
  <2> QED
    BY <1>1, <1>3, <1>4, <1>6, <2>1, BackedCancelBooking, BackedAcceptOffer
    DEF Progress
<1>7. ASSUME NEW r \in Requests, Arrive(r) PROVE ReservationsAreBacked'
  BY <1>2, <1>7
  DEF Arrive, BeginHold, BeginConfirm, BeginCancel, BeginAccept, Begin, tables
<1>8. ASSUME NEW c \in Categories, NEW u \in Users, Join(c, u)
      PROVE  ReservationsAreBacked'
  BY <1>2, <1>8 DEF Join, CheckJoin, InsertEntry, RefuseEntry, ReadPosition, tables
<1>9. CASE Tick  BY <1>2, <1>9 DEF Tick, tables
<1>10. CASE UNCHANGED vars  BY <1>2, <1>10 DEF vars
<1> QED  BY <1>5, <1>6, <1>7, <1>8, <1>9, <1>10 DEF Next

-----------------------------------------------------------------------------
LEMMA AlwaysWInv == Spec => []WInv
<1>1. Init => WInv  BY IInvInit, QueueInit DEF WInv
<1>2. WInv /\ [Next]_vars => WInv'
  BY IInvNext, QueueNext, BackedNext DEF WInv
<1> QED  BY <1>1, <1>2, PTL DEF Spec

\* The entry's status and the offers made for it agree, and no number of
\* concurrent cancellations offers one entry two sets of seats
\* (claimNextWaitingEntry's SKIP LOCKED, markEntryOffered).
THEOREM OffersAreMadeOnce == Spec => []OfferedOnce
<1>1. WInv => OfferedOnce  BY DEF WInv, QueueInv
<1> QED  BY AlwaysWInv, <1>1, PTL

\* Whatever cancels, waits and accepts, a reserved seat has somebody it is
\* reserved for, in its own category (cancelBooking's single transaction).
THEOREM ReservationsHaveOwners == Spec => []ReservedForSomeone
<1>1. ASSUME WInv PROVE ReservedForSomeone
  <2>1. ASSUME NEW s \in Seats, seat[s].state = "OFFER_RESERVED"
        PROVE  \E r \in Requests, u \in Users :
                 /\ <<r, CategoryOf[s]>> \in OffersFor(s)
                 /\ offer[r][CategoryOf[s]].user = u
                 /\ entry[CategoryOf[s]][u].status = "OFFERED"
    <3> DEFINE c == CategoryOf[s]
    <3>1. PICK r \in Requests : Backs(r, s)
      BY <1>1, <2>1 DEF WInv, ReservationsAreBacked
    <3>2. c \in Categories  BY StoreAssumption DEF StoreAssumption
    <3>3. offer[r][c] \in OfferRows  BY <1>1, <3>2 DEF WInv, IInv, TypeOK
    <3> DEFINE u == offer[r][c].user
    <3>4. u # NULL
      BY <1>1, <3>1, <3>2 DEF WInv, QueueInv, OffersAreSound, Backs
    <3>5. u \in Users  BY <3>3, <3>4 DEF OfferRows
    <3>6. r \in OffersTo(c, u)  BY DEF OffersTo
    <3>7. entry[c][u].status = "OFFERED"
      <4>1. OfferedOnce /\ offer[r][c].status = "PENDING"
        BY <1>1, <3>1 DEF WInv, QueueInv, Backs
      <4> HIDE DEF c, u
      <4> QED  BY <4>1, <3>2, <3>5, <3>6 DEF OfferedOnce
    <3>8. <<r, c>> \in OffersFor(s)  BY <3>1, <3>2 DEF OffersFor, Backs
    <3> QED  BY <3>5, <3>7, <3>8
  <2>2. ASSUME NEW s \in Seats, NEW o \in OffersFor(s) PROVE o[2] = CategoryOf[s]
    BY <1>1, <2>2 DEF WInv, QueueInv, OffersAreSound, OffersFor
  <2> QED  BY <2>1, <2>2 DEF ReservedForSomeone
<1> QED  BY AlwaysWInv, <1>1, PTL

-----------------------------------------------------------------------------
(* The steps.                                                              *)

\* Which row each statement may find, and what it makes of it.
Moves(from, to) ==
  \/ from = "AVAILABLE" /\ to = "HELD"
  \/ from = "HELD" /\ to \in {"AVAILABLE", "BOOKED"}
  \/ from = "BOOKED" /\ to \in {"AVAILABLE", "OFFER_RESERVED"}
  \/ from = "OFFER_RESERVED" /\ to = "BOOKED"

\* The one move from a stored state that the graph does not have: a lapsed row is
\* reclaimed, past all its deadlines.
Reclaims(s) ==
  /\ seat'[s].state = "HELD"
  /\ \/ seat[s].state = "HELD" /\ seat[s].expiresAt <= clock
     \/ seat[s].state = "OFFER_RESERVED" /\ seat[s].reservedUntil <= clock

LEMMA SeatSteps ==
  ASSUME WInv, [Next]_vars, NEW s \in Seats, seat'[s] # seat[s]
  PROVE  Moves(seat[s].state, seat'[s].state) \/ Reclaims(s)
<1>1. TypeOK /\ seat[s] \in SeatRows  BY DEF WInv, IInv, TypeOK
<1>2. ASSUME NEW r \in Requests, CreateHold(r)
      PROVE  Moves(seat[s].state, seat'[s].state) \/ Reclaims(s)
  <2> DEFINE now == tx[r].now
  <2>1. now \in Nat /\ now <= clock /\ clock \in Nat
    <3>1. tx[r] \in HoldTx  BY <1>1, <1>2, TxShape DEF CreateHold
    <3>2. Sound(r)  BY DEF WInv, IInv, ReadsStaySound, Sound
    <3>3. InFlight(r)  BY <3>1 DEF InFlight, HoldTx, NewTx, DoneTx
    <3> QED  BY <1>1, <3>1, <3>2, <3>3 DEF Sound, HoldTx, TypeOK
  <2>2. /\ Acquirable(seat[s], now)
        /\ seat'[s] = HeldRow(seat[s], r, now + HoldTTL)
    BY <1>2 DEF CreateHold, Acquired
  <2>3. seat'[s].state = "HELD"  BY <1>1, <2>2, Columns
  <2>4. CASE seat[s].state = "AVAILABLE"  BY <2>3, <2>4 DEF Moves
  <2>5. CASE seat[s].state = "HELD" /\ seat[s].expiresAt <= now
    <3>1. PICK h \in Requests : seat[s].expiresAt = hold[h].expiresAt
      BY <2>5 DEF WInv, IInv, HeldRowsHaveTheirHold
    <3>2. seat[s].expiresAt \in Nat  BY <1>1, <3>1 DEF TypeOK, HoldRows
    <3> QED  BY <2>1, <2>3, <2>5, <3>2 DEF Reclaims
  <2>6. CASE seat[s].state = "OFFER_RESERVED" /\ seat[s].reservedUntil <= now
    <3>1. seat[s].reservedUntil \in Nat
      BY <2>6, StoreAssumption
      DEF WInv, ReservationsAreBacked, ReservedFor, StoreAssumption
    <3> QED  BY <2>1, <2>3, <2>6, <3>1 DEF Reclaims
  <2> QED  BY <2>2, <2>4, <2>5, <2>6 DEF Acquirable
<1>3. ASSUME NEW r \in Requests, ConfirmBooking(r)
      PROVE  Moves(seat[s].state, seat'[s].state)
  <2>1. /\ seat[s].state = "HELD" /\ seat'[s] = BookedRow(seat[s], r)
    BY <1>3 DEF ConfirmBooking, Confirmable, HeldUnder
  <2> QED  BY <1>1, <2>1, Columns, 0 \in Nat DEF Moves
<1>4. ASSUME NEW h \in Requests, ReleaseHold(h)
      PROVE  Moves(seat[s].state, seat'[s].state)
  <2>1. seat[s].state = "HELD" /\ seat'[s] = ReleasedRow(seat[s])
    BY <1>4 DEF ReleaseHold, HeldUnder
  <2> QED  BY <1>1, <2>1, Columns, 0 \in Nat DEF Moves
<1>5. ASSUME NEW r \in Requests, CancelBooking(r)
      PROVE  Moves(seat[s].state, seat'[s].state)
  <2>1. /\ seat[s].state = "BOOKED"
        /\ \/ seat'[s] = ReturnedRow(seat[s])
           \/ seat'[s] = OfferReservedRow(seat[s], tx[r].now)
    BY <1>5 DEF CancelBooking, BookedUnder
  <2> QED  BY <1>1, <2>1, Columns DEF Moves
<1>6. ASSUME NEW r \in Requests, AcceptOffer(r)
      PROVE  Moves(seat[s].state, seat'[s].state)
  <2>1. seat[s].state = "OFFER_RESERVED" /\ seat'[s] = OfferBookedRow(seat[s], r)
    BY <1>6 DEF AcceptOffer, StillReserved
  <2> QED  BY <1>1, <2>1, Columns, 0 \in Nat DEF Moves
<1>7. ASSUME UNCHANGED seat PROVE FALSE  BY <1>7
<1>8. ASSUME NEW r \in Requests, Progress(r)
      PROVE  Moves(seat[s].state, seat'[s].state) \/ Reclaims(s)
  <2>1. CASE \/ RefuseHold(r) \/ ReadHoldSeats(r) \/ RefuseConfirm(r) \/ LockBooking(r)
             \/ (\E c \in Categories : ClaimHeir(r, c)) \/ RefuseAccept(r)
             \/ Rollback(r)
    BY <1>7, <2>1
    DEF RefuseHold, ReadHoldSeats, RefuseConfirm, LockBooking, ClaimHeir, RefuseAccept,
        Rollback, tables
  <2> QED  BY <1>2, <1>3, <1>5, <1>6, <1>8, <2>1 DEF Progress
<1>9. CASE \E r \in Requests : Arrive(r)
  BY <1>7, <1>9
  DEF Arrive, BeginHold, BeginConfirm, BeginCancel, BeginAccept, Begin, tables
<1>10. CASE \E c \in Categories, u \in Users : Join(c, u)
  BY <1>7, <1>10 DEF Join, CheckJoin, InsertEntry, RefuseEntry, ReadPosition, tables
<1>11. CASE Tick  BY <1>7, <1>11 DEF Tick, tables
<1>12. CASE UNCHANGED vars  BY <1>7, <1>12 DEF vars
<1> QED  BY <1>4, <1>8, <1>9, <1>10, <1>11, <1>12 DEF Next

LEMMA LegalStep ==
  ASSUME WInv, [Next]_vars, NEW s \in Seats, seat'[s] # seat[s]
  PROVE  \E from \in {seat[s].state, EffectiveState(seat[s], clock)} :
           LegalTransition(from, seat'[s].state)
<1>1. CASE Moves(seat[s].state, seat'[s].state)
  BY <1>1 DEF Moves, LegalTransition, SEAT_TRANSITIONS
<1>2. CASE Reclaims(s)
  <2>1. EffectiveState(seat[s], clock) = "AVAILABLE"
    BY <1>2 DEF Reclaims, EffectiveState
  <2> QED  BY <1>2, <2>1 DEF Reclaims, LegalTransition, SEAT_TRANSITIONS
<1> QED  BY <1>1, <1>2, SeatSteps

\* A reserved row is reclaimed after reserved_until, which lies MaxCascade - 1
\* offers and a grace period behind the offer's own deadline.
LEMMA PatientStep ==
  ASSUME WInv, [Next]_vars, NEW s \in Seats,
         seat[s].state = "OFFER_RESERVED", seat'[s].state = "HELD"
  PROVE  clock >= seat[s].expiresAt + OfferTTL * (MaxCascade - 1)
<1>1. Reclaims(s)
  <2>1. seat'[s] # seat[s]  OBVIOUS
  <2> QED  BY <2>1, SeatSteps DEF Moves
<1>2. seat[s].reservedUntil <= clock  BY <1>1 DEF Reclaims
<1>3. PICK now \in Nat : /\ seat[s].expiresAt = now + OfferTTL
                         /\ seat[s].reservedUntil = now + ReservedFor
  BY DEF WInv, ReservationsAreBacked
<1>4. clock \in Nat /\ OfferTTL \in Nat /\ MaxCascade \in Nat /\ Grace \in Nat
  BY StoreAssumption DEF WInv, IInv, TypeOK, StoreAssumption
<1>5. OfferTTL * (MaxCascade - 1) = OfferTTL * MaxCascade - OfferTTL
      /\ OfferTTL * MaxCascade \in Nat
  BY <1>4
<1> QED  BY <1>2, <1>3, <1>4, <1>5 DEF ReservedFor

\* Every statement that rewrites a show_seats row follows the graph of
\* shared/seatStates.js, the lazy reclaims from the state everybody is shown.
THEOREM MovesAreLegal == Spec => SeatsMoveLegally
<1>1. ASSUME WInv, [Next]_vars
      PROVE  [\A s \in Seats : seat'[s] # seat[s] =>
                \E from \in {seat[s].state, EffectiveState(seat[s], clock)} :
                  LegalTransition(from, seat'[s].state)]_vars
  BY <1>1, LegalStep
<1> QED  BY AlwaysWInv, <1>1, PTL DEF Spec, SeatsMoveLegally

\* D-14 for any number of cascade attempts: the public takes a reserved seat only
\* when all of them could have been over (transitionBookedSeatsToOfferReserved,
\* acquireSeats).
THEOREM ReservationsAreRespected == Spec => PublicNeverSnipesReserved
<1>1. ASSUME WInv, [Next]_vars
      PROVE  [\A s \in Seats :
                seat[s].state = "OFFER_RESERVED" /\ seat'[s].state = "HELD" =>
                  \A r \in Requests, c \in Categories :
                    s \in offer[r][c].seats /\ offer[r][c].expiresAt = seat[s].expiresAt =>
                      clock >= offer[r][c].expiresAt + OfferTTL * (MaxCascade - 1)]_vars
  BY <1>1, PatientStep
<1> QED  BY AlwaysWInv, <1>1, PTL DEF Spec, PublicNeverSnipesReserved

-----------------------------------------------------------------------------
(* SeatSale.  A sale is of some seats: an offer never is of none, because   *)
(* the booking whose seats were there when the heir was claimed is locked   *)
(* until they are handed over.                                              *)

LocksAreExclusive ==
  \A q, r \in Requests :
    Cancelling(q) /\ Cancelling(r) /\ tx[q].booking = tx[r].booking => q = r

ClaimsHaveSeats ==
  \A r \in Requests, c \in Categories :
    Cancelling(r) /\ tx[r].heir[c] # NULL => SeatsToFree(tx[r].booking, c) # {}

OffersHaveSeats ==
  \A r \in Requests, c \in Categories :
    offer[r][c].status # "NONE" => offer[r][c].seats # {}

HandoverInv == LocksAreExclusive /\ ClaimsHaveSeats /\ OffersHaveSeats

SInv == WInv /\ HandoverInv

LEMMA HandoverInit == Init => HandoverInv
BY DEF Init, HandoverInv, LocksAreExclusive, ClaimsHaveSeats, OffersHaveSeats,
       Cancelling, NewTx, NoOffer

\* Only a cancellation takes a seat from a booking, and no cancellation but its
\* own is stopped or moved by what others do.
LEMMA HandoverUntouched ==
  ASSUME HandoverInv,
         \A q \in Requests : Cancelling(q)' => Cancelling(q) /\ tx'[q] = tx[q],
         \A s \in Seats : seat[s].state = "BOOKED" => seat'[s] = seat[s],
         \A q \in Requests, c \in Categories :
           /\ offer'[q][c].seats = offer[q][c].seats
           /\ offer[q][c].status = "NONE" => offer'[q][c].status = "NONE"
  PROVE  HandoverInv'
<1>1. LocksAreExclusive'
  BY DEF HandoverInv, LocksAreExclusive, Cancelling
<1>2. ClaimsHaveSeats'
  <2>1. ASSUME NEW r \in Requests, NEW c \in Categories,
               Cancelling(r)', tx'[r].heir[c] # NULL
        PROVE  SeatsToFree(tx[r].booking, c)' # {}
    <3>1. Cancelling(r) /\ tx'[r] = tx[r]  BY <2>1
    <3>2. SeatsToFree(tx[r].booking, c) # {}
      BY <2>1, <3>1 DEF HandoverInv, ClaimsHaveSeats
    <3> QED  BY <3>1, <3>2 DEF SeatsToFree, BookedUnder
  <2> QED  BY <2>1 DEF ClaimsHaveSeats, Cancelling, SeatsToFree, BookedUnder
<1>3. OffersHaveSeats'
  BY DEF HandoverInv, OffersHaveSeats
<1> QED  BY <1>1, <1>2, <1>3 DEF HandoverInv

LEMMA HandoverLockBooking ==
  ASSUME SInv, NEW r \in Requests, LockBooking(r)
  PROVE  HandoverInv'
<1>1. TypeOK /\ tx[r] \in CancelTx /\ tx[r].pc = "cancel"
  BY TxShape DEF SInv, WInv, IInv, LockBooking
<1>2. /\ tx'[r].heir = tx[r].heir /\ tx'[r].booking = tx[r].booking
      /\ \A q \in Requests \ {r} : tx'[q] = tx[q]
      /\ \A q \in Requests : Cancelling(q) => tx[q].booking # tx[r].booking
      /\ UNCHANGED <<seat, offer>>
  BY <1>1 DEF LockBooking, CancelTx, TypeOK, tables
<1>3. \A c \in Categories : tx[r].heir[c] = NULL
  BY <1>1 DEF SInv, WInv, QueueInv, ClaimsAreExclusive, Cancels, Cancelling
<1> QED
  BY <1>2, <1>3
  DEF SInv, HandoverInv, LocksAreExclusive, ClaimsHaveSeats, OffersHaveSeats, Cancelling,
      SeatsToFree, BookedUnder

LEMMA HandoverClaimHeir ==
  ASSUME SInv, NEW r \in Requests, NEW c \in Categories, ClaimHeir(r, c)
  PROVE  HandoverInv'
<1>1. TypeOK /\ tx[r] \in CancelTx /\ Cancelling(r)
  BY TxShape DEF SInv, WInv, IInv, ClaimHeir, Cancelling
<1>2. PICK u : tx' = [tx EXCEPT ![r].decided = @ \cup {c}, ![r].heir[c] = u]
  BY DEF ClaimHeir
<1>3. /\ tx'[r].booking = tx[r].booking
      /\ \A d \in Categories : d # c => tx'[r].heir[d] = tx[r].heir[d]
      /\ \A q \in Requests \ {r} : tx'[q] = tx[q]
      /\ SeatsToFree(tx[r].booking, c) # {}
      /\ UNCHANGED <<seat, offer>>
  BY <1>1, <1>2 DEF ClaimHeir, CancelTx, TypeOK, tables
<1> QED
  BY <1>1, <1>3
  DEF SInv, HandoverInv, LocksAreExclusive, ClaimsHaveSeats, OffersHaveSeats, Cancelling,
      SeatsToFree, BookedUnder

LEMMA HandoverCancelBooking ==
  ASSUME SInv, NEW r \in Requests, CancelBooking(r)
  PROVE  HandoverInv'
<1> DEFINE b == tx[r].booking
           given(c) == InitialOffer(tx[r].heir[c], SeatsToFree(b, c), tx[r].now)
<1>1. TypeOK /\ tx[r] \in CancelTx /\ Cancelling(r)
  BY TxShape DEF SInv, WInv, IInv, CancelBooking, Cancelling
<1>2. /\ \A q \in Requests : Cancelling(q)' =>
           Cancelling(q) /\ tx'[q] = tx[q] /\ q # r /\ tx[q].booking # b
      /\ \A s \in Seats : s \notin BookedUnder(b) => seat'[s] = seat[s]
  <2>1. tx'[r] = DoneTx /\ \A q \in Requests \ {r} : tx'[q] = tx[q]
    BY <1>1 DEF CancelBooking, Finish, TypeOK
  <2>2. \A q \in Requests \ {r} : Cancelling(q) => tx[q].booking # b
    BY <1>1 DEF SInv, HandoverInv, LocksAreExclusive
  <2> QED  BY <2>1, <2>2 DEF Cancelling, DoneTx, CancelBooking
<1>3. LocksAreExclusive'
  BY <1>2 DEF SInv, HandoverInv, LocksAreExclusive, Cancelling
<1>4. ClaimsHaveSeats'
  <2>1. ASSUME NEW q \in Requests, NEW c \in Categories,
               Cancelling(q)', tx'[q].heir[c] # NULL
        PROVE  SeatsToFree(tx[q].booking, c)' # {}
    <3>1. Cancelling(q) /\ tx'[q] = tx[q] /\ tx[q].booking # b  BY <1>2, <2>1
    <3>2. SeatsToFree(tx[q].booking, c) # {}
      BY <2>1, <3>1 DEF SInv, HandoverInv, ClaimsHaveSeats
    <3> QED  BY <1>2, <3>1, <3>2 DEF SeatsToFree, BookedUnder
  <2> QED  BY <2>1 DEF ClaimsHaveSeats, Cancelling, SeatsToFree, BookedUnder
<1>5. OffersHaveSeats'
  <2>1. \A q \in Requests \ {r} : offer'[q] = offer[q]
    BY DEF CancelBooking, TypeOK
  <2>2. ASSUME NEW c \in Categories, offer'[r][c].status # "NONE"
        PROVE  offer'[r][c].seats # {}
    <3>1. offer'[r][c] = IF tx[r].heir[c] = NULL THEN offer[r][c] ELSE given(c)
      BY <1>1 DEF CancelBooking, TypeOK
    <3>2. CASE tx[r].heir[c] = NULL
      BY <2>2, <3>1, <3>2 DEF SInv, HandoverInv, OffersHaveSeats
    <3>3. CASE tx[r].heir[c] # NULL
      <4>1. SeatsToFree(b, c) # {}
        BY <1>1, <3>3 DEF SInv, HandoverInv, ClaimsHaveSeats
      <4> QED  BY <3>1, <3>3, <4>1 DEF InitialOffer
    <3> QED  BY <3>2, <3>3
  <2> QED  BY <2>1, <2>2 DEF SInv, HandoverInv, OffersHaveSeats
<1> QED  BY <1>3, <1>4, <1>5 DEF HandoverInv

LEMMA HandoverNext ==
  ASSUME SInv, [Next]_vars
  PROVE  HandoverInv'
<1>1. TypeOK /\ HandoverInv  BY DEF SInv, WInv, IInv
<1>2. ASSUME NEW r \in Requests, tx'[r].pc # "cancelling",
             \A q \in Requests \ {r} : tx'[q] = tx[q],
             \A s \in Seats : seat[s].state = "BOOKED" => seat'[s] = seat[s],
             \A q \in Requests, c \in Categories :
               /\ offer'[q][c].seats = offer[q][c].seats
               /\ offer[q][c].status = "NONE" => offer'[q][c].status = "NONE"
      PROVE  HandoverInv'
  BY <1>1, <1>2, HandoverUntouched DEF Cancelling
<1>3. ASSUME UNCHANGED <<tx, offer>>,
             \A s \in Seats : seat[s].state = "BOOKED" => seat'[s] = seat[s]
      PROVE  HandoverInv'
  BY <1>1, <1>3, HandoverUntouched DEF Cancelling
<1>4. ASSUME NEW r \in Requests, Finish(r)
      PROVE  tx'[r].pc # "cancelling" /\ \A q \in Requests \ {r} : tx'[q] = tx[q]
  BY <1>1, <1>4 DEF Finish, DoneTx, TypeOK
<1>5. ASSUME NEW r \in Requests, Progress(r) PROVE HandoverInv'
  <2>1. CASE CreateHold(r)
    <3>1. \A s \in Seats : seat[s].state = "BOOKED" => seat'[s] = seat[s]
      BY <2>1 DEF CreateHold, Acquired, Acquirable
    <3> QED  BY <1>2, <1>4, <2>1, <3>1 DEF CreateHold
  <2>2. CASE ConfirmBooking(r)
    <3>1. \A s \in Seats : seat[s].state = "BOOKED" => seat'[s] = seat[s]
      BY <2>2 DEF ConfirmBooking, Confirmable, HeldUnder
    <3> QED  BY <1>2, <1>4, <2>2, <3>1 DEF ConfirmBooking
  <2>3. CASE AcceptOffer(r)
    <3>1. \A s \in Seats : seat[s].state = "BOOKED" => seat'[s] = seat[s]
      BY <2>3 DEF AcceptOffer, StillReserved
    <3>2. tx[r].by \in Requests /\ tx[r].category \in Categories
      BY <1>1, <2>3, TxShape DEF AcceptOffer, AcceptTx
    <3>3. ASSUME NEW q \in Requests, NEW c \in Categories
          PROVE  /\ offer'[q][c].seats = offer[q][c].seats
                 /\ offer[q][c].status = "NONE" => offer'[q][c].status = "NONE"
      <4>1. offer[q][c] \in OfferRows  BY <1>1 DEF TypeOK
      <4>2. offer'[q][c] = offer[q][c]
            \/ offer'[q][c] = Marked(offer[q][c], "PENDING", "ACCEPTED")
        BY <1>1, <2>3, <3>2 DEF AcceptOffer, TypeOK
      <4> QED  BY <4>1, <4>2 DEF Marked, OfferRows
    <3> QED  BY <1>2, <1>4, <2>3, <3>1, <3>3 DEF AcceptOffer
  <2>4. CASE RefuseHold(r) \/ RefuseConfirm(r) \/ RefuseAccept(r) \/ Rollback(r)
    BY <1>2, <1>4, <2>4 DEF RefuseHold, RefuseConfirm, RefuseAccept, Rollback, tables
  <2>5. CASE ReadHoldSeats(r)
    <3>1. tx'[r].pc # "cancelling" /\ \A q \in Requests \ {r} : tx'[q] = tx[q]
      BY <1>1, <2>5 DEF ReadHoldSeats, DoneTx, TypeOK
    <3> QED  BY <1>2, <2>5, <3>1 DEF ReadHoldSeats, tables
  <2> QED
    BY <1>5, <2>1, <2>2, <2>3, <2>4, <2>5, HandoverLockBooking, HandoverClaimHeir,
       HandoverCancelBooking
    DEF Progress
<1>6. ASSUME NEW r \in Requests, Arrive(r) PROVE HandoverInv'
  <2>1. PICK t : Begin(r, t) /\ t.pc # "cancelling"
    <3>1. CASE BeginHold(r)  BY <3>1 DEF BeginHold
    <3>2. CASE BeginConfirm(r)  BY <3>2 DEF BeginConfirm
    <3>3. CASE BeginCancel(r)
      <4>1. PICK b \in Requests :
              Begin(r, [pc |-> "cancel", now |-> clock, booking |-> b, decided |-> {},
                        heir |-> [c \in Categories |-> NULL]])
        BY <3>3 DEF BeginCancel
      <4> QED  BY <4>1
    <3>4. CASE BeginAccept(r)  BY <3>4 DEF BeginAccept
    <3> QED  BY <1>6, <3>1, <3>2, <3>3, <3>4 DEF Arrive
  <2>2. /\ tx'[r].pc # "cancelling" /\ \A q \in Requests \ {r} : tx'[q] = tx[q]
        /\ UNCHANGED <<seat, offer>>
    BY <1>1, <2>1 DEF Begin, tables, TypeOK
  <2> QED  BY <1>2, <2>2
<1>7. ASSUME NEW h \in Requests, ReleaseHold(h) PROVE HandoverInv'
  <2>1. \A s \in Seats : seat[s].state = "BOOKED" => seat'[s] = seat[s]
    BY <1>7 DEF ReleaseHold, HeldUnder
  <2> QED  BY <1>3, <1>7, <2>1 DEF ReleaseHold
<1>8. ASSUME NEW c \in Categories, NEW u \in Users, Join(c, u) PROVE HandoverInv'
  BY <1>3, <1>8 DEF Join, CheckJoin, InsertEntry, RefuseEntry, ReadPosition, tables
<1>9. CASE Tick  BY <1>3, <1>9 DEF Tick, tables
<1>10. CASE UNCHANGED vars  BY <1>3, <1>10 DEF vars
<1> QED  BY <1>5, <1>6, <1>7, <1>8, <1>9, <1>10 DEF Next

\* Neither the owners nor the money nor the receipts move.
LEMMA SaleStutters ==
  ASSUME \A b \in Requests : /\ booking'[b].payment = booking[b].payment
                             /\ booking'[b].seats = booking[b].seats,
         \A s \in Seats : \/ seat'[s] = seat[s]
                          \/ seat[s].state # "BOOKED" /\ seat'[s].state # "BOOKED"
  PROVE  UNCHANGED Sale!saleVars
<1> DEFINE owner   == [s \in Seats |-> IF seat[s].state = "BOOKED" THEN seat[s].booking
                                       ELSE NULL]
           money   == [b \in Requests |-> CASE booking[b].payment = "NONE" -> "none"
                                            [] booking[b].payment = "CAPTURED" -> "captured"
                                            [] OTHER -> "refunded"]
           receipt == [b \in Requests |-> booking[b].seats]
<1>1. owner' = owner  OBVIOUS
<1>2. money' = money  OBVIOUS
<1>3. receipt' = receipt  OBVIOUS
<1> QED  BY <1>1, <1>2, <1>3 DEF Sale!saleVars

\* Seats nobody owned, and a booking that was not there.
LEMMA SaleSells ==
  ASSUME NEW r \in Requests, NEW S \in SUBSET Seats, S # {},
         TypeOK, booking[r] = NoBooking,
         booking' = [booking EXCEPT ![r] = booking'[r]],
         booking'[r].payment = "CAPTURED" /\ booking'[r].seats = S,
         \A s \in Seats \ S : seat'[s] = seat[s],
         \A s \in S : /\ seat[s].state # "BOOKED"
                      /\ seat'[s].state = "BOOKED" /\ seat'[s].booking = r
  PROVE  Sale!Next
<1> DEFINE owner   == [s \in Seats |-> IF seat[s].state = "BOOKED" THEN seat[s].booking
                                       ELSE NULL]
           money   == [b \in Requests |-> CASE booking[b].payment = "NONE" -> "none"
                                            [] booking[b].payment = "CAPTURED" -> "captured"
                                            [] OTHER -> "refunded"]
           receipt == [b \in Requests |-> booking[b].seats]
<1>1. money[r] = "none"  BY DEF NoBooking
<1>2. \A s \in S : owner[s] = NULL  OBVIOUS
<1>3. owner' = [s \in Seats |-> IF s \in S THEN r ELSE owner[s]]  OBVIOUS
<1>4. \A b \in Requests : b # r => booking'[b] = booking[b]  BY DEF TypeOK
<1>5. money' = [money EXCEPT ![r] = "captured"]  BY <1>4
<1>6. receipt' = [receipt EXCEPT ![r] = S]  BY <1>4
<1>7. Sale!Sell(r, S)  BY <1>1, <1>2, <1>3, <1>5, <1>6 DEF Sale!Sell
<1>8. \E b \in Requests : \E bought \in SUBSET Seats : Sale!Sell(b, bought)
  BY <1>7
<1> QED  BY <1>8 DEF Sale!Next

\* All seats of the booking, and its money.
LEMMA SaleRefunds ==
  ASSUME NEW r \in Requests, IInv, CancelBooking(r)
  PROVE  [Sale!Next]_(Sale!saleVars)
<1> DEFINE owner   == [s \in Seats |-> IF seat[s].state = "BOOKED" THEN seat[s].booking
                                       ELSE NULL]
           money   == [a \in Requests |-> CASE booking[a].payment = "NONE" -> "none"
                                            [] booking[a].payment = "CAPTURED" -> "captured"
                                            [] OTHER -> "refunded"]
           receipt == [a \in Requests |-> booking[a].seats]
<1>1. PICK b \in Requests : b = tx[r].booking
  BY TxShape DEF IInv, CancelBooking, Cancelling, CancelTx
<1>2. /\ booking[b] \in BookingRows /\ \A s \in Seats : seat[s] \in SeatRows
      /\ \A a \in Requests \ {b} : booking'[a] = booking[a]
      /\ booking'[b] = Cancelled(booking[b])
  BY <1>1 DEF IInv, TypeOK, CancelBooking
<1>3. /\ booking'[b].seats = booking[b].seats
      /\ booking'[b].payment = IF booking[b].payment = "CAPTURED" THEN "REFUNDED"
                               ELSE booking[b].payment
  BY <1>2 DEF Cancelled, BookingRows
<1>4. \A s \in Seats : IF s \in BookedUnder(b) THEN seat'[s].state # "BOOKED"
                       ELSE seat'[s] = seat[s]
  <2>1. \A s \in Seats : IF s \in BookedUnder(b)
                         THEN \/ seat'[s] = ReturnedRow(seat[s])
                              \/ seat'[s] = OfferReservedRow(seat[s], tx[r].now)
                         ELSE seat'[s] = seat[s]
    BY <1>1 DEF CancelBooking
  <2> QED  BY <1>2, <2>1, Columns
<1>5. CASE booking[b].payment = "CAPTURED"
  <2>1. money[b] = "captured"  BY <1>1, <1>5
  <2>2. owner' = [s \in Seats |-> IF owner[s] = b THEN NULL ELSE owner[s]]
    <3>1. b # NULL  BY <1>1, StoreAssumption DEF StoreAssumption
    <3> QED  BY <1>4, <3>1 DEF BookedUnder
  <2>3. money' = [money EXCEPT ![b] = "refunded"]
    <3> QED  BY <1>1, <1>2, <1>3, <1>5
  <2>4. receipt' = receipt
    <3> QED  BY <1>1, <1>2, <1>3
  <2>5. Sale!Refund(b)
    BY <2>1, <2>2, <2>3, <2>4 DEF Sale!Refund
  <2>6. \E a \in Requests : Sale!Refund(a)  BY <1>1, <2>5
  <2>7. Sale!Next  BY <2>6 DEF Sale!Next
  <2> QED  BY <2>7
<1>6. CASE booking[b].payment # "CAPTURED"
  <2>1. BookedUnder(b) = {}
    BY <1>1, <1>6 DEF IInv, PaidSeatsAreOccupied
  <2> QED  BY <1>2, <1>3, <1>4, <1>6, <2>1, SaleStutters
<1> QED  BY <1>5, <1>6

LEMMA SaleStep ==
  ASSUME SInv, [Next]_vars
  PROVE  [Sale!Next]_(Sale!saleVars)
<1>1. IInv /\ TypeOK  BY DEF SInv, WInv, IInv
<1>2. ASSUME NEW r \in Requests, ConfirmBooking(r) PROVE Sale!Next
  <2> DEFINE S == tx[r].seats
  <2>1. /\ S \in SUBSET Seats /\ booking[r] = NoBooking
        /\ Confirmable(tx[r].hold, tx[r].now) = S
    BY <1>1, <1>2, WhatIsConfirmed
  <2>2. S # {}
    BY <1>1, <1>2, TxShape
    DEF SInv, WInv, IInv, ReadsStaySound, ConfirmBooking
  <2>3. /\ booking' = [booking EXCEPT ![r] = booking'[r]]
        /\ booking'[r].payment = "CAPTURED" /\ booking'[r].seats = S
    BY <1>1, <1>2 DEF ConfirmBooking, NewBooking, TypeOK
  <2>4. /\ \A s \in Seats \ S : seat'[s] = seat[s]
        /\ \A s \in S : /\ seat[s].state # "BOOKED"
                        /\ seat'[s].state = "BOOKED" /\ seat'[s].booking = r
    <3>1. \A s \in Seats : seat'[s] = IF s \in S THEN BookedRow(seat[s], r) ELSE seat[s]
      BY <1>2, <2>1 DEF ConfirmBooking
    <3>2. \A s \in S : seat[s].state = "HELD" /\ s \in Seats
      BY <2>1 DEF Confirmable, HeldUnder
    <3>3. \A s \in Seats : seat[s] \in SeatRows  BY <1>1 DEF TypeOK
    <3> QED  BY <3>1, <3>2, <3>3, Columns, 0 \in Nat
  <2> HIDE DEF S
  <2> QED  BY <1>1, <2>1, <2>2, <2>3, <2>4, SaleSells
<1>3. ASSUME NEW r \in Requests, AcceptOffer(r) PROVE Sale!Next
  <2> DEFINE by == tx[r].by
             c  == tx[r].category
             S  == offer[by][c].seats
  <2>1. by \in Requests /\ c \in Categories /\ tx[r] # DoneTx
    <3>1. tx[r] \in AcceptTx  BY <1>1, <1>3, TxShape DEF AcceptOffer
    <3> QED  BY <3>1 DEF AcceptTx, DoneTx
  <2>2. S \in SUBSET Seats /\ S # {}
    <3>1. offer[by][c] \in OfferRows  BY <1>1, <2>1 DEF TypeOK
    <3>2. offer[by][c].status # "NONE"
      BY <1>3 DEF AcceptOffer, SInv, WInv, QueueInv, OffersAreSound
    <3> QED
      BY <2>1, <3>1, <3>2 DEF OfferRows, SInv, HandoverInv, OffersHaveSeats
  <2>3. StillReserved(S, tx[r].now) = S
    <3>1. /\ Complete(StillReserved(S, tx[r].now), S)
          /\ StillReserved(S, tx[r].now) \in SUBSET S
      BY <1>3 DEF AcceptOffer, StillReserved
    <3> HIDE DEF S
    <3> QED  BY <2>2, <3>1, NoShortfall
  <2>4. booking[r] = NoBooking
    BY <1>1, <2>1 DEF IInv, ReadsStaySound
  <2>5. /\ booking' = [booking EXCEPT ![r] = booking'[r]]
        /\ booking'[r].payment = "CAPTURED" /\ booking'[r].seats = S
    BY <1>1, <1>3 DEF AcceptOffer, NewBooking, TypeOK
  <2>6. /\ \A s \in Seats \ S : seat'[s] = seat[s]
        /\ \A s \in S : /\ seat[s].state # "BOOKED"
                        /\ seat'[s].state = "BOOKED" /\ seat'[s].booking = r
    <3>1. \A s \in Seats :
            seat'[s] = IF s \in S THEN OfferBookedRow(seat[s], r) ELSE seat[s]
      BY <1>3, <2>3 DEF AcceptOffer
    <3>2. \A s \in S : seat[s].state = "OFFER_RESERVED" /\ s \in Seats
      BY <2>2, <2>3 DEF StillReserved
    <3>3. \A s \in Seats : seat[s] \in SeatRows  BY <1>1 DEF TypeOK
    <3> QED  BY <3>1, <3>2, <3>3, Columns, 0 \in Nat
  <2> HIDE DEF S, by, c
  <2> QED  BY <1>1, <2>2, <2>4, <2>5, <2>6, SaleSells
<1>4. ASSUME UNCHANGED <<seat, booking>> PROVE UNCHANGED Sale!saleVars
  BY <1>4, SaleStutters
<1>5. ASSUME NEW r \in Requests, CreateHold(r) PROVE UNCHANGED Sale!saleVars
  <2>1. \A s \in Seats :
          \/ seat'[s] = seat[s]
          \/ Acquirable(seat[s], tx[r].now)
             /\ seat'[s] = HeldRow(seat[s], r, tx[r].now + HoldTTL)
    BY <1>5 DEF CreateHold, Acquired
  <2>2. \A s \in Seats : \/ seat'[s] = seat[s]
                         \/ seat[s].state # "BOOKED" /\ seat'[s].state # "BOOKED"
    BY <1>1, <2>1, Columns DEF TypeOK, Acquirable
  <2>3. UNCHANGED booking  BY <1>5 DEF CreateHold
  <2> QED  BY <2>2, <2>3, SaleStutters
<1>6. ASSUME NEW h \in Requests, ReleaseHold(h) PROVE UNCHANGED Sale!saleVars
  <2>1. \A s \in Seats :
          \/ seat'[s] = seat[s]
          \/ seat[s].state = "HELD" /\ seat'[s] = ReleasedRow(seat[s])
    BY <1>6 DEF ReleaseHold, HeldUnder
  <2>2. \A s \in Seats : \/ seat'[s] = seat[s]
                         \/ seat[s].state # "BOOKED" /\ seat'[s].state # "BOOKED"
    <3>1. \A s \in Seats : seat[s] \in SeatRows  BY <1>1 DEF TypeOK
    <3> QED  BY <2>1, <3>1, Columns, 0 \in Nat
  <2>3. UNCHANGED booking  BY <1>6 DEF ReleaseHold
  <2> QED  BY <2>2, <2>3, SaleStutters
<1>7. ASSUME NEW r \in Requests, Progress(r) PROVE [Sale!Next]_(Sale!saleVars)
  <2>1. CASE \/ RefuseHold(r) \/ ReadHoldSeats(r) \/ RefuseConfirm(r) \/ LockBooking(r)
             \/ (\E c \in Categories : ClaimHeir(r, c)) \/ RefuseAccept(r)
             \/ Rollback(r)
    BY <1>4, <2>1
    DEF RefuseHold, ReadHoldSeats, RefuseConfirm, LockBooking, ClaimHeir, RefuseAccept,
        Rollback, tables
  <2>2. CASE CancelBooking(r)  BY <1>1, <2>2, SaleRefunds
  <2> QED  BY <1>2, <1>3, <1>5, <1>7, <2>1, <2>2 DEF Progress
<1>8. CASE \E r \in Requests : Arrive(r)
  BY <1>4, <1>8
  DEF Arrive, BeginHold, BeginConfirm, BeginCancel, BeginAccept, Begin, tables
<1>9. CASE \E c \in Categories, u \in Users : Join(c, u)
  BY <1>4, <1>9 DEF Join, CheckJoin, InsertEntry, RefuseEntry, ReadPosition, tables
<1>10. CASE Tick  BY <1>4, <1>10 DEF Tick, tables
<1>11. CASE UNCHANGED vars  BY <1>4, <1>11 DEF vars
<1> QED  BY <1>6, <1>7, <1>8, <1>9, <1>10, <1>11 DEF Next

\* SeatSale's promise is kept whatever runs: seats are sold together, against
\* payment and to one buyer, and given back together with the money
\* (confirmBooking, acceptOffer, cancelBooking).
THEOREM SystemImplementsSale == Spec => ImplementsSeatSale
<1>1. Init => Sale!Init
  BY DEF Init, Sale!Init, FreeSeat, NoBooking
<1>2. Init => SInv  BY IInvInit, QueueInit, HandoverInit DEF SInv, WInv
<1>3. SInv /\ [Next]_vars => SInv'
  BY IInvNext, QueueNext, BackedNext, HandoverNext DEF SInv, WInv
<1> QED  BY <1>1, <1>2, <1>3, SaleStep, PTL DEF Spec, ImplementsSeatSale, Sale!Spec
=============================================================================
