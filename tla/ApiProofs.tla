----------------------------- MODULE ApiProofs ------------------------------
(***************************************************************************)
(* What clients are told, shown and mailed is so: Api for any number of    *)
(* requests, seats, people and mails.                                      *)
(***************************************************************************)
EXTENDS Api, WaitlistProofs

\* Every step but a refused look at an offer is a step of TicketSystem.
LEMMA ApiStep ==
  ASSUME [ApiNext]_apiVars
  PROVE  [Next]_vars \/ \E r \in Requests : OfferRefused(r)
<1>1. ASSUME NEW r \in Requests, Serve(r) PROVE Next \/ OfferRefused(r)
  <2>1. CASE OfferRefused(r)  BY <2>1
  <2>2. CASE PostHold(r) \/ PostConfirm(r) \/ PostCancel(r) \/ PostAccept(r)
    <3>1. Arrive(r)
      BY <2>2 DEF PostHold, PostConfirm, PostCancel, PostAccept, Arrive
    <3> QED  BY <3>1 DEF Next
  <2>3. ASSUME ~ OfferRefused(r),
               ~ (PostHold(r) \/ PostConfirm(r) \/ PostCancel(r) \/ PostAccept(r))
        PROVE  Progress(r)
    BY <1>1, <2>3
    DEF Serve, HoldCreated, HoldRefused, SeatsRead, Booked, ConfirmRefused, BookingLocked,
        BookingCancelled, HeirClaimed, OfferAccepted, AcceptRefused, RolledBack, Progress
  <2> QED  BY <2>1, <2>2, <2>3 DEF Next
<1>2. ASSUME NEW h \in Requests, DeleteHold(h) PROVE Next
  BY <1>2 DEF DeleteHold, Next
<1>3. ASSUME NEW c \in Categories, NEW u \in Users, PostJoin(c, u) PROVE Next
  BY <1>3 DEF PostJoin, Next
<1>4. ASSUME NEW c \in Categories, NEW u \in Users, AskStatus(c, u) PROVE UNCHANGED vars
  BY <1>4 DEF AskStatus
<1>5. CASE StatusAnswered  BY <1>5 DEF StatusAnswered
<1>6. ASSUME NEW m, SendMail(m) PROVE UNCHANGED vars  BY <1>6 DEF SendMail
<1>7. CASE \/ \E r \in Requests : SendBookingConfirmedEmail(r)
           \/ \E o \in Offered : SendWaitlistOfferEmail(o)
           \/ \E m \in outbox : MailFails(m)
  BY <1>6, <1>7 DEF SendBookingConfirmedEmail, SendWaitlistOfferEmail, MailFails
<1>8. CASE Tick /\ Quietly  BY <1>8 DEF Next
<1>9. CASE UNCHANGED apiVars  BY <1>9 DEF apiVars
<1> QED  BY <1>1, <1>2, <1>3, <1>4, <1>5, <1>7, <1>8, <1>9 DEF ApiNext

\* That look ends a request and changes no table, so the tables stay as sound.
LEMMA RefusedLook ==
  ASSUME SInv, NEW r \in Requests, OfferRefused(r)
  PROVE  SInv'
<1>1. TypeOK /\ Finish(r) /\ UNCHANGED <<clock, tables, joining>>
      /\ UNCHANGED <<seat, hold, booking, entry, offer>>
  BY DEF SInv, WInv, IInv, OfferRefused, tables
<1>2. IInv'  BY <1>1, TypeEnd, IInvEnd DEF SInv, WInv
<1>3. QueueInv'  BY <1>1, QueueEnd DEF SInv, WInv
<1>4. ReservationsAreBacked'  BY <1>1, BackedUntouched DEF SInv, WInv
<1>5. HandoverInv'
  <2>1. tx'[r].pc # "cancelling" /\ \A q \in Requests \ {r} : tx'[q] = tx[q]
    BY <1>1 DEF Finish, DoneTx, TypeOK
  <2> QED  BY <1>1, <2>1, HandoverUntouched DEF SInv, Cancelling
<1> QED  BY <1>2, <1>3, <1>4, <1>5 DEF SInv, WInv

LEMMA SInvApiStep ==
  ASSUME SInv, [ApiNext]_apiVars
  PROVE  SInv'
<1>1. CASE [Next]_vars
  BY <1>1, IInvNext, QueueNext, BackedNext, HandoverNext DEF SInv, WInv
<1>2. CASE \E r \in Requests : OfferRefused(r)  BY <1>2, RefusedLook
<1> QED  BY <1>1, <1>2, ApiStep

LEMMA SInvInit == Init => SInv
BY IInvInit, QueueInit, HandoverInit DEF SInv, WInv

\* The tables behind the API keep everything that is proved about them.
THEOREM TablesStaySound == ApiSpec => []SInv
BY SInvInit, SInvApiStep, PTL DEF ApiSpec

-----------------------------------------------------------------------------
(* What no step takes back.                                                *)

\* A booking is CONFIRMED while its payment is CAPTURED, and CANCELLED when it is
\* REFUNDED.
BookingsAreWhole ==
  \A b \in Requests :
    /\ booking[b].status = "NONE" => booking[b] = NoBooking
    /\ booking[b].status = "CONFIRMED" <=> booking[b].payment = "CAPTURED"
    /\ booking[b].status = "CANCELLED" <=> booking[b].payment = "REFUNDED"

\* A hold is of some seats, or there is none, and a confirmation reads seats of its hold.
HoldsHaveSeats ==
  /\ \A h \in Requests : IF hold[h].status = "NONE" THEN hold[h] = NoHold
                                                  ELSE hold[h].seats # {}
  /\ \A r \in Requests :
       /\ tx[r].pc = "hold" => tx[r].seats # {}
       /\ tx[r].pc = "checkedOut" => tx[r].seats \subseteq hold[tx[r].hold].seats

\* An offer that can be accepted, and whose seats no other offer sold, has them.
OpenOffersAreKept ==
  \A r \in Requests, c \in Categories :
    LET row == offer[r][c]
    IN  /\ row.status = "PENDING" /\ row.expiresAt > clock
        /\ ~ SoldElsewhere(<<r, c>>)
        => \A s \in row.seats : /\ seat[s].state = "OFFER_RESERVED"
                                /\ seat[s].expiresAt = row.expiresAt

TInv == SInv /\ BookingsAreWhole /\ HoldsHaveSeats /\ OpenOffersAreKept

\* The holds, bookings and offers a step leaves or makes.
HoldStays(h) ==
  /\ hold'[h].seats = hold[h].seats /\ hold'[h].expiresAt = hold[h].expiresAt
  /\ hold'[h].status = "NONE" <=> hold[h].status = "NONE"
  /\ hold'[h].status = "ACTIVE" => hold[h].status = "ACTIVE"
BookingStays(b) ==
  /\ booking'[b].seats = booking[b].seats /\ booking'[b].offer = booking[b].offer
  /\ booking'[b].status = "NONE" <=> booking[b].status = "NONE"
  /\ booking[b].status = "CANCELLED" => booking'[b] = booking[b]
OfferStays(r, c) ==
  /\ offer'[r][c].seats = offer[r][c].seats
  /\ offer'[r][c].expiresAt = offer[r][c].expiresAt
  /\ offer'[r][c].status = "NONE" <=> offer[r][c].status = "NONE"
  /\ offer'[r][c].status = "PENDING" => offer[r][c].status = "PENDING"

\* A request that is done stays done, and what it inserted stays inserted; what
\* is not inserted is the doing of nobody else.
Persists ==
  /\ clock' >= clock
  /\ \A r \in Requests : tx[r] = DoneTx => tx'[r] = DoneTx
  /\ \A h \in Requests : (tx'[h] = DoneTx /\ tx[h] # DoneTx) \/ HoldStays(h)
  /\ \A b \in Requests : (tx'[b] = DoneTx /\ tx[b] # DoneTx) \/ BookingStays(b)
  /\ \A r \in Requests, c \in Categories :
       (tx'[r] = DoneTx /\ tx[r] # DoneTx) \/ OfferStays(r, c)

\* Who acts is not done, and acts on nobody else.
LEMMA WhoActs ==
  ASSUME TypeOK, NEW r \in Requests, Arrive(r) \/ Progress(r) \/ OfferRefused(r)
  PROVE  /\ tx[r] # DoneTx
         /\ \A q \in Requests \ {r} : tx'[q] = tx[q]
<1>1. CASE Arrive(r)
  <2>1. PICK t : Begin(r, t)
    BY <1>1 DEF Arrive, BeginHold, BeginConfirm, BeginCancel, BeginAccept
  <2> QED  BY <2>1 DEF Begin, NewTx, DoneTx, TypeOK
<1>2. CASE OfferRefused(r)
  BY <1>2 DEF OfferRefused, Finish, NewTx, DoneTx, TypeOK
<1>3. CASE Progress(r)
  <2>1. CASE Rollback(r)  BY <2>1 DEF Rollback, InFlight, Finish, TypeOK
  <2>2. CASE \/ CreateHold(r) \/ RefuseHold(r) \/ ConfirmBooking(r) \/ RefuseConfirm(r)
             \/ CancelBooking(r) \/ AcceptOffer(r) \/ RefuseAccept(r)
    <3>1. tx[r].pc # "done" /\ Finish(r)
      BY <2>2 DEF CreateHold, RefuseHold, ConfirmBooking, RefuseConfirm, CancelBooking,
                  Cancelling, AcceptOffer, RefuseAccept
    <3> QED  BY <3>1 DEF DoneTx, Finish, TypeOK
  <2>3. CASE ReadHoldSeats(r)  BY <2>3 DEF ReadHoldSeats, DoneTx, TypeOK
  <2>4. CASE LockBooking(r)  BY <2>4 DEF LockBooking, DoneTx, TypeOK
  <2>5. CASE \E c \in Categories : ClaimHeir(r, c)
    BY <2>5 DEF ClaimHeir, Cancelling, DoneTx, TypeOK
  <2> QED  BY <1>3, <2>1, <2>2, <2>3, <2>4, <2>5 DEF Progress
<1> QED  BY <1>1, <1>2, <1>3

\* A step that writes none of the three tables.
LEMMA PersistsUntouched ==
  ASSUME TypeOK, UNCHANGED <<hold, booking, offer>>, clock' >= clock,
         \A r \in Requests : tx[r] = DoneTx => tx'[r] = DoneTx
  PROVE  Persists
BY DEF Persists, HoldStays, BookingStays, OfferStays

\* A step of r, which inserts what is r's.
LEMMA PersistsBut ==
  ASSUME NEW r \in Requests, clock' >= clock,
         tx[r] # DoneTx, tx'[r] = DoneTx, \A q \in Requests \ {r} : tx'[q] = tx[q],
         \A h \in Requests \ {r} : HoldStays(h),
         \A b \in Requests \ {r} : BookingStays(b),
         \A q \in Requests \ {r}, c \in Categories : OfferStays(q, c)
  PROVE  Persists
BY DEF Persists

\* A hold that ends keeps what it was.
LEMMA EndHoldStays ==
  ASSUME TypeOK, NEW h \in Requests, NEW status \in {"RELEASED", "CONVERTED"},
         EndHold(h, status)
  PROVE  \A g \in Requests : HoldStays(g)
<1> TAKE g \in Requests
<1>1. hold[g] \in HoldRows  BY DEF TypeOK
<1>2. hold'[g] = hold[g]
      \/ hold'[g] = [hold[g] EXCEPT !.status = IF @ = "ACTIVE" THEN status ELSE @]
  BY DEF EndHold, TypeOK
<1> QED  BY <1>1, <1>2 DEF HoldStays, HoldRows

\* An acceptance marks one offer.
LEMMA MarksOneOffer ==
  ASSUME TypeOK, NEW r \in Requests, AcceptOffer(r),
         NEW q \in Requests, NEW c \in Categories
  PROVE  offer'[q][c] \in {offer[q][c], Marked(offer[q][c], "PENDING", "ACCEPTED")}
<1>1. PICK by \in Requests, k \in Categories : by = tx[r].by /\ k = tx[r].category
  BY TxShape DEF AcceptOffer, AcceptTx
<1>2. PICK row : row = Marked(offer[by][k], "PENDING", "ACCEPTED")  OBVIOUS
<1>3. offer' = [offer EXCEPT ![by] = [@ EXCEPT ![k] = row]]
  BY <1>1, <1>2 DEF AcceptOffer
<1>4. offer \in [Requests -> [Categories -> OfferRows]]  BY DEF TypeOK
<1>5. CASE q = by /\ c = k  BY <1>2, <1>3, <1>4, <1>5
<1>6. CASE ~ (q = by /\ c = k)  BY <1>3, <1>4, <1>6
<1> QED  BY <1>5, <1>6

LEMMA PersistsProgress ==
  ASSUME TypeOK, BookingsAreWhole, NEW r \in Requests, Progress(r)
  PROVE  Persists
<1>1. /\ tx[r] # DoneTx /\ \A q \in Requests \ {r} : tx'[q] = tx[q]
      /\ clock \in Nat
  BY WhoActs DEF TypeOK
<1>2. ASSUME UNCHANGED <<clock, hold, booking, offer>> PROVE Persists
  BY <1>1, <1>2, PersistsUntouched
<1>3. ASSUME Finish(r) PROVE tx'[r] = DoneTx  BY <1>3 DEF Finish, TypeOK
<1>4. ASSUME UNCHANGED hold PROVE \A h \in Requests : HoldStays(h)
  BY <1>4 DEF HoldStays
<1>5. ASSUME UNCHANGED offer PROVE \A q \in Requests, c \in Categories : OfferStays(q, c)
  BY <1>5 DEF OfferStays
<1>6. CASE CreateHold(r)
  <2>1. \A h \in Requests \ {r} : HoldStays(h)
    BY <1>6 DEF CreateHold, HoldStays, TypeOK
  <2>2. \A b \in Requests : BookingStays(b)  BY <1>6 DEF CreateHold, BookingStays
  <2>3. UNCHANGED <<clock, offer>> /\ Finish(r)  BY <1>6 DEF CreateHold
  <2> QED  BY <1>1, <1>3, <1>5, <2>1, <2>2, <2>3, PersistsBut
<1>7. CASE ConfirmBooking(r)
  <2>1. tx[r].hold \in Requests
    BY <1>7, TxShape DEF ConfirmBooking, CheckedOut
  <2>2. \A h \in Requests : HoldStays(h)
    BY <1>7, <2>1, EndHoldStays DEF ConfirmBooking
  <2>3. \A b \in Requests \ {r} : BookingStays(b)
    BY <1>7 DEF ConfirmBooking, BookingStays, TypeOK
  <2>4. UNCHANGED <<clock, offer>> /\ Finish(r)  BY <1>7 DEF ConfirmBooking
  <2> QED  BY <1>1, <1>3, <1>5, <2>2, <2>3, <2>4, PersistsBut
<1>8. CASE CancelBooking(r)
  <2>1. \A b \in Requests : BookingStays(b)
    <3> TAKE b \in Requests
    <3>1. booking[b] \in BookingRows  BY DEF TypeOK
    <3>2. booking'[b] = booking[b] \/ booking'[b] = Cancelled(booking[b])
      BY <1>8 DEF CancelBooking, TypeOK
    <3>3. booking[b].status = "CANCELLED" <=> booking[b].payment = "REFUNDED"
      BY DEF BookingsAreWhole
    <3> QED  BY <3>1, <3>2, <3>3, ZenonT(60) DEF Cancelled, BookingStays, BookingRows
  <2>2. \A q \in Requests \ {r}, c \in Categories : OfferStays(q, c)
    BY <1>8 DEF CancelBooking, OfferStays, TypeOK
  <2>3. UNCHANGED <<clock, hold>> /\ Finish(r)  BY <1>8 DEF CancelBooking
  <2> QED  BY <1>1, <1>3, <1>4, <2>1, <2>2, <2>3, PersistsBut
<1>9. CASE AcceptOffer(r)
  <2>1. tx[r].by \in Requests /\ tx[r].category \in Categories
    BY <1>9, TxShape DEF AcceptOffer, AcceptTx
  <2>2. \A b \in Requests \ {r} : BookingStays(b)
    BY <1>9 DEF AcceptOffer, BookingStays, TypeOK
  <2>3. ASSUME NEW q \in Requests, NEW c \in Categories PROVE OfferStays(q, c)
    <3>1. offer[q][c] \in OfferRows  BY DEF TypeOK
    <3>2. offer'[q][c] = offer[q][c]
          \/ offer'[q][c] = Marked(offer[q][c], "PENDING", "ACCEPTED")
      BY <1>9, MarksOneOffer
    <3> QED  BY <3>1, <3>2 DEF Marked, OfferStays, OfferRows
  <2>4. UNCHANGED <<clock, hold>> /\ Finish(r)  BY <1>9 DEF AcceptOffer
  <2> QED  BY <1>1, <1>3, <1>4, <2>2, <2>3, <2>4, PersistsBut
<1>10. CASE \/ RefuseHold(r) \/ ReadHoldSeats(r) \/ RefuseConfirm(r) \/ LockBooking(r)
            \/ (\E c \in Categories : ClaimHeir(r, c)) \/ RefuseAccept(r)
            \/ Rollback(r)
  BY <1>2, <1>10
  DEF RefuseHold, ReadHoldSeats, RefuseConfirm, LockBooking, ClaimHeir, RefuseAccept,
      Rollback, tables
<1> QED  BY <1>6, <1>7, <1>8, <1>9, <1>10 DEF Progress

LEMMA StepsPersist ==
  ASSUME TypeOK, BookingsAreWhole, [Next]_vars \/ \E r \in Requests : OfferRefused(r)
  PROVE  Persists
<1>1. ASSUME UNCHANGED <<hold, booking, offer>>, clock' >= clock,
             UNCHANGED tx \/ \E r \in Requests : Arrive(r) \/ OfferRefused(r)
      PROVE  Persists
  <2>1. \A r \in Requests : tx[r] = DoneTx => tx'[r] = DoneTx
    BY <1>1, WhoActs
  <2> QED  BY <1>1, <2>1, PersistsUntouched
<1>2. clock \in Nat  BY DEF TypeOK
<1>3. CASE \E r \in Requests : Arrive(r)
  BY <1>1, <1>2, <1>3
  DEF Arrive, BeginHold, BeginConfirm, BeginCancel, BeginAccept, Begin, tables
<1>4. CASE \E r \in Requests : OfferRefused(r)
  BY <1>1, <1>2, <1>4 DEF OfferRefused, tables
<1>5. CASE \E h \in Requests : ReleaseHold(h)
  <2>1. PICK h \in Requests : ReleaseHold(h)  BY <1>5
  <2>2. \A g \in Requests : HoldStays(g)  BY <2>1, EndHoldStays DEF ReleaseHold
  <2>3. UNCHANGED <<clock, booking, offer, tx>>  BY <2>1 DEF ReleaseHold
  <2> QED  BY <1>2, <2>2, <2>3 DEF Persists, BookingStays, OfferStays
<1>6. CASE \E c \in Categories, u \in Users : Join(c, u)
  BY <1>1, <1>2, <1>6 DEF Join, CheckJoin, InsertEntry, RefuseEntry, ReadPosition, tables
<1>7. CASE Tick  BY <1>1, <1>2, <1>7 DEF Tick, tables
<1>8. CASE UNCHANGED vars  BY <1>1, <1>2, <1>8 DEF vars
<1> QED  BY <1>3, <1>4, <1>5, <1>6, <1>7, <1>8, PersistsProgress DEF Next

\* So what is there lasts.
LEMMA RowsLast ==
  ASSUME SInv, Persists
  PROVE  /\ \A h \in Requests : hold[h].status # "NONE" => HoldStays(h)
         /\ \A b \in Requests : booking[b].status # "NONE" => BookingStays(b)
         /\ \A r \in Requests, c \in Categories :
              offer[r][c].status # "NONE" => OfferStays(r, c)
BY DEF SInv, WInv, IInv, ReadsStaySound, QueueInv, OffersAreSound, Persists, NoHold,
       NoBooking, NoOffer

-----------------------------------------------------------------------------
(* Bookings, holds and open offers.                                        *)

LEMMA TInvInit == Init => TInv
<1> SUFFICES ASSUME Init PROVE BookingsAreWhole /\ HoldsHaveSeats /\ OpenOffersAreKept
  BY SInvInit DEF TInv
<1>1. BookingsAreWhole  BY DEF Init, BookingsAreWhole, NoBooking
<1>2. HoldsHaveSeats  BY DEF Init, HoldsHaveSeats, NoHold, NewTx
<1>3. OpenOffersAreKept  BY DEF Init, OpenOffersAreKept, NoOffer
<1> QED  BY <1>1, <1>2, <1>3

\* The bookings are written by a sale and by a cancellation.
LEMMA WholeNext ==
  ASSUME TInv, [Next]_vars \/ \E r \in Requests : OfferRefused(r)
  PROVE  BookingsAreWhole'
<1>1. TypeOK /\ BookingsAreWhole  BY DEF TInv, SInv, WInv, IInv
<1>2. CASE UNCHANGED booking  BY <1>1, <1>2 DEF BookingsAreWhole
<1>3. ASSUME NEW r \in Requests, NEW seats, NEW h, NEW o,
             booking' = [booking EXCEPT ![r] = NewBooking(seats, h, o)]
      PROVE  BookingsAreWhole'
  BY <1>1, <1>3 DEF BookingsAreWhole, NewBooking, TypeOK
<1>4. ASSUME NEW r \in Requests, ConfirmBooking(r) PROVE BookingsAreWhole'
  BY <1>3, <1>4 DEF ConfirmBooking
<1>5. ASSUME NEW r \in Requests, AcceptOffer(r) PROVE BookingsAreWhole'
  BY <1>3, <1>5 DEF AcceptOffer
<1>6. ASSUME NEW r \in Requests, CancelBooking(r) PROVE BookingsAreWhole'
  <2> SUFFICES ASSUME NEW b \in Requests
               PROVE  /\ booking'[b].status = "NONE" => booking'[b] = NoBooking
                      /\ booking'[b].status = "CONFIRMED" <=> booking'[b].payment = "CAPTURED"
                      /\ booking'[b].status = "CANCELLED" <=> booking'[b].payment = "REFUNDED"
    BY DEF BookingsAreWhole
  <2>1. booking[b] \in BookingRows  BY <1>1 DEF TypeOK
  <2>2. booking'[b] = booking[b] \/ booking'[b] = Cancelled(booking[b])
    BY <1>1, <1>6 DEF CancelBooking, TypeOK
  <2>3. /\ booking[b].status = "NONE" => booking[b] = NoBooking
        /\ booking[b].status = "CONFIRMED" <=> booking[b].payment = "CAPTURED"
        /\ booking[b].status = "CANCELLED" <=> booking[b].payment = "REFUNDED"
    BY <1>1 DEF BookingsAreWhole
  <2>4. CASE booking'[b] = booking[b]  BY <2>3, <2>4
  <2>5. CASE booking'[b] = Cancelled(booking[b])
    <3>1. CASE booking[b].status = "NONE"
      <4>1. booking[b] = NoBooking  BY <2>3, <3>1
      <4>2. Cancelled(NoBooking) = NoBooking  BY DEF Cancelled, NoBooking
      <4> QED  BY <2>3, <2>5, <4>1, <4>2
    <3>2. CASE booking[b].status # "NONE"
      <4>1. /\ booking'[b].status = IF booking[b].status = "CONFIRMED" THEN "CANCELLED"
                                    ELSE booking[b].status
            /\ booking'[b].payment = IF booking[b].payment = "CAPTURED" THEN "REFUNDED"
                                     ELSE booking[b].payment
        BY <2>1, <2>5 DEF Cancelled, BookingRows
      <4> QED  BY <2>1, <2>3, <3>2, <4>1 DEF BookingRows
    <3> QED  BY <3>1, <3>2
  <2> QED  BY <2>2, <2>4, <2>5
<1>7. ASSUME NEW r \in Requests, Progress(r) PROVE BookingsAreWhole'
  BY <1>2, <1>4, <1>5, <1>6, <1>7
  DEF Progress, CreateHold, RefuseHold, ReadHoldSeats, RefuseConfirm, LockBooking, ClaimHeir,
      RefuseAccept, Rollback, tables
<1>8. ASSUME NEW r \in Requests, Arrive(r) PROVE UNCHANGED booking
  BY <1>8 DEF Arrive, BeginHold, BeginConfirm, BeginCancel, BeginAccept, Begin, tables
<1>9. CASE UNCHANGED vars \/ Tick \/ (\E h \in Requests : ReleaseHold(h))
           \/ (\E c \in Categories, u \in Users : Join(c, u))
           \/ \E r \in Requests : OfferRefused(r)
  BY <1>2, <1>9 DEF vars, Tick, ReleaseHold, Join, CheckJoin, InsertEntry, RefuseEntry,
      ReadPosition, OfferRefused, tables
<1> QED  BY <1>2, <1>7, <1>8, <1>9 DEF Next

\* Holds last, and what a transaction holds in memory is set when it is read.
LEMMA HoldSeatsNext ==
  ASSUME TInv, [Next]_vars \/ \E r \in Requests : OfferRefused(r)
  PROVE  HoldsHaveSeats'
<1>1. /\ TypeOK /\ BookingsAreWhole /\ HoldsHaveSeats /\ SInv
      /\ ReadsStaySound /\ HeldRowsHaveTheirHold
  BY DEF TInv, SInv, WInv, IInv
<1>2. Persists  BY <1>1, StepsPersist
<1>3. ASSUME NEW h \in Requests, hold[h].status # "NONE"
      PROVE  hold'[h].seats = hold[h].seats /\ hold'[h].status # "NONE"
  BY <1>1, <1>2, <1>3, RowsLast DEF HoldStays
<1>4. ASSUME NEW r \in Requests, tx[r].pc = "checkedOut", tx'[r] = tx[r]
      PROVE  tx'[r].seats \subseteq hold'[tx'[r].hold].seats
  <2>1. tx[r].hold \in Requests /\ hold[tx[r].hold].status # "NONE"
    BY <1>1, <1>4, TxShape DEF CheckedOut, ReadsStaySound
  <2>2. hold'[tx[r].hold].seats = hold[tx[r].hold].seats  BY <1>3, <2>1
  <2> QED  BY <1>1, <1>4, <2>2 DEF HoldsHaveSeats
\* The rows of seat_holds.
<1>5. ASSUME NEW r \in Requests, CreateHold(r), NEW h \in Requests
      PROVE  hold'[h] = hold[h] \/ (hold'[h].status # "NONE" /\ hold'[h].seats # {})
  BY <1>1, <1>5 DEF CreateHold, HoldsHaveSeats, TypeOK
<1>6. ASSUME NEW g \in Requests, NEW status \in {"RELEASED", "CONVERTED"},
             EndHold(g, status), NEW h \in Requests
      PROVE  hold'[h] = hold[h] \/ (hold'[h].status # "NONE" /\ hold'[h].seats # {})
  <2>1. hold'[h].seats = hold[h].seats /\ (hold[h].status = "NONE" => hold'[h] = hold[h])
    <3>1. hold[h] \in HoldRows  BY <1>1 DEF TypeOK
    <3>2. hold'[h] = hold[h]
          \/ hold'[h] = [hold[h] EXCEPT !.status = IF @ = "ACTIVE" THEN status ELSE @]
      BY <1>1, <1>6 DEF EndHold, TypeOK
    <3> QED  BY <3>1, <3>2 DEF HoldRows
  <2> QED  BY <1>1, <1>3, <2>1 DEF HoldsHaveSeats
<1>7. ASSUME NEW h \in Requests
      PROVE  hold'[h] = hold[h] \/ (hold'[h].status # "NONE" /\ hold'[h].seats # {})
  <2>1. ASSUME NEW r \in Requests, Progress(r)
        PROVE  hold'[h] = hold[h] \/ (hold'[h].status # "NONE" /\ hold'[h].seats # {})
    <3>1. CASE CreateHold(r)  BY <1>5, <3>1
    <3>2. CASE ConfirmBooking(r)
      <4>1. tx[r].hold \in Requests
        BY <1>1, <3>2, TxShape DEF ConfirmBooking, CheckedOut
      <4> QED  BY <1>6, <3>2, <4>1 DEF ConfirmBooking
    <3>3. CASE ~ CreateHold(r) /\ ~ ConfirmBooking(r)
      BY <2>1, <3>3 DEF Progress, RefuseHold, ReadHoldSeats, RefuseConfirm, LockBooking,
        ClaimHeir, CancelBooking, AcceptOffer, RefuseAccept, Rollback, tables
    <3> QED  BY <3>1, <3>2, <3>3
  <2>2. ASSUME NEW g \in Requests, ReleaseHold(g)
        PROVE  hold'[h] = hold[h] \/ (hold'[h].status # "NONE" /\ hold'[h].seats # {})
    BY <1>6, <2>2 DEF ReleaseHold
  <2>3. ASSUME NEW r \in Requests, Arrive(r) PROVE UNCHANGED hold
    BY <2>3 DEF Arrive, BeginHold, BeginConfirm, BeginCancel, BeginAccept, Begin, tables
  <2>4. CASE UNCHANGED vars \/ Tick \/ (\E c \in Categories, u \in Users : Join(c, u))
             \/ \E r \in Requests : OfferRefused(r)
    BY <2>4 DEF vars, Tick, Join, CheckJoin, InsertEntry, RefuseEntry, ReadPosition,
        OfferRefused, tables
  <2> QED  BY <2>1, <2>2, <2>3, <2>4 DEF Next
\* The transactions.
<1>8. ASSUME NEW r \in Requests, Arrive(r)
      PROVE  (tx'[r].pc = "hold" => tx'[r].seats # {}) /\ tx'[r].pc # "checkedOut"
  BY <1>1, <1>8
  DEF Arrive, BeginHold, BeginConfirm, BeginCancel, BeginAccept, Begin, TypeOK
<1>9. ASSUME NEW r \in Requests, Progress(r), tx'[r] # DoneTx
      PROVE  /\ tx'[r].pc # "hold"
             /\ tx'[r].pc = "checkedOut" => tx'[r].seats \subseteq hold'[tx'[r].hold].seats
  <2>1. CASE ReadHoldSeats(r)
    <3>1. tx[r].hold \in Requests /\ hold' = hold /\ tx[r] \in ConfirmTx
      BY <1>1, <2>1, TxShape DEF ReadHoldSeats, ConfirmTx, tables
    <3>2. tx'[r].pc = "checkedOut" /\ tx'[r].hold = tx[r].hold
          /\ tx'[r].seats = HeldUnder(tx[r].hold)
      BY <1>1, <1>9, <2>1 DEF ReadHoldSeats, TypeOK
    <3>3. HeldUnder(tx[r].hold) \subseteq hold[tx[r].hold].seats
      BY <1>1 DEF HeldUnder, HeldRowsHaveTheirHold
    <3> QED  BY <3>1, <3>2, <3>3
  <2>2. CASE LockBooking(r) \/ \E c \in Categories : ClaimHeir(r, c)
    <3>1. tx[r] \in CancelTx
      BY <1>1, <2>2, TxShape DEF LockBooking, ClaimHeir, Cancelling
    <3>2. tx'[r].pc = "cancelling"
      <4>1. CASE LockBooking(r)  BY <1>1, <3>1, <4>1 DEF LockBooking, TypeOK, CancelTx
      <4>2. ASSUME NEW c \in Categories, ClaimHeir(r, c) PROVE tx'[r].pc = "cancelling"
        <5>1. PICK u : tx' = [tx EXCEPT ![r].decided = @ \cup {c}, ![r].heir[c] = u]
          BY <4>2 DEF ClaimHeir
        <5>2. tx[r].pc = "cancelling"  BY <4>2 DEF ClaimHeir, Cancelling
        <5> QED  BY <1>1, <3>1, <5>1, <5>2 DEF TypeOK, CancelTx
      <4> QED  BY <2>2, <4>1, <4>2
    <3> QED  BY <3>2
  <2>3. CASE ~ (ReadHoldSeats(r) \/ LockBooking(r) \/ \E c \in Categories : ClaimHeir(r, c))
    <3>1. Finish(r)
      BY <1>9, <2>3 DEF Progress, CreateHold, RefuseHold, ConfirmBooking, RefuseConfirm,
        CancelBooking, AcceptOffer, RefuseAccept, Rollback
    <3> QED  BY <1>1, <1>9, <3>1 DEF Finish, TypeOK
  <2> QED  BY <2>1, <2>2, <2>3
<1>10. ASSUME NEW r \in Requests
       PROVE  /\ tx'[r].pc = "hold" => tx'[r].seats # {}
              /\ tx'[r].pc = "checkedOut" => tx'[r].seats \subseteq hold'[tx'[r].hold].seats
  <2>1. CASE tx'[r] = tx[r]  BY <1>1, <1>4, <2>1 DEF HoldsHaveSeats
  <2>2. CASE tx'[r] = DoneTx  BY <2>2 DEF DoneTx
  <2>3. CASE Arrive(r)  BY <1>8, <2>3
  <2>4. CASE Progress(r)  BY <1>9, <2>2, <2>4
  <2>5. CASE OfferRefused(r)
    BY <1>1, <2>2, <2>5 DEF OfferRefused, Finish, TypeOK
  <2>6. ASSUME NEW q \in Requests, q # r, Arrive(q) \/ Progress(q) \/ OfferRefused(q)
        PROVE  tx'[r] = tx[r]
    BY <1>1, <2>6, WhoActs
  <2>7. CASE UNCHANGED vars \/ Tick \/ (\E h \in Requests : ReleaseHold(h))
             \/ (\E c \in Categories, u \in Users : Join(c, u))
    BY <2>1, <2>7 DEF vars, Tick, ReleaseHold, Join, CheckJoin, InsertEntry, RefuseEntry,
        ReadPosition
  <2> QED  BY <2>1, <2>3, <2>4, <2>5, <2>6, <2>7 DEF Next
<1>11. ASSUME NEW h \in Requests
       PROVE  IF hold'[h].status = "NONE" THEN hold'[h] = NoHold ELSE hold'[h].seats # {}
  BY <1>1, <1>7 DEF HoldsHaveSeats
<1> QED  BY <1>10, <1>11 DEF HoldsHaveSeats

\* What was sold elsewhere stays sold elsewhere.
LEMMA SoldElsewhereLasts ==
  ASSUME SInv, BookingsAreWhole, Persists, NEW o \in Offered, SoldElsewhere(o)
  PROVE  SoldElsewhere(o)'
<1>1. PICK b \in Requests : /\ booking[b].offer \notin {NULL, o}
                            /\ booking[b].seats \cap offer[o[1]][o[2]].seats # {}
  BY DEF SoldElsewhere
<1>2. booking[b].status # "NONE"  BY <1>1 DEF BookingsAreWhole, NoBooking
<1>3. BookingStays(b)  BY <1>2, RowsLast
<1>4. OfferStays(o[1], o[2])
  <2>1. tx[o[1]] # DoneTx => offer[o[1]][o[2]] = NoOffer
    BY DEF SInv, WInv, QueueInv, OffersAreSound, Offered
  <2> QED  BY <1>1, <2>1 DEF NoOffer, Persists, Offered
<1> QED  BY <1>1, <1>3, <1>4 DEF BookingStays, OfferStays, SoldElsewhere

\* Nothing but an acceptance takes a reserved seat before the deadline of its offer.
LEMMA ReservedSeatStays ==
  ASSUME WInv, [Next]_vars, NEW s \in Seats, seat[s].state = "OFFER_RESERVED",
         seat[s].expiresAt > clock,
         \A r \in Requests : ~ AcceptOffer(r)
  PROVE  seat'[s] = seat[s]
<1> SUFFICES ASSUME seat'[s] # seat[s] PROVE FALSE
  OBVIOUS
<1>1. seat'[s].state \in {"BOOKED", "HELD"}
  BY SeatSteps DEF Moves, Reclaims
<1>2. CASE seat'[s].state = "HELD"
  <2> DEFINE wait == OfferTTL * (MaxCascade - 1)
  <2>1. clock >= seat[s].expiresAt + wait  BY <1>2, PatientStep
  <2>2. seat[s].expiresAt \in Nat /\ clock \in Nat
    BY StoreAssumption DEF WInv, IInv, TypeOK, ReservationsAreBacked
  <2>3. wait \in Nat
    <3>1. OfferTTL \in Nat /\ MaxCascade - 1 \in Nat  BY StoreAssumption
    <3> QED  BY <3>1
  <2> HIDE DEF wait
  <2> QED  BY <2>1, <2>2, <2>3
<1>3. CASE seat'[s].state = "BOOKED"
  <2>1. PICK r \in Requests : ConfirmBooking(r)
    <3>1. ASSUME NEW r \in Requests, CreateHold(r) PROVE FALSE
      BY <1>3, <3>1, Columns DEF CreateHold, WInv, IInv, TypeOK
    <3>2. ASSUME NEW r \in Requests, ReleaseHold(r) PROVE FALSE
      BY <1>3, <3>2, Columns, 0 \in Nat DEF ReleaseHold, WInv, IInv, TypeOK, HeldUnder
    <3>3. ASSUME NEW r \in Requests, CancelBooking(r) PROVE FALSE
      BY <1>3, <3>3 DEF CancelBooking, BookedUnder
    <3>4. ASSUME UNCHANGED seat PROVE FALSE  BY <3>4
    <3>5. ASSUME NEW r \in Requests, Arrive(r) PROVE UNCHANGED seat
      BY <3>5 DEF Arrive, BeginHold, BeginConfirm, BeginCancel, BeginAccept, Begin, tables
    <3>6. ASSUME NEW r \in Requests, Progress(r) PROVE ConfirmBooking(r)
      BY <3>1, <3>3, <3>4, <3>6
      DEF Progress, RefuseHold, ReadHoldSeats, RefuseConfirm, LockBooking, ClaimHeir,
          RefuseAccept, Rollback, tables
    <3>7. CASE UNCHANGED vars \/ Tick \/ \E c \in Categories, u \in Users : Join(c, u)
      BY <3>4, <3>7 DEF vars, Tick, Join, CheckJoin, InsertEntry, RefuseEntry, ReadPosition,
          tables
    <3> QED  BY <3>2, <3>4, <3>5, <3>6, <3>7 DEF Next
  <2> QED  BY <2>1 DEF ConfirmBooking, Confirmable, HeldUnder
<1> QED  BY <1>1, <1>2, <1>3

LEMMA OpenOffersNext ==
  ASSUME TInv, [Next]_vars \/ \E r \in Requests : OfferRefused(r)
  PROVE  OpenOffersAreKept'
<1> SUFFICES ASSUME NEW r \in Requests, NEW c \in Categories,
                    offer'[r][c].status = "PENDING", offer'[r][c].expiresAt > clock',
                    ~ SoldElsewhere(<<r, c>>)',
                    NEW s \in offer'[r][c].seats
             PROVE  seat'[s].state = "OFFER_RESERVED"
                    /\ seat'[s].expiresAt = offer'[r][c].expiresAt
  BY DEF OpenOffersAreKept
<1> DEFINE Goal == seat'[s].state = "OFFER_RESERVED"
                   /\ seat'[s].expiresAt = offer'[r][c].expiresAt
<1>1. /\ TypeOK /\ TypeOK' /\ SInv /\ WInv /\ BookingsAreWhole /\ OpenOffersAreKept
      /\ OffersAreSound /\ PaidSeatsAreOccupied
  <2>1. TypeOK'  BY TypeNext, TypeEnd DEF TInv, SInv, WInv, IInv, OfferRefused, tables
  <2> QED  BY <2>1 DEF TInv, SInv, WInv, IInv, QueueInv
<1>2. Persists  BY <1>1, StepsPersist
<1>3. s \in Seats /\ clock \in Nat /\ clock' \in Nat /\ clock' >= clock
  BY <1>1, <1>2 DEF TypeOK, OfferRows, Persists
<1> HIDE DEF Goal
\* An offer that was there.
<1>4. ASSUME offer[r][c].status # "NONE"
      PROVE  /\ offer[r][c].status = "PENDING" /\ offer[r][c].expiresAt > clock
             /\ offer'[r][c].expiresAt = offer[r][c].expiresAt
             /\ offer'[r][c].seats = offer[r][c].seats
             /\ ~ SoldElsewhere(<<r, c>>)
             /\ seat[s].state = "OFFER_RESERVED"
             /\ seat[s].expiresAt = offer[r][c].expiresAt
  <2>1. OfferStays(r, c)  BY <1>1, <1>2, <1>4, RowsLast
  <2>2. offer[r][c].expiresAt \in Nat  BY <1>1 DEF TypeOK, OfferRows
  <2>3. ~ SoldElsewhere(<<r, c>>)
    BY <1>1, <1>2, <1>4, SoldElsewhereLasts DEF Offered
  <2> QED  BY <1>1, <1>3, <2>1, <2>2, <2>3 DEF OfferStays, OpenOffersAreKept
<1>5. ASSUME offer[r][c].status # "NONE", seat'[s] = seat[s]
      PROVE  Goal
  BY <1>4, <1>5 DEF Goal
\* Its seats are sold to somebody else only through another offer.
<1>6. ASSUME offer[r][c].status # "NONE", NEW q \in Requests, AcceptOffer(q)
      PROVE  Goal
  <2> DEFINE by == tx[q].by
             k  == tx[q].category
  <2>1. by \in Requests /\ k \in Categories
    BY <1>1, <1>6, TxShape DEF AcceptOffer, AcceptTx
  <2>2. <<by, k>> # <<r, c>>
    <3> SUFFICES ASSUME by = r, k = c PROVE FALSE
      OBVIOUS
    <3>1. offer'[r][c] = Marked(offer[r][c], "PENDING", "ACCEPTED")
      BY <1>1, <1>6 DEF AcceptOffer, TypeOK
    <3>2. offer[r][c] \in OfferRows /\ offer[r][c].status = "PENDING"
      BY <1>1, <1>4, <1>6 DEF TypeOK
    <3> QED  BY <3>1, <3>2 DEF Marked, OfferRows
  <2>3. booking'[q] = NewBooking(offer[by][k].seats, NULL, <<by, k>>)
    BY <1>1, <1>6 DEF AcceptOffer, TypeOK
  <2>4. <<by, k>> # NULL  BY <2>1, StoreAssumption
  <2>5. s \notin offer[by][k].seats
    BY <1>4, <1>6, <2>2, <2>3, <2>4 DEF SoldElsewhere, NewBooking
  <2>6. seat'[s] = seat[s]
    BY <1>3, <1>6, <2>5 DEF AcceptOffer, StillReserved
  <2> QED  BY <1>5, <1>6, <2>6
<1>7. ASSUME offer[r][c].status # "NONE", [Next]_vars, \A q \in Requests : ~ AcceptOffer(q)
      PROVE  Goal
  <2>1. seat'[s] = seat[s]  BY <1>1, <1>3, <1>4, <1>7, ReservedSeatStays
  <2> QED  BY <1>5, <1>7, <2>1
<1>8. ASSUME offer[r][c].status # "NONE", NEW q \in Requests, OfferRefused(q)
      PROVE  Goal
  BY <1>5, <1>8 DEF OfferRefused, tables
\* One that is made now.
<1>9. ASSUME offer[r][c].status = "NONE" PROVE Goal
  <2>1. CancelBooking(r)
    <3>1. ASSUME offer'[r][c] = offer[r][c] PROVE FALSE  BY <1>9, <3>1
    <3>2. ASSUME NEW q \in Requests, AcceptOffer(q) PROVE FALSE
      <4>1. offer'[r][c] \in {offer[r][c], Marked(offer[r][c], "PENDING", "ACCEPTED")}
        BY <1>1, <3>2, MarksOneOffer
      <4>2. offer[r][c] \in OfferRows  BY <1>1 DEF TypeOK
      <4> QED  BY <1>9, <3>1, <4>1, <4>2 DEF Marked, OfferRows
    <3>3. ASSUME NEW q \in Requests, CancelBooking(q), q # r PROVE FALSE
      BY <1>1, <3>1, <3>3 DEF CancelBooking, TypeOK
    <3>4. ASSUME NEW q \in Requests, Progress(q) PROVE CancelBooking(r)
      BY <3>1, <3>2, <3>3, <3>4
      DEF Progress, CreateHold, RefuseHold, ReadHoldSeats, ConfirmBooking, RefuseConfirm,
          LockBooking, ClaimHeir, RefuseAccept, Rollback, tables
    <3>5. ASSUME NEW q \in Requests, Arrive(q) PROVE FALSE
      BY <3>1, <3>5
      DEF Arrive, BeginHold, BeginConfirm, BeginCancel, BeginAccept, Begin, tables
    <3>6. CASE UNCHANGED vars \/ Tick \/ (\E h \in Requests : ReleaseHold(h))
               \/ (\E d \in Categories, u \in Users : Join(d, u))
               \/ \E q \in Requests : OfferRefused(q)
      BY <3>1, <3>6
      DEF vars, Tick, ReleaseHold, Join, CheckJoin, InsertEntry, RefuseEntry, ReadPosition,
          OfferRefused, tables
    <3> QED  BY <3>4, <3>5, <3>6 DEF Next
  <2> DEFINE b == tx[r].booking
  <2>2. /\ tx[r].heir[c] # NULL
        /\ offer'[r][c] = InitialOffer(tx[r].heir[c], SeatsToFree(b, c), tx[r].now)
    BY <1>1, <1>9, <2>1 DEF CancelBooking, TypeOK
  <2>3. s \in BookedUnder(b) /\ CategoryOf[s] = c
    BY <2>2 DEF InitialOffer, SeatsToFree
  <2>4. seat'[s] = OfferReservedRow(seat[s], tx[r].now)
    BY <1>3, <2>1, <2>2, <2>3 DEF CancelBooking
  <2>5. seat[s] \in SeatRows  BY <1>1, <1>3 DEF TypeOK
  <2> QED  BY <2>2, <2>4, <2>5 DEF Goal, InitialOffer, OfferReservedRow, SeatRows
<1> QED  BY <1>6, <1>7, <1>8, <1>9 DEF Goal

LEMMA TInvApiStep ==
  ASSUME TInv, [ApiNext]_apiVars
  PROVE  TInv'
BY ApiStep, SInvApiStep, WholeNext, HoldSeatsNext, OpenOffersNext DEF TInv

-----------------------------------------------------------------------------
(* Mail.                                                                   *)

\* The row a mail is about is there.
HasRow(m) == IF m \in Offered THEN offer[m[1]][m[2]].status # "NONE"
                              ELSE booking[m].status # "NONE"

MailInv ==
  /\ outbox \subseteq Requests \cup Offered
  /\ inbox \subseteq Offered
  /\ MailsAreAboutRows

LEMMA HasRowLasts ==
  ASSUME SInv, Persists, NEW m \in Requests \cup Offered, HasRow(m)
  PROVE  HasRow(m)'
<1>1. CASE m \in Offered
  <2>1. OfferStays(m[1], m[2])  BY <1>1, RowsLast DEF HasRow, Offered
  <2> QED  BY <1>1, <2>1 DEF HasRow, OfferStays
<1>2. CASE m \notin Offered
  <2>1. BookingStays(m)  BY <1>2, RowsLast DEF HasRow
  <2> QED  BY <1>2, <2>1 DEF HasRow, BookingStays
<1> QED  BY <1>1, <1>2

\* Which mails are there after a step.
LEMMA MailsAfter ==
  ASSUME SInv, MailInv, Persists,
         NEW new \in SUBSET (Requests \cup Offered), \A m \in new : HasRow(m)',
         outbox' \subseteq outbox \cup new,
         inbox' \subseteq inbox \cup (outbox \cap Offered)
  PROVE  MailInv'
<1>1. ASSUME NEW m \in outbox' \cup inbox' PROVE HasRow(m)'
  <2>1. CASE m \in new  BY <2>1
  <2>2. CASE m \in outbox \cup inbox
    <3>1. m \in Requests \cup Offered /\ HasRow(m)
      BY <2>2 DEF MailInv, MailsAreAboutRows, HasRow
    <3> QED  BY <3>1, HasRowLasts
  <2> QED  BY <1>1, <2>1, <2>2
<1>2. outbox' \subseteq Requests \cup Offered /\ inbox' \subseteq Offered
  BY DEF MailInv
<1> QED  BY <1>1, <1>2 DEF MailInv, MailsAreAboutRows, HasRow

\* A mail leaves only when the row it is about has been committed, and never
\* comes from anywhere else.
LEMMA MailInvStep ==
  ASSUME TInv, MailInv, [ApiNext]_apiVars
  PROVE  MailInv'
<1>1. SInv /\ TypeOK /\ BookingsAreWhole  BY DEF TInv, SInv, WInv, IInv
<1>2. Persists  BY <1>1, ApiStep, StepsPersist
<1>3. CASE outbox' \subseteq outbox /\ inbox' \subseteq inbox \cup (outbox \cap Offered)
  <2>1. {} \in SUBSET (Requests \cup Offered) /\ \A m \in {} : HasRow(m)'
        /\ outbox' \subseteq outbox \cup {}
    BY <1>3
  <2> QED  BY <1>1, <1>2, <1>3, <2>1, MailsAfter
<1>4. ASSUME NEW r \in Requests, Booked(r) PROVE MailInv'
  <2>1. booking'[r].status = "CONFIRMED"
    BY <1>1, <1>4 DEF Booked, ConfirmBooking, NewBooking, TypeOK
  <2>2. \A m \in {r} : HasRow(m)'
    BY <2>1, KindsAssumption DEF HasRow, Offered
  <2>3. outbox' \subseteq outbox \cup {r} /\ inbox' = inbox
    BY <1>4 DEF Booked, FireAndForget
  <2>4. {r} \in SUBSET (Requests \cup Offered) /\ inbox' \subseteq inbox \cup (outbox \cap Offered)
    BY <2>3
  <2> QED  BY <1>1, <1>2, <2>2, <2>3, <2>4, MailsAfter
<1>5. ASSUME NEW r \in Requests, BookingCancelled(r) PROVE MailInv'
  <2> DEFINE new == {<<r, c>> : c \in {k \in Categories : tx[r].heir[k] # NULL}}
  <2>0. PICK mails : mails = new  OBVIOUS
  <2>1. mails \subseteq Offered  BY <2>0 DEF Offered
  <2>2. ASSUME NEW m \in mails PROVE HasRow(m)'
    <3>1. PICK c \in Categories : m = <<r, c>> /\ tx[r].heir[c] # NULL  BY <2>0, <2>2
    <3>2. offer'[r][c].status = "PENDING"
      BY <1>1, <1>5, <3>1 DEF BookingCancelled, CancelBooking, InitialOffer, TypeOK
    <3> QED  BY <3>1, <3>2 DEF HasRow, Offered
  <2>3. outbox' \subseteq outbox \cup mails /\ inbox' = inbox
    BY <1>5, <2>0 DEF BookingCancelled, FireAndForget
  <2> QED  BY <1>1, <1>2, <2>1, <2>2, <2>3, MailsAfter
<1>6. ASSUME NEW r \in Requests, Serve(r) PROVE MailInv'
  <2>1. CASE Booked(r) \/ BookingCancelled(r)  BY <1>4, <1>5, <2>1
  <2>2. CASE ~ (Booked(r) \/ BookingCancelled(r))
    <3>1. UNCHANGED <<outbox, inbox>>
      BY <1>6, <2>2
      DEF Serve, PostHold, HoldCreated, HoldRefused, PostConfirm, SeatsRead, ConfirmRefused,
          PostCancel, BookingLocked, HeirClaimed, PostAccept, OfferRefused, OfferAccepted,
          AcceptRefused, RolledBack, Quietly, NoMail, apiOnly, About
    <3> QED  BY <1>3, <3>1
  <2> QED  BY <2>1, <2>2
<1>7. ASSUME NEW h \in Requests, DeleteHold(h) PROVE MailInv'
  BY <1>3, <1>7 DEF DeleteHold, Quietly, apiOnly
<1>8. ASSUME NEW c \in Categories, NEW u \in Users, PostJoin(c, u) \/ AskStatus(c, u)
      PROVE  MailInv'
  BY <1>3, <1>8 DEF PostJoin, AskStatus, Quietly, apiOnly
<1>9. CASE StatusAnswered \/ (Tick /\ Quietly) \/ UNCHANGED apiVars
  BY <1>3, <1>9 DEF StatusAnswered, Quietly, apiVars, apiOnly
<1>10. CASE \E r \in Requests : SendBookingConfirmedEmail(r)
  BY <1>3, <1>10 DEF SendBookingConfirmedEmail, SendMail
<1>11. CASE \E o \in Offered : SendWaitlistOfferEmail(o)
  BY <1>3, <1>11 DEF SendWaitlistOfferEmail, SendMail
<1>12. CASE \E m \in outbox : MailFails(m)
  BY <1>3, <1>12 DEF MailFails, SendMail
<1> QED  BY <1>6, <1>7, <1>8, <1>9, <1>10, <1>11, <1>12 DEF ApiNext

LEMMA AlwaysMailInv == ApiSpec => [](TInv /\ MailInv)
<1>1. Init /\ ApiInit => TInv /\ MailInv
  BY TInvInit DEF ApiInit, MailInv, MailsAreAboutRows
<1>2. TInv /\ MailInv /\ [ApiNext]_apiVars => (TInv /\ MailInv)'
  BY TInvApiStep, MailInvStep
<1> QED  BY <1>1, <1>2, PTL DEF ApiSpec

\* No mail is about something that was never committed, whatever is lost or fails
\* (fireAndForget() after the service call).
THEOREM MailsAreTrue == ApiSpec => []MailsAreAboutRows
<1>1. MailInv => MailsAreAboutRows  BY DEF MailInv
<1> QED  BY AlwaysMailInv, <1>1, PTL

-----------------------------------------------------------------------------
(* Pages.                                                                  *)

\* What the seat map and the offer page show, a write finds
\* (EFFECTIVE_STATE_CASE, acquireSeats, confirmOfferSeats).
THEOREM PagesShowWhatIs == ApiSpec => []PagesAreHonest
<1>1. ASSUME TInv, MailInv PROVE PagesAreHonest
  <2>1. ASSUME NEW s \in Seats
        PROVE  SeatMap[s] = "AVAILABLE" <=> Acquirable(seat[s], clock)
    <3>1. SeatMap[s] = EffectiveState(seat[s], clock)  BY DEF SeatMap
    <3>2. CASE seat[s].state = "HELD"
      BY <3>1, <3>2 DEF EffectiveState, Acquirable
    <3>3. CASE seat[s].state = "OFFER_RESERVED"
      BY <3>1, <3>3 DEF EffectiveState, Acquirable
    <3>4. CASE seat[s].state \notin {"HELD", "OFFER_RESERVED"}
      BY <3>1, <3>4 DEF EffectiveState, Acquirable
    <3> QED  BY <3>2, <3>3, <3>4
  <2>2. ASSUME NEW o \in inbox, OfferPage(o) = "open", ~ SoldElsewhere(o),
               NEW s \in offer[o[1]][o[2]].seats
        PROVE  seat[s].state = "OFFER_RESERVED" /\ seat[s].expiresAt > clock
    <3>1. PICK r \in Requests, c \in Categories : o = <<r, c>>
      BY <1>1 DEF MailInv, Offered
    <3>2. clock \in Nat /\ offer[r][c].expiresAt \in Nat
      BY <1>1 DEF TInv, SInv, WInv, IInv, TypeOK, OfferRows
    <3>3. offer[r][c].status = "PENDING" /\ offer[r][c].expiresAt > clock
      BY <2>2, <3>1, <3>2 DEF OfferPage
    <3> QED  BY <1>1, <2>2, <3>1, <3>3 DEF TInv, OpenOffersAreKept
  <2> QED  BY <2>1, <2>2 DEF PagesAreHonest
<1> QED  BY AlwaysMailInv, <1>1, PTL

\* A seat that is occupied is in one sale of the summary: the booking it is BOOKED
\* under is the only CONFIRMED one that has it (getEventSummaryByCategory).
THEOREM SummaryIsExact == ApiSpec => []SummaryCountsSeatsOnce
<1>1. ASSUME TInv, NEW c \in Categories
      PROVE  Sold(c) = Cardinality({s \in Seats : CategoryOf[s] = c
                                                 /\ seat[s].state = "BOOKED"})
  <2> DEFINE occupied == {s \in Seats : CategoryOf[s] = c /\ seat[s].state = "BOOKED"}
             sales    == {sale \in Seats \X Requests :
                            /\ CategoryOf[sale[1]] = c
                            /\ sale[1] \in booking[sale[2]].seats
                            /\ booking[sale[2]].status = "CONFIRMED"}
             saleOf   == [s \in occupied |-> <<s, seat[s].booking>>]
  <2>1. PaidSeatsAreOccupied /\ BookingsAreWhole  BY <1>1 DEF TInv, SInv, WInv, IInv
  <2>2. ASSUME NEW s \in Seats, NEW b \in Requests
        PROVE  /\ s \in booking[b].seats /\ booking[b].status = "CONFIRMED"
               <=> seat[s].state = "BOOKED" /\ seat[s].booking = b
    <3>1. s \in BookedUnder(b) <=> seat[s].booking = b /\ seat[s].state = "BOOKED"
      BY DEF BookedUnder
    <3>2. booking[b].status = "CONFIRMED" <=> booking[b].payment = "CAPTURED"
      BY <2>1 DEF BookingsAreWhole
    <3>3. BookedUnder(b) = IF booking[b].payment = "CAPTURED" THEN booking[b].seats ELSE {}
      BY <2>1 DEF PaidSeatsAreOccupied
    <3> QED  BY <3>1, <3>2, <3>3
  <2>3. ASSUME NEW s \in occupied PROVE seat[s].booking \in Requests /\ saleOf[s] \in sales
    <3>1. s \in Seats /\ CategoryOf[s] = c /\ seat[s].state = "BOOKED"  BY <2>3
    <3>2. seat[s].booking \in Requests  BY <2>1, <3>1 DEF PaidSeatsAreOccupied
    <3>3. saleOf[s] = <<s, seat[s].booking>>  BY <2>3
    <3> QED  BY <2>2, <3>1, <3>2, <3>3
  <2>4. ASSUME NEW sale \in sales PROVE \E s \in occupied : saleOf[s] = sale
    <3>1. PICK s \in Seats, b \in Requests : sale = <<s, b>>  BY <2>4
    <3>2. s \in occupied /\ seat[s].booking = b  BY <2>2, <2>4, <3>1
    <3> QED  BY <3>1, <3>2
  <2>5. saleOf \in Bijection(occupied, sales)
    <3>1. saleOf \in [occupied -> sales]  BY <2>3
    <3>2. IsInjective(saleOf)  BY DEF IsInjective
    <3> QED  BY <2>4, <3>1, <3>2 DEF Bijection, Injection, Surjection
  <2>6. IsFiniteSet(occupied)
    <3>1. occupied \in SUBSET Seats /\ IsFiniteSet(Seats)  BY StoreAssumption
    <3> QED  BY <3>1, FS_Subset
  <2>7. Cardinality(sales) = Cardinality(occupied)
    BY <2>5, <2>6, FS_Bijection DEF ExistsBijection
  <2> QED  BY <2>7 DEF Sold
<1>2. TInv => SummaryCountsSeatsOnce  BY <1>1 DEF SummaryCountsSeatsOnce
<1> QED  BY AlwaysMailInv, <1>2, PTL

-----------------------------------------------------------------------------
(* Answers.                                                                *)

\* A hold, an offer, that no confirmation, no acceptance, begun now can use.
HoldIsGone(h) ==
  /\ hold[h].status # "NONE"
  /\ hold[h].status # "ACTIVE" \/ hold[h].expiresAt <= clock
OfferIsGone(o) ==
  /\ offer[o[1]][o[2]].status # "NONE"
  /\ \/ offer[o[1]][o[2]].status # "PENDING"
     \/ offer[o[1]][o[2]].expiresAt <= clock
     \/ SoldElsewhere(o)

\* What was said to r is so.
Stands(r, code, of) ==
  /\ code = "created" => hold[r].status # "NONE" \/ booking[r].status # "NONE"
  /\ code \in Refusals => hold[r] = NoHold /\ booking[r] = NoBooking
  /\ code = "HOLD_EXPIRED" => of \in Requests /\ HoldIsGone(of)
  /\ code \in {"OFFER_INVALID", "OFFER_EXPIRED"} => of \in Offered /\ OfferIsGone(of)
  /\ code = "cancelled" => of \in Requests /\ booking[of].status = "CANCELLED"

AnswersInv ==
  /\ answer \in [Requests -> Answers]
  /\ \A r \in Requests :
       answer[r].code # "none" =>
         tx[r] = DoneTx /\ Stands(r, answer[r].code, answer[r].of)
  /\ CancelledOnce

LEMMA GoneLasts ==
  ASSUME TInv, TInv', Persists
  PROVE  /\ \A h \in Requests : HoldIsGone(h) => HoldIsGone(h)'
         /\ \A o \in Offered : OfferIsGone(o) => OfferIsGone(o)'
<1>1. /\ clock \in Nat /\ clock' \in Nat /\ clock' >= clock
      /\ TypeOK /\ SInv /\ BookingsAreWhole
  BY DEF TInv, SInv, WInv, IInv, TypeOK, Persists
<1>2. ASSUME NEW h \in Requests, HoldIsGone(h) PROVE HoldIsGone(h)'
  <2>1. HoldStays(h)  BY <1>1, <1>2, RowsLast DEF HoldIsGone
  <2>2. hold[h].expiresAt \in Nat  BY <1>1 DEF TypeOK, HoldRows
  <2> QED  BY <1>1, <1>2, <2>1, <2>2 DEF HoldStays, HoldIsGone
<1>3. ASSUME NEW o \in Offered, OfferIsGone(o) PROVE OfferIsGone(o)'
  <2>1. OfferStays(o[1], o[2])  BY <1>1, <1>3, RowsLast DEF OfferIsGone, Offered
  <2>2. offer[o[1]][o[2]].expiresAt \in Nat  BY <1>1 DEF TypeOK, OfferRows, Offered
  <2>3. SoldElsewhere(o) => SoldElsewhere(o)'
    BY <1>1, <1>3, SoldElsewhereLasts DEF OfferIsGone
  <2> QED  BY <1>1, <1>3, <2>1, <2>2, <2>3 DEF OfferStays, OfferIsGone
<1> QED  BY <1>2, <1>3

LEMMA StandsLasts ==
  ASSUME TInv, TInv', Persists, NEW r \in Requests, tx[r] = DoneTx,
         NEW code, NEW of, Stands(r, code, of)
  PROVE  Stands(r, code, of)'
<1>1. SInv /\ HoldStays(r) /\ BookingStays(r)  BY DEF Persists, TInv
<1>2. hold[r] = NoHold => hold'[r] = NoHold
  BY <1>1 DEF TInv, HoldsHaveSeats, HoldStays, NoHold
<1>3. booking[r] = NoBooking => booking'[r] = NoBooking
  <2> SUFFICES ASSUME booking[r] = NoBooking PROVE booking'[r] = NoBooking
    OBVIOUS
  <2>1. booking[r].status = "NONE"  BY DEF NoBooking
  <2>2. booking'[r].status = "NONE"  BY <1>1, <2>1 DEF BookingStays
  <2>3. BookingsAreWhole'  BY DEF TInv
  <2> QED  BY <2>2, <2>3 DEF BookingsAreWhole
<1>4. ASSUME code = "cancelled" PROVE of \in Requests /\ booking'[of].status = "CANCELLED"
  <2>1. of \in Requests /\ booking[of].status = "CANCELLED"  BY <1>4 DEF Stands
  <2>2. BookingStays(of)  BY <1>1, <2>1, RowsLast
  <2> QED  BY <2>1, <2>2 DEF BookingStays
<1>5. code = "created" => hold'[r].status # "NONE" \/ booking'[r].status # "NONE"
  BY <1>1 DEF Stands, HoldStays, BookingStays
<1>6. code = "HOLD_EXPIRED" => of \in Requests /\ HoldIsGone(of)'
  BY GoneLasts DEF Stands
<1>7. code \in {"OFFER_INVALID", "OFFER_EXPIRED"} => of \in Offered /\ OfferIsGone(of)'
  BY GoneLasts DEF Stands
<1> QED  BY <1>2, <1>3, <1>4, <1>5, <1>6, <1>7 DEF Stands

\* A confirmation that finds no seats of its hold, or not all it had read, has a
\* hold that is over.
LEMMA WhyExpired ==
  ASSUME TInv, NEW r \in Requests,
         \/ tx[r].pc = "confirm" /\ HeldUnder(tx[r].hold) = {}
         \/ tx[r].pc = "checkedOut"
            /\ ~ Complete(Confirmable(tx[r].hold, tx[r].now), tx[r].seats)
  PROVE  tx[r].hold \in Requests /\ HoldIsGone(tx[r].hold)
<1> DEFINE h == tx[r].hold
<1>1. /\ TypeOK /\ LiveHoldKeepsSeats /\ HoldsHaveSeats /\ ReadsStaySound
  BY DEF TInv, SInv, WInv, IInv
<1>2. h \in Requests /\ tx[r].now \in Nat /\ InFlight(r)
  BY <1>1, TxShape DEF ConfirmTx, CheckedOut, InFlight, NewTx, DoneTx
<1>3. hold[h].status # "NONE"  BY <1>1 DEF ReadsStaySound
<1>4. clock \in Nat /\ hold[h].expiresAt \in Nat /\ tx[r].now <= clock
  BY <1>1, <1>2 DEF TypeOK, HoldRows, ReadsStaySound
<1> SUFFICES ASSUME hold[h].status = "ACTIVE", hold[h].expiresAt > clock PROVE FALSE
  BY <1>2, <1>3, <1>4 DEF HoldIsGone
<1>5. \A s \in hold[h].seats : s \in HeldUnder(h) /\ seat[s].expiresAt = hold[h].expiresAt
  BY <1>1, <1>2 DEF LiveHoldKeepsSeats
<1>6. hold[h].seats # {}  BY <1>1, <1>2, <1>3 DEF HoldsHaveSeats
<1>7. CASE tx[r].pc = "confirm"  BY <1>5, <1>6, <1>7
<1>8. CASE tx[r].pc = "checkedOut"
  <2>1. tx[r].seats \subseteq hold[h].seats /\ HeldUnder(h) \subseteq tx[r].seats
    BY <1>1, <1>8 DEF HoldsHaveSeats, ReadsStaySound
  <2>2. hold[h].expiresAt > tx[r].now  BY <1>2, <1>4
  <2>3. Confirmable(h, tx[r].now) = tx[r].seats
    BY <1>5, <2>1, <2>2 DEF Confirmable
  <2>4. tx[r].seats \in SUBSET Seats  BY <1>1, <1>8, TxShape DEF CheckedOut
  <2>5. Cardinality(tx[r].seats) \in Nat
    BY <2>4, StoreAssumption, FS_Subset, FS_CardinalityType
  <2> QED  BY <1>8, <2>3, <2>5 DEF Complete
<1> QED  BY <1>7, <1>8

\* So has an acceptance that does not find all seats of its offer.
LEMMA WhyInvalid ==
  ASSUME TInv, NEW r \in Requests, RefuseAccept(r)
  PROVE  LET o == <<tx[r].by, tx[r].category>> IN o \in Offered /\ OfferIsGone(o)
<1> DEFINE by == tx[r].by
           c  == tx[r].category
           S  == offer[by][c].seats
<1>1. /\ TypeOK /\ OffersAreSound /\ ReadsStaySound /\ OpenOffersAreKept
  BY DEF TInv, SInv, WInv, IInv, QueueInv
<1>2. by \in Requests /\ c \in Categories /\ tx[r].now \in Nat /\ InFlight(r)
  BY <1>1, TxShape DEF RefuseAccept, AcceptTx, InFlight, NewTx, DoneTx
<1>3. offer[by][c].status # "NONE"  BY <1>1 DEF RefuseAccept, OffersAreSound
<1>4. clock \in Nat /\ offer[by][c].expiresAt \in Nat /\ tx[r].now <= clock
      /\ S \in SUBSET Seats
  BY <1>1, <1>2 DEF TypeOK, OfferRows, ReadsStaySound
<1> SUFFICES ASSUME ~ OfferIsGone(<<by, c>>) PROVE FALSE
  BY <1>2 DEF Offered
<1>5. /\ offer[by][c].status = "PENDING" /\ offer[by][c].expiresAt > clock
      /\ ~ SoldElsewhere(<<by, c>>)
  BY <1>3, <1>4, SMTT(30) DEF OfferIsGone
<1>6. \A s \in S : seat[s].state = "OFFER_RESERVED" /\ seat[s].expiresAt = offer[by][c].expiresAt
  BY <1>1, <1>2, <1>5 DEF OpenOffersAreKept
<1>7. StillReserved(S, tx[r].now) = S
  BY <1>2, <1>4, <1>5, <1>6 DEF StillReserved
<1>8. Cardinality(S) \in Nat
  BY <1>4, StoreAssumption, FS_Subset, FS_CardinalityType
<1> QED  BY <1>7, <1>8 DEF RefuseAccept, Complete

\* One request is answered, and what it is told is so when it is told.
AnswerGiven(r) ==
  \E a \in Answers :
    /\ answer' = [answer EXCEPT ![r] = a]
    /\ tx[r] # DoneTx /\ tx'[r] = DoneTx
    /\ Stands(r, a.code, a.of)'
    /\ a.code = "cancelled" => booking[a.of].status = "CONFIRMED"

\* The lines of AnswerGiven for a code that is told.
LEMMA Told ==
  ASSUME NEW r \in Requests, TypeOK, NEW code, NEW of, [code |-> code, of |-> of] \in Answers,
         Tell(r, code, of), tx[r] # DoneTx, tx' = [tx EXCEPT ![r] = DoneTx],
         Stands(r, code, of)',
         code = "cancelled" => booking[of].status = "CONFIRMED"
  PROVE  AnswerGiven(r)
<1> DEFINE a == [code |-> code, of |-> of]
<1>1. a.code = code /\ a.of = of  OBVIOUS
<1>2. answer' = [answer EXCEPT ![r] = a] /\ tx'[r] = DoneTx  BY DEF Tell, TypeOK
<1>3. Stands(r, a.code, a.of)'  BY <1>1
<1> HIDE DEF a
<1> QED  BY <1>1, <1>2, <1>3 DEF AnswerGiven, a

\* A 500 says nothing.
LEMMA Failed ==
  ASSUME NEW r \in Requests, TypeOK, Fail(r), tx[r] # DoneTx, Finish(r)
  PROVE  AnswerGiven(r)
<1>1. Tell(r, "INTERNAL_ERROR", NULL) /\ tx' = [tx EXCEPT ![r] = DoneTx]
  BY DEF Fail, Finish
<1>2. [code |-> "INTERNAL_ERROR", of |-> NULL] \in Answers  BY DEF Answers
<1>3. Stands(r, "INTERNAL_ERROR", NULL)'  BY DEF Stands, Refusals, Gone
<1> QED  BY <1>1, <1>2, <1>3, Told

\* A 201 says that a row is there.
LEMMA Created ==
  ASSUME NEW r \in Requests, TypeOK, Tell(r, "created", NULL), tx[r] # DoneTx, Finish(r),
         hold'[r].status # "NONE" \/ booking'[r].status # "NONE"
  PROVE  AnswerGiven(r)
<1>1. tx' = [tx EXCEPT ![r] = DoneTx]  BY DEF Finish
<1>2. [code |-> "created", of |-> NULL] \in Answers  BY DEF Answers
<1>3. Stands(r, "created", NULL)'  BY DEF Stands, Refusals, Gone
<1> QED  BY <1>1, <1>2, <1>3, Told

\* A refusal says that no row is, and what stood in the way.
LEMMA Refused ==
  ASSUME NEW r \in Requests, TInv, TInv', NEW code \in Refusals,
         NEW of \in Requests \cup Offered \cup {NULL},
         Tell(r, code, of), tx[r] # DoneTx, Finish(r), UNCHANGED <<clock, tables>>,
         code = "HOLD_EXPIRED" => of \in Requests /\ HoldIsGone(of),
         code \in {"OFFER_INVALID", "OFFER_EXPIRED"} => of \in Offered /\ OfferIsGone(of)
  PROVE  AnswerGiven(r)
<1>1. TypeOK /\ ReadsStaySound /\ tx' = [tx EXCEPT ![r] = DoneTx]
  BY DEF TInv, SInv, WInv, IInv, Finish
<1>2. [code |-> code, of |-> of] \in Answers  BY DEF Answers
<1>3. hold'[r] = NoHold /\ booking'[r] = NoBooking
  BY <1>1 DEF ReadsStaySound, tables
<1>4. /\ code = "HOLD_EXPIRED" => of \in Requests /\ HoldIsGone(of)'
      /\ code \in {"OFFER_INVALID", "OFFER_EXPIRED"} => of \in Offered /\ OfferIsGone(of)'
  BY DEF tables, HoldIsGone, OfferIsGone, SoldElsewhere
<1>5. Stands(r, code, of)'
  <2>1. code # "created" /\ code # "cancelled"  BY DEF Refusals, Gone
  <2> QED  BY <1>3, <1>4, <2>1 DEF Stands
<1> QED  BY <1>1, <1>2, <1>5, Told DEF Refusals, Gone

LEMMA AnswerStep ==
  ASSUME TInv, TInv', MailInv, [ApiNext]_apiVars
  PROVE  UNCHANGED answer \/ \E r \in Requests : AnswerGiven(r)
<1>1. TypeOK /\ ReadsStaySound /\ BookingsAreWhole
  BY DEF TInv, SInv, WInv, IInv
<1>2. ASSUME NEW r \in Requests, Progress(r) PROVE tx[r] # DoneTx
  BY <1>1, <1>2, WhoActs
<1>3. ASSUME NEW r \in Requests, HoldCreated(r) PROVE AnswerGiven(r)
  <2>1. CreateHold(r) /\ Finish(r) /\ tx[r] # DoneTx
    BY <1>2, <1>3 DEF HoldCreated, CreateHold, Progress
  <2>2. hold'[r].status = "ACTIVE"  BY <1>1, <2>1 DEF CreateHold, TypeOK
  <2> QED  BY <1>1, <1>3, <2>1, <2>2, Created, Failed DEF HoldCreated
<1>4. ASSUME NEW r \in Requests, HoldRefused(r) PROVE AnswerGiven(r)
  <2>1. /\ Tell(r, "SEATS_UNAVAILABLE", NULL) /\ Finish(r) /\ tx[r] # DoneTx
        /\ UNCHANGED <<clock, tables>>
    BY <1>2, <1>4 DEF HoldRefused, RefuseHold, Progress
  <2>2. "SEATS_UNAVAILABLE" \in Refusals  BY DEF Refusals
  <2> QED  BY <2>1, <2>2, Refused
<1>5. ASSUME NEW r \in Requests, SeatsRead(r), tx'[r] = DoneTx PROVE AnswerGiven(r)
  <2>1. ReadHoldSeats(r) /\ tx[r].pc = "confirm" /\ tx[r] # DoneTx
    BY <1>2, <1>5 DEF SeatsRead, ReadHoldSeats, Progress
  <2>2. HeldUnder(tx[r].hold) = {}
    BY <1>1, <1>5, <2>1 DEF ReadHoldSeats, DoneTx, TypeOK
  <2>3. Tell(r, "HOLD_EXPIRED", tx[r].hold) /\ Finish(r) /\ UNCHANGED <<clock, tables>>
    BY <1>5, <2>1, <2>2 DEF SeatsRead, ReadHoldSeats, Finish
  <2>4. tx[r].hold \in Requests /\ HoldIsGone(tx[r].hold)  BY <2>1, <2>2, WhyExpired
  <2>5. "HOLD_EXPIRED" \in Refusals  BY DEF Refusals, Gone
  <2> QED  BY <2>1, <2>3, <2>4, <2>5, Refused
<1>6. ASSUME NEW r \in Requests, SeatsRead(r) PROVE UNCHANGED answer \/ AnswerGiven(r)
  BY <1>5, <1>6 DEF SeatsRead
<1>7. ASSUME NEW r \in Requests, Booked(r) PROVE AnswerGiven(r)
  <2>1. ConfirmBooking(r) /\ Finish(r) /\ tx[r] # DoneTx
    BY <1>2, <1>7 DEF Booked, ConfirmBooking, Progress
  <2>2. booking'[r].status = "CONFIRMED"
    BY <1>1, <2>1 DEF ConfirmBooking, NewBooking, TypeOK
  <2> QED  BY <1>1, <1>7, <2>1, <2>2, Created, Failed DEF Booked
<1>8. ASSUME NEW r \in Requests, ConfirmRefused(r) PROVE AnswerGiven(r)
  <2>1. /\ Tell(r, "HOLD_EXPIRED", tx[r].hold) /\ Finish(r) /\ tx[r] # DoneTx
        /\ UNCHANGED <<clock, tables>>
        /\ tx[r].pc = "checkedOut"
        /\ ~ Complete(Confirmable(tx[r].hold, tx[r].now), tx[r].seats)
    BY <1>2, <1>8 DEF ConfirmRefused, RefuseConfirm, Progress
  <2>2. tx[r].hold \in Requests /\ HoldIsGone(tx[r].hold)  BY <2>1, WhyExpired
  <2>3. "HOLD_EXPIRED" \in Refusals  BY DEF Refusals, Gone
  <2> QED  BY <2>1, <2>2, <2>3, Refused
<1>9. ASSUME NEW r \in Requests, BookingCancelled(r) PROVE AnswerGiven(r)
  <2>1. CancelBooking(r) /\ Finish(r) /\ tx[r] # DoneTx /\ tx' = [tx EXCEPT ![r] = DoneTx]
    BY <1>2, <1>9 DEF BookingCancelled, CancelBooking, Finish, Progress
  <2>2. PICK b \in Requests : b = tx[r].booking
    BY <1>1, <2>1, TxShape DEF CancelBooking, Cancelling, CancelTx
  <2>3. CASE Fail(r)  BY <1>1, <2>1, <2>3, Failed
  <2>4. CASE Tell(r, CancelAnswer(booking[b]), b) /\ booking[b].status = "CONFIRMED"
    <3>1. Tell(r, "cancelled", b)  BY <2>4 DEF CancelAnswer
    <3>2. booking'[b].status = "CANCELLED"
      <4>1. booking'[b] = Cancelled(booking[b])
        BY <1>1, <2>1, <2>2 DEF CancelBooking, TypeOK
      <4>2. booking[b] \in BookingRows  BY <1>1 DEF TypeOK
      <4> QED  BY <2>4, <4>1, <4>2 DEF Cancelled, BookingRows
    <3>3. Stands(r, "cancelled", b)'  BY <3>2 DEF Stands, Refusals, Gone
    <3>4. [code |-> "cancelled", of |-> b] \in Answers  BY DEF Answers
    <3> QED  BY <1>1, <2>1, <2>4, <3>1, <3>3, <3>4, Told
  <2>5. CASE Tell(r, CancelAnswer(booking[b]), b) /\ booking[b].status # "CONFIRMED"
    <3>1. Tell(r, "nothingToCancel", b)  BY <2>5 DEF CancelAnswer
    <3>2. Stands(r, "nothingToCancel", b)'  BY DEF Stands, Refusals, Gone
    <3>3. [code |-> "nothingToCancel", of |-> b] \in Answers  BY DEF Answers
    <3> QED  BY <1>1, <2>1, <3>1, <3>2, <3>3, Told
  <2> QED  BY <1>9, <2>2, <2>3, <2>4, <2>5 DEF BookingCancelled
<1>10. ASSUME NEW r \in Requests, OfferRefused(r) PROVE AnswerGiven(r)
  <2>1. PICK o \in inbox : OfferPage(o) \in Gone /\ Tell(r, OfferPage(o), o)
    BY <1>10 DEF OfferRefused
  <2>2. PICK code : code = OfferPage(o)  OBVIOUS
  <2>3. o \in Offered /\ offer[o[1]][o[2]].status # "NONE"
    BY <2>1 DEF MailInv, MailsAreAboutRows
  <2>4. code \in {"OFFER_INVALID", "OFFER_EXPIRED"} /\ OfferIsGone(o)
    <3>1. CASE offer[o[1]][o[2]].status # "PENDING"
      BY <2>2, <2>3, <3>1 DEF OfferPage, OfferIsGone
    <3>2. CASE /\ offer[o[1]][o[2]].status = "PENDING"
               /\ offer[o[1]][o[2]].expiresAt <= clock
      BY <2>2, <2>3, <3>2 DEF OfferPage, OfferIsGone
    <3>3. CASE /\ offer[o[1]][o[2]].status = "PENDING"
               /\ ~ (offer[o[1]][o[2]].expiresAt <= clock)
      BY <2>1, <3>3 DEF OfferPage, Gone
    <3> QED  BY <3>1, <3>2, <3>3
  <2>5. tx[r] # DoneTx /\ Finish(r) /\ UNCHANGED <<clock, tables>>
    BY <1>10 DEF OfferRefused, NewTx, DoneTx
  <2>6. code \in Refusals /\ code # "HOLD_EXPIRED"  BY <2>4 DEF Refusals, Gone
  <2> QED  BY <2>1, <2>2, <2>3, <2>4, <2>5, <2>6, Refused
<1>11. ASSUME NEW r \in Requests, OfferAccepted(r) PROVE AnswerGiven(r)
  <2>1. AcceptOffer(r) /\ Finish(r) /\ tx[r] # DoneTx
    BY <1>2, <1>11 DEF OfferAccepted, AcceptOffer, Progress
  <2>2. booking'[r].status = "CONFIRMED"
    BY <1>1, <2>1 DEF AcceptOffer, NewBooking, TypeOK
  <2> QED  BY <1>1, <1>11, <2>1, <2>2, Created, Failed DEF OfferAccepted
<1>12. ASSUME NEW r \in Requests, AcceptRefused(r) PROVE AnswerGiven(r)
  <2>1. RefuseAccept(r) /\ Finish(r) /\ tx[r] # DoneTx /\ UNCHANGED <<clock, tables>>
    BY <1>2, <1>12 DEF AcceptRefused, RefuseAccept, Progress
  <2>2. PICK o : o = <<tx[r].by, tx[r].category>>  OBVIOUS
  <2>3. o \in Offered /\ OfferIsGone(o)  BY <2>1, <2>2, WhyInvalid
  <2>4. Tell(r, "OFFER_INVALID", o)  BY <1>12, <2>2 DEF AcceptRefused
  <2>5. "OFFER_INVALID" \in Refusals /\ "OFFER_INVALID" # "HOLD_EXPIRED"
    BY DEF Refusals, Gone
  <2> QED  BY <2>1, <2>3, <2>4, <2>5, Refused
<1>13. ASSUME NEW r \in Requests, RolledBack(r) PROVE AnswerGiven(r)
  <2>1. Rollback(r) /\ Finish(r) /\ tx[r] # DoneTx
    BY <1>2, <1>13 DEF RolledBack, Rollback, Progress
  <2> QED  BY <1>1, <1>13, <2>1, Failed DEF RolledBack
<1>14. ASSUME NEW r \in Requests, Serve(r) PROVE UNCHANGED answer \/ AnswerGiven(r)
  BY <1>3, <1>4, <1>6, <1>7, <1>8, <1>9, <1>10, <1>11, <1>12, <1>13, <1>14
  DEF Serve, PostHold, PostConfirm, PostCancel, BookingLocked, HeirClaimed, PostAccept,
      About, Quietly, apiOnly
<1>15. CASE (\E h \in Requests : DeleteHold(h)) \/ (Tick /\ Quietly) \/ StatusAnswered
            \/ (\E c \in Categories, u \in Users : PostJoin(c, u) \/ AskStatus(c, u))
            \/ UNCHANGED apiVars
  BY <1>15 DEF DeleteHold, Quietly, apiOnly, apiVars, StatusAnswered, PostJoin, AskStatus
<1>16. CASE \/ \E r \in Requests : SendBookingConfirmedEmail(r)
            \/ \E o \in Offered : SendWaitlistOfferEmail(o)
            \/ \E m \in outbox : MailFails(m)
  BY <1>16 DEF SendBookingConfirmedEmail, SendWaitlistOfferEmail, MailFails, SendMail
<1> QED  BY <1>14, <1>15, <1>16 DEF ApiNext

LEMMA AnswersInvStep ==
  ASSUME TInv, TInv', MailInv, AnswersInv, [ApiNext]_apiVars
  PROVE  AnswersInv'
<1>1. Persists  BY ApiStep, StepsPersist DEF TInv, SInv, WInv, IInv
<1>2. ASSUME NEW r \in Requests, answer[r].code # "none", answer'[r] = answer[r]
      PROVE  tx'[r] = DoneTx /\ Stands(r, answer[r].code, answer[r].of)'
  <2>1. PICK a : a = answer[r]  OBVIOUS
  <2>2. tx[r] = DoneTx /\ Stands(r, a.code, a.of)  BY <1>2, <2>1 DEF AnswersInv
  <2>3. tx'[r] = DoneTx /\ Stands(r, a.code, a.of)'
    BY <1>1, <2>2, StandsLasts DEF Persists
  <2>4. answer'[r] = a  BY <1>2, <2>1
  <2> QED  BY <2>3, <2>4 DEF Stands, HoldIsGone, OfferIsGone, SoldElsewhere
<1>3. CASE UNCHANGED answer
  <2>1. CancelledOnce'
    <3> SUFFICES ASSUME NEW q \in Requests, NEW r \in Requests, answer'[q].code = "cancelled"
                 PROVE  /\ booking'[answer'[q].of].payment = "REFUNDED"
                        /\ answer'[r].code = "cancelled" /\ answer'[q].of = answer'[r].of
                           => q = r
      BY DEF CancelledOnce
    <3>1. answer'[q].of \in Requests /\ booking'[answer'[q].of].status = "CANCELLED"
      BY <1>2, <1>3 DEF Stands
    <3>2. booking'[answer'[q].of].payment = "REFUNDED"
      BY <3>1 DEF TInv, BookingsAreWhole
    <3> QED  BY <1>3, <3>2 DEF AnswersInv, CancelledOnce
  <2> QED  BY <1>2, <1>3, <2>1 DEF AnswersInv
<1>4. ASSUME NEW r \in Requests, AnswerGiven(r) PROVE AnswersInv'
  <2>1. PICK a \in Answers : /\ answer' = [answer EXCEPT ![r] = a]
                             /\ tx[r] # DoneTx /\ tx'[r] = DoneTx
                             /\ Stands(r, a.code, a.of)'
                             /\ a.code = "cancelled" => booking[a.of].status = "CONFIRMED"
    BY <1>4 DEF AnswerGiven
  <2>2. /\ answer' \in [Requests -> Answers] /\ answer'[r] = a
        /\ \A q \in Requests \ {r} : answer'[q] = answer[q]
    BY <2>1 DEF AnswersInv
  <2>3. ASSUME NEW q \in Requests, answer'[q].code # "none"
        PROVE  tx'[q] = DoneTx /\ Stands(q, answer[q].code, answer[q].of)'
    <3>1. CASE q = r
      BY <2>1, <2>2, <3>1 DEF Stands, HoldIsGone, OfferIsGone, SoldElsewhere
    <3>2. CASE q # r  BY <1>2, <2>2, <2>3, <3>2
    <3> QED  BY <3>1, <3>2
  <2>4. ASSUME NEW q \in Requests, answer[q].code = "cancelled"
        PROVE  answer[q].of \in Requests /\ booking[answer[q].of].status = "CANCELLED"
    BY <2>4 DEF AnswersInv, Stands
  <2>5. CancelledOnce'
    <3> SUFFICES ASSUME NEW p \in Requests, NEW q \in Requests, answer'[p].code = "cancelled"
                 PROVE  /\ booking'[answer'[p].of].payment = "REFUNDED"
                        /\ answer'[q].code = "cancelled" /\ answer'[p].of = answer'[q].of
                           => p = q
      BY DEF CancelledOnce
    <3>1. answer'[p].of \in Requests /\ booking'[answer'[p].of].status = "CANCELLED"
      BY <2>3 DEF Stands
    <3>2. booking'[answer'[p].of].payment = "REFUNDED"
      BY <3>1 DEF TInv, BookingsAreWhole
    <3>3. ASSUME answer'[q].code = "cancelled", answer'[p].of = answer'[q].of PROVE p = q
      <4>1. CASE p = r \/ q = r  BY <2>1, <2>2, <2>4, <3>3, <4>1
      <4>2. CASE p # r /\ q # r  BY <2>2, <3>3, <4>2 DEF AnswersInv, CancelledOnce
      <4> QED  BY <4>1, <4>2
    <3> QED  BY <3>2, <3>3
  <2> QED  BY <2>2, <2>3, <2>5 DEF AnswersInv
<1> QED  BY <1>3, <1>4, AnswerStep

LEMMA AlwaysAnswersInv == ApiSpec => [](TInv /\ MailInv /\ AnswersInv)
<1>1. Init /\ ApiInit => AnswersInv
  BY DEF ApiInit, AnswersInv, NoAnswer, Answers, CancelledOnce
<1>2. TInv /\ TInv' /\ MailInv /\ AnswersInv /\ [ApiNext]_apiVars => AnswersInv'
  BY AnswersInvStep
<1>3. TInv /\ MailInv => TInv  OBVIOUS
<1> QED  BY AlwaysMailInv, <1>1, <1>2, <1>3, PTL DEF ApiSpec

\* A 201 means that the rows are there and a refusal that nothing is; a 410 only
\* ever names a hold or an offer that is over, but for the seats another offer sold
\* (errorHandler.js, utils/errors.js).
THEOREM AnswersStayTrue == ApiSpec => []AnswersAreTrue
<1>1. AnswersInv => AnswersAreTrue
  <2> SUFFICES ASSUME AnswersInv, NEW r \in Requests, answer[r].code # "none"
               PROVE  LET code == answer[r].code
                          of   == answer[r].of
                      IN  /\ code = "created" => hold[r] # NoHold \/ booking[r] # NoBooking
                          /\ code \in Refusals => hold[r] = NoHold /\ booking[r] = NoBooking
                          /\ code = "HOLD_EXPIRED" =>
                               hold[of].status # "ACTIVE" \/ hold[of].expiresAt <= clock
                          /\ code \in {"OFFER_INVALID", "OFFER_EXPIRED"} =>
                               \/ offer[of[1]][of[2]].status # "PENDING"
                               \/ offer[of[1]][of[2]].expiresAt <= clock
                               \/ SoldElsewhere(of)
    BY DEF AnswersAreTrue, Refusals, Gone
  <2>1. Stands(r, answer[r].code, answer[r].of)  BY DEF AnswersInv
  <2>2. PICK code, of : code = answer[r].code /\ of = answer[r].of  OBVIOUS
  <2>3. Stands(r, code, of)  BY <2>1, <2>2
  <2>4. code = "created" => hold[r] # NoHold \/ booking[r] # NoBooking
    BY <2>3 DEF Stands, NoHold, NoBooking
  <2>5. code \in Refusals => hold[r] = NoHold /\ booking[r] = NoBooking
    BY <2>3 DEF Stands
  <2>6. code = "HOLD_EXPIRED" =>
          hold[of].status # "ACTIVE" \/ hold[of].expiresAt <= clock
    BY <2>3 DEF Stands, HoldIsGone
  <2>7. code \in {"OFFER_INVALID", "OFFER_EXPIRED"} =>
          \/ offer[of[1]][of[2]].status # "PENDING"
          \/ offer[of[1]][of[2]].expiresAt <= clock
          \/ SoldElsewhere(of)
    BY <2>3 DEF Stands, OfferIsGone
  <2> QED  BY <2>2, <2>4, <2>5, <2>6, <2>7
<1> QED  BY AlwaysAnswersInv, <1>1, PTL

\* However many requests cancel one booking, one is told that it did
\* (markBookingCancelled).
THEOREM OneCancels == ApiSpec => []CancelledOnce
<1>1. AnswersInv => CancelledOnce  BY DEF AnswersInv
<1> QED  BY AlwaysAnswersInv, <1>1, PTL

-----------------------------------------------------------------------------
(* What was told gone.                                                     *)

\* A request that came too late is for a hold that was over when it began, or for
\* an offer whose seats were sold, and ends up with no booking but in that case.
LateSound(r) ==
  /\ tx[r].pc \in {"confirm", "checkedOut", "accept", "done"}
  /\ tx[r].pc \in {"confirm", "checkedOut"} =>
       \/ hold[tx[r].hold].status # "ACTIVE"
       \/ hold[tx[r].hold].expiresAt <= tx[r].now
  /\ tx[r].pc = "accept" => SoldElsewhere(<<tx[r].by, tx[r].category>>)
  /\ booking[r] # NoBooking =>
       booking[r].offer # NULL /\ SoldElsewhere(booking[r].offer)

LateInv == late \subseteq Requests /\ \A r \in late : LateSound(r)

\* A request is late when it begins.
LEMMA BeginsLate ==
  ASSUME TInv, AnswersInv, NEW r \in Requests,
         \/ PostConfirm(r) /\ tx'[r].hold \in ToldGone
         \/ PostAccept(r) /\ <<tx'[r].by, tx'[r].category>> \in ToldGone
  PROVE  LateSound(r)'
<1>1. TypeOK /\ ReadsStaySound  BY DEF TInv, SInv, WInv, IInv
<1>2. tx[r] = NewTx /\ UNCHANGED <<clock, tables>>
  BY DEF PostConfirm, PostAccept, BeginConfirm, BeginAccept, Begin
<1>3. booking'[r] = NoBooking
  BY <1>1, <1>2 DEF ReadsStaySound, tables, NewTx, DoneTx
<1>4. ASSUME NEW of \in ToldGone
      PROVE  (of \in Requests /\ HoldIsGone(of)) \/ (of \in Offered /\ OfferIsGone(of))
  <2>1. PICK q \in Requests : answer[q].code \in Gone /\ answer[q].of = of
    BY <1>4 DEF ToldGone
  <2>2. Stands(q, answer[q].code, answer[q].of)  BY <2>1 DEF AnswersInv, Gone
  <2> QED  BY <2>1, <2>2 DEF Stands, Gone
<1>5. CASE PostConfirm(r) /\ tx'[r].hold \in ToldGone
  <2>1. PICK h \in Requests : tx'[r] = [pc |-> "confirm", now |-> clock, hold |-> h]
    BY <1>1, <1>5 DEF PostConfirm, BeginConfirm, Begin, TypeOK
  <2>2. HoldIsGone(h)  BY <1>4, <1>5, <2>1, KindsAssumption DEF Offered
  <2> QED  BY <1>2, <1>3, <2>1, <2>2 DEF LateSound, HoldIsGone, tables
<1>6. CASE PostAccept(r) /\ <<tx'[r].by, tx'[r].category>> \in ToldGone
  <2>1. PICK by \in Requests, c \in Categories :
          /\ offer[by][c].status = "PENDING" /\ offer[by][c].expiresAt > clock
          /\ tx'[r] = [pc |-> "accept", now |-> clock, by |-> by, category |-> c]
    BY <1>1, <1>6 DEF PostAccept, BeginAccept, Begin, TypeOK
  <2>2. clock \in Nat /\ offer[by][c].expiresAt \in Nat  BY <1>1 DEF TypeOK, OfferRows
  <2>3. OfferIsGone(<<by, c>>)
    BY <1>4, <1>6, <2>1, KindsAssumption DEF Offered
  <2>4. SoldElsewhere(<<by, c>>)  BY <2>1, <2>2, <2>3 DEF OfferIsGone
  <2>5. SoldElsewhere(<<by, c>>)'  BY <1>2, <2>4 DEF SoldElsewhere, tables
  <2>6. tx'[r].by = by /\ tx'[r].category = c /\ tx'[r].pc = "accept"  BY <2>1
  <2> QED  BY <1>3, <2>5, <2>6 DEF LateSound, SoldElsewhere
<1> QED  BY <1>5, <1>6

\* A booking made or not made by a request that is late, when others act.
LEMMA LateBooking ==
  ASSUME TInv, TInv', Persists, NEW r \in Requests, LateSound(r), BookingStays(r)
  PROVE  booking'[r] # NoBooking =>
           /\ booking'[r].offer # NULL /\ SoldElsewhere(booking[r].offer)'
           /\ booking'[r].offer = booking[r].offer
<1>1. SInv /\ BookingsAreWhole /\ BookingsAreWhole' /\ TypeOK
  BY DEF TInv, SInv, WInv, IInv
<1>2. booking'[r].offer = booking[r].offer  BY DEF BookingStays
<1>3. ASSUME booking[r] = NoBooking PROVE booking'[r] = NoBooking
  <2>1. booking'[r].status = "NONE"  BY <1>3 DEF BookingStays, NoBooking
  <2> QED  BY <1>1, <2>1 DEF BookingsAreWhole
<1>4. ASSUME booking[r] # NoBooking
      PROVE  booking'[r].offer # NULL /\ SoldElsewhere(booking[r].offer)'
  <2>1. PICK o : o = booking[r].offer  OBVIOUS
  <2>2. o # NULL /\ SoldElsewhere(o)  BY <1>4, <2>1 DEF LateSound
  <2>3. o \in Offered  BY <1>1, <2>1, <2>2 DEF TypeOK, BookingRows, Offered
  <2>4. SoldElsewhere(o)'  BY <1>1, <2>2, <2>3, SoldElsewhereLasts
  <2> QED  BY <1>2, <2>1, <2>2, <2>4 DEF SoldElsewhere
<1> QED  BY <1>2, <1>3, <1>4

\* Its transaction goes on as before, whoever acts.
LEMMA LateGoesOn ==
  ASSUME TInv, TInv', Persists, NEW r \in Requests, LateSound(r), BookingStays(r),
         \/ tx'[r] = tx[r]
         \/ tx'[r] = DoneTx
         \/ ReadHoldSeats(r)
  PROVE  LateSound(r)'
<1>1. SInv /\ BookingsAreWhole /\ TypeOK /\ ReadsStaySound
  BY DEF TInv, SInv, WInv, IInv
<1>2. booking'[r] # NoBooking =>
        booking'[r].offer # NULL /\ SoldElsewhere(booking[r].offer)'
        /\ booking'[r].offer = booking[r].offer
  BY LateBooking
<1>3. ASSUME tx[r].pc \in {"confirm", "checkedOut"}
      PROVE  /\ tx[r].hold \in Requests
             /\ \/ hold'[tx[r].hold].status # "ACTIVE"
                \/ hold'[tx[r].hold].expiresAt <= tx[r].now
  <2>1. tx[r].hold \in Requests /\ hold[tx[r].hold].status # "NONE"
    BY <1>1, <1>3, TxShape DEF ConfirmTx, CheckedOut, ReadsStaySound
  <2>2. HoldStays(tx[r].hold)  BY <1>1, <2>1, RowsLast
  <2> QED  BY <1>3, <2>1, <2>2 DEF LateSound, HoldStays
<1>4. CASE tx'[r] = tx[r]
  <2>1. ASSUME tx[r].pc = "accept"
        PROVE  SoldElsewhere(<<tx[r].by, tx[r].category>>)'
    <3>1. PICK o : o = <<tx[r].by, tx[r].category>>  OBVIOUS
    <3>2. o \in Offered /\ SoldElsewhere(o)
      BY <1>1, <2>1, <3>1, TxShape DEF LateSound, AcceptTx, Offered
    <3>3. SoldElsewhere(o)'  BY <1>1, <3>2, SoldElsewhereLasts
    <3> QED  BY <1>4, <3>1, <3>3 DEF SoldElsewhere
  <2> QED  BY <1>2, <1>3, <1>4, <2>1 DEF LateSound, SoldElsewhere
<1>5. CASE tx'[r] = DoneTx
  <2>1. tx'[r].pc = "done"  BY <1>5 DEF DoneTx
  <2> QED  BY <1>2, <2>1 DEF LateSound, SoldElsewhere
<1>6. CASE ReadHoldSeats(r) /\ tx'[r] # DoneTx
  <2>1. /\ tx[r].pc = "confirm" /\ tx'[r].pc = "checkedOut"
        /\ tx'[r].hold = tx[r].hold /\ tx'[r].now = tx[r].now
    BY <1>1, <1>6 DEF ReadHoldSeats, TypeOK
  <2> QED  BY <1>2, <1>3, <2>1 DEF LateSound, SoldElsewhere
<1> QED  BY <1>4, <1>5, <1>6

\* A late confirmation is never served; a late acceptance is, of an offer whose
\* seats were sold and came back.
LEMMA LateActs ==
  ASSUME TInv, TInv', Persists, NEW r \in Requests, LateSound(r),
         Arrive(r) \/ Progress(r) \/ OfferRefused(r)
  PROVE  LateSound(r)'
<1>1. /\ SInv /\ IInv /\ BookingsAreWhole /\ TypeOK /\ ReadsStaySound /\ HeldRowsHaveTheirHold
  BY DEF TInv, SInv, WInv, IInv
<1>2. tx[r] # NewTx /\ tx[r] # DoneTx
  BY <1>1, WhoActs DEF LateSound, NewTx
<1>3. Progress(r)
  BY <1>2 DEF Arrive, BeginHold, BeginConfirm, BeginCancel, BeginAccept, Begin, OfferRefused
<1>4. CASE ReadHoldSeats(r)
  <2>1. BookingStays(r)  BY <1>4 DEF ReadHoldSeats, tables, BookingStays
  <2> QED  BY <1>4, <2>1, LateGoesOn
<1>5. CASE RefuseConfirm(r) \/ RefuseAccept(r) \/ Rollback(r)
  <2>1. UNCHANGED booking /\ Finish(r)
    BY <1>5 DEF RefuseConfirm, RefuseAccept, Rollback, tables
  <2>2. BookingStays(r) /\ tx'[r] = DoneTx  BY <1>1, <2>1 DEF BookingStays, Finish, TypeOK
  <2> QED  BY <2>2, LateGoesOn
<1>6. CASE ConfirmBooking(r)
  <2> DEFINE h == tx[r].hold
  <2>1. /\ h \in Requests /\ Confirmable(h, tx[r].now) = tx[r].seats
        /\ hold[h].status = "ACTIVE"
    BY <1>1, <1>6, WhatIsConfirmed
  <2>2. PICK s \in Seats : s \in Confirmable(h, tx[r].now)
    BY <1>1, <1>6, <2>1 DEF ConfirmBooking, ReadsStaySound, Confirmable, HeldUnder
  <2>3. seat[s].expiresAt > tx[r].now /\ seat[s].expiresAt = hold[h].expiresAt
    BY <1>1, <2>2 DEF Confirmable, HeldUnder, HeldRowsHaveTheirHold
  <2>4. hold[h].expiresAt \in Nat /\ tx[r].now \in Nat
    BY <1>1, <1>6, <2>1, TxShape DEF TypeOK, HoldRows, ConfirmBooking, CheckedOut
  <2>5. hold[h].expiresAt <= tx[r].now  BY <1>6, <2>1 DEF ConfirmBooking, LateSound
  <2> QED  BY <2>3, <2>4, <2>5
<1>7. CASE AcceptOffer(r)
  <2>1. PICK o : o = <<tx[r].by, tx[r].category>>  OBVIOUS
  <2>2. o \in Offered /\ SoldElsewhere(o)
    BY <1>1, <1>7, <2>1, TxShape DEF AcceptOffer, AcceptTx, LateSound, Offered
  <2>3. SoldElsewhere(o)'  BY <1>1, <2>2, SoldElsewhereLasts
  <2>4. booking'[r].offer = o /\ tx'[r] = DoneTx
    BY <1>1, <1>7, <2>1 DEF AcceptOffer, NewBooking, Finish, TypeOK
  <2>5. o # NULL  BY <2>2, StoreAssumption DEF Offered
  <2> QED  BY <2>3, <2>4, <2>5 DEF LateSound, SoldElsewhere, DoneTx
<1> QED
  BY <1>3, <1>4, <1>5, <1>6, <1>7
  DEF LateSound, Progress, CreateHold, RefuseHold, LockBooking, ClaimHeir, CancelBooking,
      Cancelling

LEMMA LateInvStep ==
  ASSUME TInv, TInv', AnswersInv, LateInv, [ApiNext]_apiVars
  PROVE  LateInv'
<1>1. TypeOK /\ BookingsAreWhole  BY DEF TInv, SInv, WInv, IInv
<1>2. Persists  BY <1>1, ApiStep, StepsPersist
<1>3. ASSUME NEW r \in late PROVE LateSound(r)'
  <2>1. r \in Requests /\ LateSound(r)  BY DEF LateInv
  <2>2. CASE Arrive(r) \/ Progress(r) \/ OfferRefused(r)
    BY <1>2, <2>1, <2>2, LateActs
  <2>3. CASE ~ (Arrive(r) \/ Progress(r) \/ OfferRefused(r))
    <3>1. tx'[r] = tx[r]
      <4>1. ASSUME NEW q \in Requests, Arrive(q) \/ Progress(q) \/ OfferRefused(q)
            PROVE  tx'[r] = tx[r]
        BY <1>1, <2>1, <2>3, <4>1, WhoActs
      <4>2. CASE UNCHANGED vars \/ Tick \/ (\E h \in Requests : ReleaseHold(h))
                 \/ \E c \in Categories, u \in Users : Join(c, u)
        BY <4>2 DEF vars, Tick, ReleaseHold, Join, CheckJoin, InsertEntry, RefuseEntry,
            ReadPosition
      <4> QED  BY <4>1, <4>2, ApiStep DEF Next
    <3>2. BookingStays(r)  BY <2>1, <3>1, <1>2 DEF Persists
    <3> QED  BY <1>2, <2>1, <3>1, <3>2, LateGoesOn
  <2> QED  BY <2>2, <2>3
<1>4. ASSUME NEW r \in Requests, PostConfirm(r) \/ PostAccept(r) PROVE LateInv'
  <2>1. CASE late' = late  BY <1>3, <2>1 DEF LateInv
  <2>2. CASE late' # late
    <3>1. /\ late' = late \cup {r}
          /\ \/ PostConfirm(r) /\ tx'[r].hold \in ToldGone
             \/ PostAccept(r) /\ <<tx'[r].by, tx'[r].category>> \in ToldGone
      BY <1>4, <2>2 DEF PostConfirm, PostAccept, About
    <3>2. LateSound(r)'  BY <3>1, BeginsLate
    <3> QED  BY <1>3, <3>1, <3>2 DEF LateInv
  <2> QED  BY <2>1, <2>2
<1>5. ASSUME UNCHANGED late PROVE LateInv'  BY <1>3, <1>5 DEF LateInv
<1>6. ASSUME NEW r \in Requests, Serve(r), ~ (PostConfirm(r) \/ PostAccept(r))
      PROVE  UNCHANGED late
  BY <1>6
  DEF Serve, PostHold, HoldCreated, HoldRefused, SeatsRead, Booked, ConfirmRefused,
      PostCancel, BookingLocked, BookingCancelled, HeirClaimed, OfferRefused, OfferAccepted,
      AcceptRefused, RolledBack, Quietly, apiOnly
<1>7. CASE (\E h \in Requests : DeleteHold(h)) \/ (Tick /\ Quietly) \/ StatusAnswered
           \/ (\E c \in Categories, u \in Users : PostJoin(c, u) \/ AskStatus(c, u))
           \/ UNCHANGED apiVars
  BY <1>5, <1>7 DEF DeleteHold, Quietly, apiOnly, apiVars, StatusAnswered, PostJoin, AskStatus
<1>8. CASE \/ \E r \in Requests : SendBookingConfirmedEmail(r)
           \/ \E o \in Offered : SendWaitlistOfferEmail(o)
           \/ \E m \in outbox : MailFails(m)
  BY <1>5, <1>8 DEF SendBookingConfirmedEmail, SendWaitlistOfferEmail, MailFails, SendMail
<1> QED  BY <1>4, <1>5, <1>6, <1>7, <1>8 DEF ApiNext

\* "Permanently gone, don't retry": nothing that was told gone is ever served, but an
\* offer whose seats another one sold (HoldExpiredError, OfferExpiredError).
THEOREM GoneIsForGood == ApiSpec => []GoneStaysGone
<1>1. Init /\ ApiInit => LateInv  BY DEF ApiInit, LateInv
<1>2. TInv /\ TInv' /\ AnswersInv /\ LateInv /\ [ApiNext]_apiVars => LateInv'
  BY LateInvStep
<1>3. LateInv => GoneStaysGone  BY DEF LateInv, LateSound, GoneStaysGone
<1> QED  BY AlwaysAnswersInv, <1>1, <1>2, <1>3, PTL DEF ApiSpec
=============================================================================
