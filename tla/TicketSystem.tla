---------------------------- MODULE TicketSystem ----------------------------
(***************************************************************************)
(* The booking flow of one show: holds, checkout, cancellation, waitlist   *)
(* and offers run concurrently over the tables of SeatStore.               *)
(***************************************************************************)
EXTENDS Bookings

\* One step of the transaction request r has open.
Progress(r) ==
  \/ CreateHold(r)
  \/ RefuseHold(r)
  \/ ReadHoldSeats(r)
  \/ ConfirmBooking(r)
  \/ RefuseConfirm(r)
  \/ LockBooking(r)
  \/ \E c \in Categories : ClaimHeir(r, c)
  \/ CancelBooking(r)
  \/ AcceptOffer(r)
  \/ RefuseAccept(r)
  \/ Rollback(r)

Arrive(r) ==
  \/ BeginHold(r)
  \/ BeginConfirm(r)
  \/ BeginCancel(r)
  \/ BeginAccept(r)

Join(c, u) ==
  \/ CheckJoin(c, u)
  \/ InsertEntry(c, u)
  \/ RefuseEntry(c, u)
  \/ ReadPosition(c, u)

Next ==
  \/ \E r \in Requests : Arrive(r) \/ Progress(r)
  \/ \E h \in Requests : ReleaseHold(h)
  \/ \E c \in Categories, u \in Users : Join(c, u)
  \/ Tick

Spec == Init /\ [][Next]_vars

\* Time passes.  Nothing is assumed of the clients, and nothing needs to be
\* assumed of the transactions: lazy expiry is a matter of the clock alone.
Fairness == WF_vars(Tick)

-----------------------------------------------------------------------------
(* Safety.                                                                 *)

\* What is paid for is what is occupied: the seats BOOKED under a booking are
\* exactly its booking_seats while its payment is CAPTURED, and none before or
\* after; so no seat is sold twice, and no refund leaves a seat behind
\* (confirmBooking, acceptOffer, cancelBooking).
PaidSeatsAreOccupied ==
  /\ \A b \in Requests :
       BookedUnder(b) = IF booking[b].payment = "CAPTURED"
                        THEN booking[b].seats ELSE {}
  /\ \A s \in Seats : seat[s].state = "BOOKED" => seat[s].booking \in Requests

\* Until its deadline, and unless its owner gives it up, a hold keeps every
\* seat it was granted, whatever other requests run (acquireSeats,
\* releaseHoldSeats, confirmHeldSeats).
LiveHoldKeepsSeats ==
  \A h \in Requests :
    hold[h].status = "ACTIVE" /\ hold[h].expiresAt > clock =>
      \A s \in hold[h].seats :
        /\ s \in HeldUnder(h)
        /\ seat[s].expiresAt = hold[h].expiresAt

\* A hold pays for at most one booking, however often it is submitted; it is
\* CONVERTED only by one, and once RELEASED it never was nor becomes a booking
\* (markSeatHoldReleased, confirmHeldSeats).
HoldSpentOnce ==
  /\ \A a, b \in Requests :
       booking[a].hold # NULL /\ booking[a].hold = booking[b].hold => a = b
  /\ \A h \in Requests :
       hold[h].status = "CONVERTED" <=> \E b \in Requests : booking[b].hold = h

\* Every HELD row was granted by a hold that is still ACTIVE, and carries that
\* hold's own deadline: releasing, reclaiming and converting a hold all leave no
\* row of it behind (releaseHoldSeats, acquireSeats, confirmHeldSeats).
HeldRowsHaveTheirHold ==
  \A s \in Seats : seat[s].state = "HELD" =>
    \E h \in Requests : /\ seat[s].hold = h
                        /\ hold[h].status = "ACTIVE"
                        /\ s \in hold[h].seats
                        /\ seat[s].expiresAt = hold[h].expiresAt

\* What an open transaction goes on is not worn out: its now() is not in the
\* future, its own rows are not there yet, the hold it checks out exists, and
\* no seat joined that hold since findHoldSeats() read it.
ReadsStaySound ==
  \A r \in Requests :
    /\ tx[r] # DoneTx => booking[r] = NoBooking /\ hold[r] = NoHold
    /\ InFlight(r) => tx[r].now <= clock
    /\ tx[r].pc \in {"confirm", "checkedOut"} => hold[tx[r].hold].status # "NONE"
    /\ tx[r].pc = "checkedOut" =>
         tx[r].seats # {} /\ HeldUnder(tx[r].hold) \subseteq tx[r].seats

\* The offers a reserved seat can be accepted under until its own deadline.
OffersFor(s) ==
  {o \in Requests \X Categories :
     LET row == offer[o[1]][o[2]]
     IN  /\ row.status = "PENDING"
         /\ s \in row.seats
         /\ row.expiresAt = seat[s].expiresAt}

\* No seat is reserved for nobody: behind every OFFER_RESERVED row is an offer
\* that can still be accepted until the row's own deadline, made to somebody whose
\* entry says so, and no offer of another category can be (cancelBooking's single
\* transaction).
ReservedForSomeone ==
  \A s \in Seats : seat[s].state = "OFFER_RESERVED" =>
    LET c == CategoryOf[s]
    IN  /\ \A o \in OffersFor(s) : o[2] = c
        /\ \E r \in Requests, u \in Users :
             /\ <<r, c>> \in OffersFor(s)
             /\ offer[r][c].user = u
             /\ entry[c][u].status = "OFFERED"

\* The entry's status and the offers made for it agree, and concurrent
\* cancellations never offer one entry two sets of seats
\* (claimNextWaitingEntry's SKIP LOCKED).
OffersTo(c, u) == {r \in Requests : offer[r][c].user = u}
OfferedOnce ==
  \A c \in Categories, u \in Users :
    /\ \A q, r \in OffersTo(c, u) : q = r
    /\ OffersTo(c, u) # {} <=> entry[c][u].status \in {"OFFERED", "CONVERTED"}
    /\ \A r \in OffersTo(c, u) :
         offer[r][c].status = "ACCEPTED" <=> entry[c][u].status = "CONVERTED"

-----------------------------------------------------------------------------
(* Action properties.                                                      *)

\* Every rewritten row follows the graph of shared/seatStates.js, read from the
\* stored state or, for a lazy reclaim, from the effective one.  The code calls
\* assertTransition() with literals only, never for a reclaim.
SeatsMoveLegally ==
  [][\A s \in Seats : seat'[s] # seat[s] =>
       \E from \in {seat[s].state, EffectiveState(seat[s], clock)} :
         LegalTransition(from, seat'[s].state)]_vars

\* D-14: the public cannot take a reserved seat before every cascade attempt
\* the offer could have had is over, counted from the offer itself.
PublicNeverSnipesReserved ==
  [][\A s \in Seats :
       seat[s].state = "OFFER_RESERVED" /\ seat'[s].state = "HELD" =>
         \A r \in Requests, c \in Categories :
           s \in offer[r][c].seats /\ offer[r][c].expiresAt = seat[s].expiresAt =>
             clock >= offer[r][c].expiresAt + OfferTTL * (MaxCascade - 1)]_vars

-----------------------------------------------------------------------------
(* Liveness.                                                               *)

Deadline(row) == IF row.state = "HELD" THEN row.expiresAt ELSE row.reservedUntil

Promised(s) ==
  /\ seat[s].state \in {"HELD", "OFFER_RESERVED"}
  /\ Deadline(seat[s]) <= MaxTime

\* No worker has to run for a seat to come back: one promised to somebody is
\* sooner or later sold, or a public hold can take it (Layer 1 of the TTL
\* design).  Deadlines beyond the modelled time are left out.
SoldOrBackOnSale ==
  \A s \in Seats :
    Promised(s) ~> seat[s].state = "BOOKED" \/ Acquirable(seat[s], clock)

-----------------------------------------------------------------------------
(* The promise of SeatSale, kept by this system.                           *)

Sale == INSTANCE SeatSale WITH
  Sales   <- Requests,
  Nobody  <- NULL,
  owner   <- [s \in Seats |-> IF seat[s].state = "BOOKED" THEN seat[s].booking
                              ELSE NULL],
  money   <- [b \in Requests |->
                CASE booking[b].payment = "NONE" -> "none"
                  [] booking[b].payment = "CAPTURED" -> "captured"
                  [] OTHER -> "refunded"],
  receipt <- [b \in Requests |-> booking[b].seats]

\* Seats are sold together and given back together: every step of the system is
\* a sale, a refund, or nothing that the abstract seller can see.
ImplementsSeatSale == Sale!Spec

-----------------------------------------------------------------------------
(* What comments and design documents say, and the code does not do.       *)

\* "rowCount must equal the hold's seat count, else roll back" (section 6.5):
\* a booking made from a hold has all the seats of the hold.
ConfirmsWholeHold ==
  \A b \in Requests :
    booking[b].hold # NULL => booking[b].seats = hold[booking[b].hold].seats

\* "This is the actual single-use guarantee" (confirmOfferSeats): an offer is
\* made into at most one booking.
OfferSpentOnce ==
  \A a, b \in Requests :
    booking[a].offer # NULL /\ booking[a].offer = booking[b].offer => a = b
=============================================================================
