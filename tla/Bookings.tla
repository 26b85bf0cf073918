------------------------------ MODULE Bookings ------------------------------
(***************************************************************************)
(* POST /bookings/confirm and POST /bookings/:id/cancel                    *)
(* (bookings.service.js, bookings.queries.js, payments.service.js).        *)
(***************************************************************************)
EXTENDS Holds, Offers

\* confirmBooking(): BEGIN.  The hold may be in any condition by now.
BeginConfirm(r) ==
  \E h \in Requests :
    /\ hold[h].status # "NONE"
    /\ Begin(r, [pc |-> "confirm", now |-> clock, hold |-> h])

\* findHoldSeats(): an unlocked read that asks for HELD under this hold and
\* nothing about time.
ReadHoldSeats(r) ==
  /\ tx[r].pc = "confirm"
  /\ LET found == HeldUnder(tx[r].hold)
     IN  tx' = [tx EXCEPT ![r] =
                  IF found = {} THEN DoneTx
                  ELSE [pc |-> "checkedOut", now |-> @.now, hold |-> @.hold,
                        seats |-> found]]
  /\ UNCHANGED <<clock, tables, joining>>

\* That clause without the deadline.
ConfirmableLapsed(h, now) == HeldUnder(h)

\* The WHERE clause of confirmHeldSeats().
Confirmable(h, now) == {s \in HeldUnder(h) : seat[s].expiresAt > now}

\* reserved_until stays as it is: NULL since the row was acquired.
BookedRow(row, b) ==
  [row EXCEPT !.state = "BOOKED", !.booking = b, !.expiresAt = NULL, !.hold = NULL]

ConfirmBooking(r) ==
  /\ tx[r].pc = "checkedOut"
  /\ LET h         == tx[r].hold
         confirmed == Confirmable(h, tx[r].now)
     IN  /\ Complete(confirmed, tx[r].seats)
         /\ booking' = [booking EXCEPT ![r] = NewBooking(tx[r].seats, h, NULL)]
         /\ seat' = [s \in Seats |-> IF s \in confirmed
                                     THEN BookedRow(seat[s], r) ELSE seat[s]]
         /\ EndHold(h, "CONVERTED")
  /\ Finish(r)
  /\ UNCHANGED <<clock, entry, offer, joining>>

\* HoldExpiredError: booking and payment are rolled back together.
RefuseConfirm(r) ==
  /\ tx[r].pc = "checkedOut"
  /\ ~ Complete(Confirmable(tx[r].hold, tx[r].now), tx[r].seats)
  /\ Finish(r)
  /\ UNCHANGED <<clock, tables, joining>>

-----------------------------------------------------------------------------
\* cancelBooking(): BEGIN.
BeginCancel(r) ==
  \E b \in Requests :
    /\ booking[b].status # "NONE"
    /\ Begin(r, [pc |-> "cancel", now |-> clock, booking |-> b, decided |-> {},
                 heir |-> [c \in Categories |-> NULL]])

\* markBookingCancelled() waits while another cancellation has the bookings row.
\* A booking cancelled before is let through and finds nothing to do.
LockBooking(r) ==
  /\ tx[r].pc = "cancel"
  /\ \A q \in Requests : Cancelling(q) => tx[q].booking # tx[r].booking
  /\ tx' = [tx EXCEPT ![r].pc = "cancelling"]
  /\ UNCHANGED <<clock, tables, joining>>

\* findBookedSeatsByBooking(), and the seats the two UPDATEs of a category touch.
BookedUnder(b) == {s \in Seats : seat[s].booking = b /\ seat[s].state = "BOOKED"}
SeatsOfAnyCategory(b, c) == BookedUnder(b)
SeatsToFree(b, c) == {s \in BookedUnder(b) : CategoryOf[s] = c}

\* claimNextWaitingEntry() for the next category of the booking.
ClaimHeir(r, c) ==
  /\ Cancelling(r)
  /\ c \notin tx[r].decided
  /\ SeatsToFree(tx[r].booking, c) # {}
  /\ \E u \in (IF QueueHeads(c) = {} THEN {NULL} ELSE QueueHeads(c)) :
       tx' = [tx EXCEPT ![r].decided = @ \cup {c}, ![r].heir[c] = u]
  /\ UNCHANGED <<clock, tables, joining>>

\* releaseBookedSeatsForCategory()
ReturnedRow(row) == [row EXCEPT !.state = "AVAILABLE", !.booking = NULL]

\* A cancellation that refunds and leaves the booking CONFIRMED.
RefundedOnly(row) ==
  [row EXCEPT !.payment = IF @ = "CAPTURED" THEN "REFUNDED" ELSE @]

\* A cancellation that forgets the money.
CancelledUnrefunded(row) ==
  [row EXCEPT !.status = IF @ = "CONFIRMED" THEN "CANCELLED" ELSE @]

\* markBookingCancelled() and refund(): each guarded by its own status.
Cancelled(row) ==
  [row EXCEPT !.status  = IF @ = "CONFIRMED" THEN "CANCELLED" ELSE @,
              !.payment = IF @ = "CAPTURED" THEN "REFUNDED" ELSE @]

\* Each category of the booking goes to its heir as an offer, or back on sale;
\* all of it in the one COMMIT.
CancelBooking(r) ==
  /\ Cancelling(r)
  /\ LET b       == tx[r].booking
         now     == tx[r].now
         heir    == tx[r].heir
         heirOf(s) == heir[CategoryOf[s]]
     IN  /\ \A c \in Categories : SeatsToFree(b, c) # {} => c \in tx[r].decided
         /\ booking' = [booking EXCEPT ![b] = Cancelled(@)]
         /\ seat' = [s \in Seats |->
              IF s \notin BookedUnder(b) THEN seat[s]
              ELSE IF heirOf(s) = NULL THEN ReturnedRow(seat[s])
              ELSE OfferReservedRow(seat[s], now)]
         /\ offer' = [offer EXCEPT ![r] = [c \in Categories |->
              IF heir[c] = NULL THEN @[c]
              ELSE InitialOffer(heir[c], SeatsToFree(b, c), now)]]
         /\ entry' = [c \in Categories |-> [u \in Users |->
              IF u = heir[c] THEN Marked(entry[c][u], "WAITING", "OFFERED")
              ELSE entry[c][u]]]
  /\ Finish(r)
  /\ UNCHANGED <<clock, hold, joining>>
=============================================================================
