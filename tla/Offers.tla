------------------------------- MODULE Offers -------------------------------
(***************************************************************************)
(* Waitlist offers: what a cancellation writes for the person it claimed   *)
(* (createInitialOffer) and POST /offers/:token/accept (acceptOffer).  The *)
(* token is the offer's identity: only its holder can name it, any number  *)
(* of times.                                                               *)
(***************************************************************************)
EXTENDS Waitlist

ReservedFor == OfferTTL * MaxCascade + Grace

\* transitionBookedSeatsToOfferReserved(); hold_id and held_by stay as they are.
OfferReservedRow(row, now) ==
  [row EXCEPT !.state = "OFFER_RESERVED", !.booking = NULL,
              !.expiresAt = now + OfferTTL, !.reservedUntil = now + ReservedFor]

\* An offer that lasts as long as the seats stay reserved.
InitialOfferForAll(u, seats, now) ==
  [status |-> "PENDING", user |-> u, seats |-> seats, expiresAt |-> now + ReservedFor]

\* insertWaitlistOffer()
InitialOffer(u, seats, now) ==
  [status |-> "PENDING", user |-> u, seats |-> seats, expiresAt |-> now + OfferTTL]

-----------------------------------------------------------------------------
\* acceptOffer(), BEGIN and findOfferByTokenHash(): PENDING, and not expired by
\* this transaction's now().  Nothing is locked.
BeginAccept(r) ==
  \E by \in Requests, c \in Categories :
    /\ offer[by][c].status = "PENDING"
    /\ offer[by][c].expiresAt > clock
    /\ Begin(r, [pc |-> "accept", now |-> clock, by |-> by, category |-> c])

\* The WHERE clause of confirmOfferSeats(): the seats' state, not the offer's.
StillReserved(seats, now) ==
  {s \in seats : seat[s].state = "OFFER_RESERVED" /\ seat[s].expiresAt > now}

OfferBookedRow(row, b) ==
  [row EXCEPT !.state = "BOOKED", !.booking = b, !.expiresAt = NULL,
              !.reservedUntil = NULL, !.hold = NULL]

AcceptOffer(r) ==
  /\ tx[r].pc = "accept"
  /\ LET by    == tx[r].by
         c     == tx[r].category
         seats == offer[by][c].seats
         u     == offer[by][c].user
     IN  /\ Complete(StillReserved(seats, tx[r].now), seats)
         /\ booking' = [booking EXCEPT ![r] = NewBooking(seats, NULL, <<by, c>>)]
         /\ seat' = [s \in Seats |-> IF s \in StillReserved(seats, tx[r].now)
                                     THEN OfferBookedRow(seat[s], r) ELSE seat[s]]
         /\ offer' = [offer EXCEPT ![by][c] = Marked(@, "PENDING", "ACCEPTED")]
         /\ entry' = [entry EXCEPT ![c][u] = Marked(@, "OFFERED", "CONVERTED")]
  /\ Finish(r)
  /\ UNCHANGED <<clock, hold, joining>>

\* OfferInvalidError: booking and payment are rolled back together.
RefuseAccept(r) ==
  /\ tx[r].pc = "accept"
  /\ LET seats == offer[tx[r].by][tx[r].category].seats
     IN  ~ Complete(StillReserved(seats, tx[r].now), seats)
  /\ Finish(r)
  /\ UNCHANGED <<clock, tables, joining>>
=============================================================================
