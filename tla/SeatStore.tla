----------------------------- MODULE SeatStore ------------------------------
(***************************************************************************)
(* The tables the booking flow of one show shares, and the transactions    *)
(* that are in flight over them.                                           *)
(*                                                                         *)
(* A request identifier names the request AND the row that request inserts *)
(* (a seat_holds row, a bookings row, or one waitlist_offers row per       *)
(* category): the database draws a fresh uuid for each, so no two requests *)
(* ever insert the same one.                                               *)
(*                                                                         *)
(* withTransaction() runs at READ COMMITTED.  now() is the time of BEGIN   *)
(* for the whole transaction (tx[r].now), while time moves on; unlocked    *)
(* reads happen at their own moment; a guarded UPDATE and the COMMIT after *)
(* it are one step, because from the UPDATE on the rows are locked and     *)
(* nothing the transaction wrote is visible to anybody else.               *)
(***************************************************************************)
EXTENDS Naturals, FiniteSets, SeatStates

CONSTANTS
  Seats,        \* the show_seats rows of one show
  Categories,   \* seat_categories of its venue
  CategoryOf,   \* show_seats.category_id
  Users,        \* who may join the waitlist
  Requests,     \* every request the run may serve
  NULL,         \* SQL NULL
  HoldTTL,      \* shows.hold_ttl_seconds
  OfferTTL,     \* shows.offer_ttl_seconds
  MaxCascade,   \* WAITLIST_MAX_CASCADE_ATTEMPTS
  Grace,        \* the 60 seconds added to the cascade window
  MaxSeats,     \* MAX_SEATS_PER_BOOKING
  MaxTime       \* bound on the clock

ASSUME StoreAssumption ==
  /\ IsFiniteSet(Seats)
  /\ CategoryOf \in [Seats -> Categories]
  /\ NULL \notin Nat \cup Users \cup Requests
  /\ NULL \notin Requests \X Categories
  /\ HoldTTL \in Nat \ {0} /\ OfferTTL \in Nat \ {0}
  /\ MaxCascade \in Nat \ {0} /\ Grace \in Nat
  /\ MaxSeats \in Nat \ {0} /\ MaxTime \in Nat

VARIABLES
  clock,     \* the database's wall clock
  seat,      \* show_seats
  hold,      \* seat_holds, by the request that created the row
  booking,   \* bookings with their payment and booking_seats
  entry,     \* waitlist_entries, by category and user
  offer,     \* waitlist_offers, by creating request and category
  tx,        \* what each request is doing
  joining    \* progress of POST /waitlist, which runs outside a transaction

vars == <<clock, seat, hold, booking, entry, offer, tx, joining>>
tables == <<seat, hold, booking, entry, offer>>

-----------------------------------------------------------------------------
Times == Nat \cup {NULL}

SeatRows ==
  [state : SEAT_STATES, hold : Requests \cup {NULL}, expiresAt : Times,
   reservedUntil : Times, booking : Requests \cup {NULL}]

\* "seats" is what the create call returned to the client; seat_holds itself
\* does not record it.
HoldRows ==
  [status : {"NONE", "ACTIVE", "RELEASED", "CONVERTED"},
   seats : SUBSET Seats, expiresAt : Nat]

\* "seats" is booking_seats.  "hold" and "offer" say what the booking was made
\* from; the bookings table does not record it.
BookingRows ==
  [status : {"NONE", "CONFIRMED", "CANCELLED"},
   payment : {"NONE", "CAPTURED", "REFUNDED"}, seats : SUBSET Seats,
   hold : Requests \cup {NULL}, offer : (Requests \X Categories) \cup {NULL}]

EntryRows ==
  [status : {"NONE", "WAITING", "OFFERED", "CONVERTED"}, enqueuedAt : Nat]

OfferRows ==
  [status : {"NONE", "PENDING", "ACCEPTED"}, user : Users \cup {NULL},
   seats : SUBSET Seats, expiresAt : Nat]

NewTx       == [pc |-> "new"]
DoneTx      == [pc |-> "done"]
HoldTx      == [pc : {"hold"}, now : Nat, seats : SUBSET Seats]
ConfirmTx   == [pc : {"confirm"}, now : Nat, hold : Requests]
CheckedOut  == [pc : {"checkedOut"}, now : Nat, hold : Requests,
                seats : SUBSET Seats]
CancelTx    == [pc : {"cancel", "cancelling"}, now : Nat, booking : Requests,
                decided : SUBSET Categories,
                heir : [Categories -> Users \cup {NULL}]]
AcceptTx    == [pc : {"accept"}, now : Nat, by : Requests,
                category : Categories]

TxStates ==
  {NewTx, DoneTx} \cup HoldTx \cup ConfirmTx \cup CheckedOut \cup CancelTx
    \cup AcceptTx

JoinStates == {"idle", "checked", "inserted"}

TypeOK ==
  /\ clock \in Nat
  /\ seat \in [Seats -> SeatRows]
  /\ hold \in [Requests -> HoldRows]
  /\ booking \in [Requests -> BookingRows]
  /\ entry \in [Categories -> [Users -> EntryRows]]
  /\ offer \in [Requests -> [Categories -> OfferRows]]
  /\ tx \in [Requests -> TxStates]
  /\ joining \in [Categories -> [Users -> JoinStates]]

-----------------------------------------------------------------------------
FreeSeat ==
  [state |-> "AVAILABLE", hold |-> NULL, expiresAt |-> NULL,
   reservedUntil |-> NULL, booking |-> NULL]
NoHold == [status |-> "NONE", seats |-> {}, expiresAt |-> 0]
NoBooking ==
  [status |-> "NONE", payment |-> "NONE", seats |-> {}, hold |-> NULL,
   offer |-> NULL]
NoEntry == [status |-> "NONE", enqueuedAt |-> 0]
NoOffer == [status |-> "NONE", user |-> NULL, seats |-> {}, expiresAt |-> 0]

\* A show just published: every row AVAILABLE, nothing else written.
Init ==
  /\ clock = 0
  /\ seat = [s \in Seats |-> FreeSeat]
  /\ hold = [r \in Requests |-> NoHold]
  /\ booking = [r \in Requests |-> NoBooking]
  /\ entry = [c \in Categories |-> [u \in Users |-> NoEntry]]
  /\ offer = [r \in Requests |-> [c \in Categories |-> NoOffer]]
  /\ tx = [r \in Requests |-> NewTx]
  /\ joining = [c \in Categories |-> [u \in Users |-> "idle"]]

-----------------------------------------------------------------------------
InFlight(r) == tx[r] \notin {NewTx, DoneTx}

\* BEGIN: a request not served before starts a transaction.
Begin(r, t) ==
  /\ tx[r] = NewTx
  /\ tx' = [tx EXCEPT ![r] = t]
  /\ UNCHANGED <<clock, tables, joining>>

Finish(r) == tx' = [tx EXCEPT ![r] = DoneTx]

\* ROLLBACK: a thrown error, the 5 s statement timeout, a lost connection or a
\* crash of the process.  Nothing the transaction wrote survives and its row
\* locks are gone.
Rollback(r) ==
  /\ InFlight(r)
  /\ Finish(r)
  /\ UNCHANGED <<clock, tables, joining>>

\* The check after every guarded UPDATE: as many rows came back as were asked for.
AnyRow(done, asked) == done # {}
Complete(done, asked) == Cardinality(done) >= Cardinality(asked)

\* insertBooking() and authorizeAndCapture(), then insertBookingSeats().
NewBooking(seats, fromHold, fromOffer) ==
  [status |-> "CONFIRMED", payment |-> "CAPTURED", seats |-> seats,
   hold |-> fromHold, offer |-> fromOffer]

Tick ==
  /\ clock < MaxTime
  /\ clock' = clock + 1
  /\ UNCHANGED <<tables, tx, joining>>
=============================================================================
