------------------------- MODULE TicketSystemProofs -------------------------
(***************************************************************************)
(* Theorems about TicketSystem, for every number of seats, categories,     *)
(* users and requests and every deadline.                                  *)
(***************************************************************************)
EXTENDS TicketSystem, FiniteSetTheorems, TLAPS

\* The shape of a transaction record is told by its pc.
LEMMA TxShape ==
  ASSUME TypeOK, NEW r \in Requests
  PROVE  /\ tx[r] \in TxStates
         /\ tx[r].pc = "hold" => tx[r] \in HoldTx
         /\ tx[r].pc = "confirm" => tx[r] \in ConfirmTx
         /\ tx[r].pc = "checkedOut" => tx[r] \in CheckedOut
         /\ tx[r].pc \in {"cancel", "cancelling"} => tx[r] \in CancelTx
         /\ tx[r].pc = "accept" => tx[r] \in AcceptTx
  BY DEF TypeOK, TxStates, NewTx, DoneTx, HoldTx, ConfirmTx, CheckedOut, CancelTx,
         AcceptTx

LEMMA TypeInit == Init => TypeOK
  BY StoreAssumption
  DEF Init, TypeOK, StoreAssumption, SeatRows, HoldRows, BookingRows, EntryRows,
      OfferRows, TxStates, JoinStates, Times, SEAT_STATES, FreeSeat, NoHold,
      NoBooking, NoEntry, NoOffer

\* Beginning a transaction writes its record and nothing else.
LEMMA TypeBegin ==
  ASSUME TypeOK, NEW r \in Requests, NEW t \in TxStates, Begin(r, t)
  PROVE  TypeOK'
  BY DEF TypeOK, Begin, tables

\* So does ending one that changed no table.
LEMMA TypeEnd ==
  ASSUME TypeOK, NEW r \in Requests, Finish(r), UNCHANGED <<clock, tables, joining>>
  PROVE  TypeOK'
  BY DEF TypeOK, Finish, tables, TxStates

\* What each statement leaves in the columns of a row.
LEMMA Rows ==
  ASSUME NEW row \in SeatRows, NEW r \in Requests, NEW t \in Nat
  PROVE  /\ HeldRow(row, r, t) \in SeatRows
         /\ ReleasedRow(row) \in SeatRows
         /\ BookedRow(row, r) \in SeatRows
         /\ ReturnedRow(row) \in SeatRows
         /\ OfferReservedRow(row, t) \in SeatRows
         /\ OfferBookedRow(row, r) \in SeatRows
<1> USE DEF SeatRows, SEAT_STATES, Times
<1>1. HeldRow(row, r, t) \in SeatRows  BY DEF HeldRow
<1>2. ReleasedRow(row) \in SeatRows  BY DEF ReleasedRow
<1>3. BookedRow(row, r) \in SeatRows  BY DEF BookedRow
<1>4. ReturnedRow(row) \in SeatRows  BY DEF ReturnedRow
<1>5. t + OfferTTL \in Nat /\ t + ReservedFor \in Nat
  BY StoreAssumption DEF StoreAssumption, ReservedFor
<1>6. OfferReservedRow(row, t) \in SeatRows  BY <1>5 DEF OfferReservedRow
<1>7. OfferBookedRow(row, r) \in SeatRows  BY DEF OfferBookedRow
<1> QED  BY <1>1, <1>2, <1>3, <1>4, <1>6, <1>7

LEMMA Columns ==
  ASSUME NEW row \in SeatRows, NEW r, NEW t
  PROVE  /\ HeldRow(row, r, t).state = "HELD"
         /\ HeldRow(row, r, t).hold = r
         /\ HeldRow(row, r, t).expiresAt = t
         /\ ReleasedRow(row).state = "AVAILABLE"
         /\ BookedRow(row, r).state = "BOOKED"
         /\ BookedRow(row, r).booking = r
         /\ ReturnedRow(row).state = "AVAILABLE"
         /\ OfferReservedRow(row, t).state = "OFFER_RESERVED"
         /\ OfferBookedRow(row, r).state = "BOOKED"
         /\ OfferBookedRow(row, r).booking = r
  BY DEF SeatRows, HeldRow, ReleasedRow, BookedRow, ReturnedRow, OfferReservedRow,
         OfferBookedRow

\* A hold that ends is still a seat_holds row.
LEMMA EndHoldRows ==
  ASSUME TypeOK, NEW h \in Requests, NEW status \in {"RELEASED", "CONVERTED"},
         EndHold(h, status)
  PROVE  hold' \in [Requests -> HoldRows]
<1>1. ASSUME NEW row \in HoldRows
      PROVE  [row EXCEPT !.status = IF @ = "ACTIVE" THEN status ELSE @] \in HoldRows
  BY DEF HoldRows
<1>2. hold \in [Requests -> HoldRows]
  BY DEF TypeOK
<1> QED  BY <1>1, <1>2 DEF EndHold

LEMMA TypeHolds ==
  ASSUME TypeOK, NEW r \in Requests
  PROVE  /\ BeginHold(r) => TypeOK'
         /\ CreateHold(r) => TypeOK'
         /\ RefuseHold(r) => TypeOK'
         /\ ReleaseHold(r) => TypeOK'
<1> USE DEF TypeOK
<1>1. ASSUME BeginHold(r) PROVE TypeOK'
  <2>1. PICK seats \in SUBSET Seats :
               Begin(r, [pc |-> "hold", now |-> clock, seats |-> seats])
    BY <1>1 DEF BeginHold
  <2>2. [pc |-> "hold", now |-> clock, seats |-> seats] \in TxStates
    BY DEF TxStates, HoldTx
  <2> QED  BY <2>1, <2>2, TypeBegin
<1>2. ASSUME CreateHold(r) PROVE TypeOK'
  <2>1. tx[r] \in HoldTx /\ tx[r].now \in Nat /\ tx[r].now + HoldTTL \in Nat
    BY <1>2, TxShape, StoreAssumption DEF CreateHold, HoldTx, StoreAssumption
  <2>2. ASSUME NEW s \in Seats
        PROVE  HeldRow(seat[s], r, tx[r].now + HoldTTL) \in SeatRows
    BY <2>1, Rows
  <2>3. seat' \in [Seats -> SeatRows]
    BY <1>2, <2>2 DEF CreateHold
  <2>4. hold' \in [Requests -> HoldRows]
    BY <1>2, <2>1 DEF CreateHold, HoldRows, HoldTx
  <2> QED  BY <1>2, <2>3, <2>4 DEF CreateHold, Finish, TxStates
<1>3. ASSUME RefuseHold(r) PROVE TypeOK'
  BY <1>3, TypeEnd DEF RefuseHold
<1>4. ASSUME ReleaseHold(r) PROVE TypeOK'
  <2>1. ASSUME NEW s \in Seats PROVE ReleasedRow(seat[s]) \in SeatRows
    BY Rows, 0 \in Nat
  <2>2. seat' \in [Seats -> SeatRows]
    BY <1>4, <2>1 DEF ReleaseHold
  <2>3. hold' \in [Requests -> HoldRows]
    BY <1>4, EndHoldRows DEF ReleaseHold
  <2> QED  BY <1>4, <2>2, <2>3 DEF ReleaseHold
<1> QED  BY <1>1, <1>2, <1>3, <1>4

LEMMA TypeWaitlist ==
  ASSUME TypeOK, NEW c \in Categories, NEW u \in Users, Join(c, u)
  PROVE  TypeOK'
<1> USE DEF TypeOK, tables
<1>1. CASE CheckJoin(c, u)  BY <1>1 DEF CheckJoin, JoinStates
<1>2. CASE InsertEntry(c, u)
  <2>1. entry' \in [Categories -> [Users -> EntryRows]]
    BY <1>2 DEF InsertEntry, EntryRows
  <2>2. joining' \in [Categories -> [Users -> JoinStates]]
    BY <1>2 DEF InsertEntry, JoinStates
  <2> QED  BY <1>2, <2>1, <2>2 DEF InsertEntry
<1>3. CASE RefuseEntry(c, u)  BY <1>3 DEF RefuseEntry, JoinStates
<1>4. CASE ReadPosition(c, u)  BY <1>4 DEF ReadPosition, JoinStates
<1> QED  BY <1>1, <1>2, <1>3, <1>4 DEF Join

LEMMA MarkedEntry ==
  ASSUME NEW row \in EntryRows, NEW from, NEW to \in {"OFFERED", "CONVERTED"}
  PROVE  Marked(row, from, to) \in EntryRows
  BY DEF Marked, EntryRows

LEMMA NewBookingRow ==
  ASSUME NEW seats \in SUBSET Seats, NEW h \in Requests \cup {NULL},
         NEW o \in (Requests \X Categories) \cup {NULL}
  PROVE  NewBooking(seats, h, o) \in BookingRows
  BY DEF NewBooking, BookingRows

LEMMA TypeConfirm ==
  ASSUME TypeOK, NEW r \in Requests
  PROVE  /\ BeginConfirm(r) => TypeOK'
         /\ ReadHoldSeats(r) => TypeOK'
         /\ ConfirmBooking(r) => TypeOK'
         /\ RefuseConfirm(r) => TypeOK'
<1> USE DEF TypeOK
<1>1. ASSUME BeginConfirm(r) PROVE TypeOK'
  <2>1. PICK h \in Requests :
               Begin(r, [pc |-> "confirm", now |-> clock, hold |-> h])
    BY <1>1 DEF BeginConfirm
  <2>2. [pc |-> "confirm", now |-> clock, hold |-> h] \in TxStates
    BY DEF TxStates, ConfirmTx
  <2> QED  BY <2>1, <2>2, TypeBegin
<1>2. ASSUME ReadHoldSeats(r) PROVE TypeOK'
  <2>1. tx[r] \in ConfirmTx
    BY <1>2, TxShape DEF ReadHoldSeats
  <2>2. HeldUnder(tx[r].hold) \in SUBSET Seats
    BY DEF HeldUnder
  <2>3. tx' \in [Requests -> TxStates]
    BY <1>2, <2>1, <2>2 DEF ReadHoldSeats, TxStates, ConfirmTx, CheckedOut
  <2> QED  BY <1>2, <2>3 DEF ReadHoldSeats, tables
<1>3. ASSUME ConfirmBooking(r) PROVE TypeOK'
  <2>1. /\ tx[r] \in CheckedOut
        /\ tx[r].hold \in Requests
        /\ tx[r].seats \in SUBSET Seats
    BY <1>3, TxShape DEF ConfirmBooking, CheckedOut
  <2>2. ASSUME NEW s \in Seats PROVE BookedRow(seat[s], r) \in SeatRows
    BY Rows, 0 \in Nat
  <2>3. seat' \in [Seats -> SeatRows]
    BY <1>3, <2>2 DEF ConfirmBooking
  <2>4. booking' \in [Requests -> BookingRows]
    BY <1>3, <2>1, NewBookingRow DEF ConfirmBooking
  <2>5. hold' \in [Requests -> HoldRows]
    BY <1>3, <2>1, EndHoldRows DEF ConfirmBooking
  <2> QED  BY <1>3, <2>3, <2>4, <2>5 DEF ConfirmBooking, Finish, TxStates
<1>4. ASSUME RefuseConfirm(r) PROVE TypeOK'
  BY <1>4, TypeEnd DEF RefuseConfirm
<1> QED  BY <1>1, <1>2, <1>3, <1>4

LEMMA TypeCancel ==
  ASSUME TypeOK, NEW r \in Requests
  PROVE  /\ BeginCancel(r) => TypeOK'
         /\ LockBooking(r) => TypeOK'
         /\ \A c \in Categories : ClaimHeir(r, c) => TypeOK'
         /\ CancelBooking(r) => TypeOK'
<1> USE DEF TypeOK
<1>1. ASSUME BeginCancel(r) PROVE TypeOK'
  <2> DEFINE t(b) == [pc |-> "cancel", now |-> clock, booking |-> b,
                      decided |-> {}, heir |-> [c \in Categories |-> NULL]]
  <2>1. PICK b \in Requests : Begin(r, t(b))
    BY <1>1 DEF BeginCancel
  <2>2. t(b) \in TxStates
    BY DEF TxStates, CancelTx
  <2> QED  BY <2>1, <2>2, TypeBegin
<1>2. ASSUME NEW c \in Categories, ClaimHeir(r, c) PROVE TypeOK'
  <2>1. PICK u \in Users \cup {NULL} :
          tx' = [tx EXCEPT ![r].decided = @ \cup {c}, ![r].heir[c] = u]
    BY <1>2 DEF ClaimHeir, QueueHeads, Waiting
  <2>2. tx[r] \in CancelTx
    BY <1>2, TxShape DEF ClaimHeir, Cancelling
  <2>3. [tx[r] EXCEPT !.decided = @ \cup {c}, !.heir[c] = u] \in CancelTx
    BY <2>2 DEF CancelTx
  <2>4. tx' \in [Requests -> TxStates]
    BY <2>1, <2>3 DEF TxStates
  <2> QED  BY <1>2, <2>4 DEF ClaimHeir, tables
<1>3. ASSUME CancelBooking(r) PROVE TypeOK'
  <2>1. /\ tx[r] \in CancelTx
        /\ tx[r].now \in Nat
        /\ tx[r].booking \in Requests
        /\ tx[r].heir \in [Categories -> Users \cup {NULL}]
    BY <1>3, TxShape DEF CancelBooking, Cancelling, CancelTx
  <2>2. ASSUME NEW s \in Seats
        PROVE  /\ ReturnedRow(seat[s]) \in SeatRows
               /\ OfferReservedRow(seat[s], tx[r].now) \in SeatRows
    BY <2>1, Rows
  <2>3. seat' \in [Seats -> SeatRows]
    BY <1>3, <2>2 DEF CancelBooking
  <2>4. booking' \in [Requests -> BookingRows]
    <3>1. ASSUME NEW row \in BookingRows PROVE Cancelled(row) \in BookingRows
      BY DEF Cancelled, BookingRows
    <3> QED  BY <1>3, <3>1, <2>1 DEF CancelBooking
  <2>5. offer' \in [Requests -> [Categories -> OfferRows]]
    <3>1. ASSUME NEW c \in Categories, tx[r].heir[c] # NULL
          PROVE  InitialOffer(tx[r].heir[c], SeatsToFree(tx[r].booking, c), tx[r].now)
                   \in OfferRows
      BY <2>1, StoreAssumption
      DEF InitialOffer, SeatsToFree, BookedUnder, OfferRows, StoreAssumption
    <3> QED  BY <1>3, <3>1 DEF CancelBooking
  <2>6. entry' \in [Categories -> [Users -> EntryRows]]
    BY <1>3, MarkedEntry DEF CancelBooking
  <2> QED  BY <1>3, <2>3, <2>4, <2>5, <2>6 DEF CancelBooking, Finish, TxStates
<1>4. ASSUME LockBooking(r) PROVE TypeOK'
  <2>1. [tx[r] EXCEPT !.pc = "cancelling"] \in CancelTx
    BY <1>4, TxShape DEF LockBooking, CancelTx
  <2>2. tx' \in [Requests -> TxStates]
    BY <1>4, <2>1 DEF LockBooking, TxStates
  <2> QED  BY <1>4, <2>2 DEF LockBooking, tables
<1> QED  BY <1>1, <1>2, <1>3, <1>4

LEMMA TypeAccept ==
  ASSUME TypeOK, NEW r \in Requests
  PROVE  /\ BeginAccept(r) => TypeOK'
         /\ AcceptOffer(r) => TypeOK'
         /\ RefuseAccept(r) => TypeOK'
<1> USE DEF TypeOK
<1>1. ASSUME BeginAccept(r) PROVE TypeOK'
  <2> DEFINE t(by, c) == [pc |-> "accept", now |-> clock, by |-> by, category |-> c]
  <2>1. PICK by \in Requests, c \in Categories : Begin(r, t(by, c))
    BY <1>1 DEF BeginAccept
  <2>2. t(by, c) \in TxStates
    BY DEF TxStates, AcceptTx
  <2> QED  BY <2>1, <2>2, TypeBegin
<1>2. ASSUME AcceptOffer(r) PROVE TypeOK'
  <2> DEFINE by == tx[r].by
             c  == tx[r].category
             o  == offer[by][c]
  <2>1. by \in Requests /\ c \in Categories
    BY <1>2, TxShape DEF AcceptOffer, AcceptTx
  <2>2. o \in OfferRows /\ o.seats \in SUBSET Seats
    BY <2>1 DEF OfferRows
  <2>3. ASSUME NEW s \in Seats PROVE OfferBookedRow(seat[s], r) \in SeatRows
    BY Rows, 0 \in Nat
  <2>4. seat' \in [Seats -> SeatRows]
    BY <1>2, <2>3 DEF AcceptOffer
  <2>5. booking' \in [Requests -> BookingRows]
    BY <1>2, <2>1, <2>2, NewBookingRow DEF AcceptOffer
  <2>6. offer' \in [Requests -> [Categories -> OfferRows]]
    <3>1. Marked(o, "PENDING", "ACCEPTED") \in OfferRows
      BY <2>2 DEF Marked, OfferRows
    <3> QED  BY <1>2, <2>1, <3>1 DEF AcceptOffer
  <2>7. entry' \in [Categories -> [Users -> EntryRows]]
    <3>1. /\ o.user \in Users \cup {NULL}
          /\ \A u \in Users : Marked(entry[c][u], "OFFERED", "CONVERTED") \in EntryRows
      BY <2>1, <2>2, MarkedEntry DEF OfferRows
    <3>2. entry' = [entry EXCEPT ![c][o.user] = Marked(@, "OFFERED", "CONVERTED")]
      BY <1>2 DEF AcceptOffer
    <3> HIDE DEF by, c, o
    <3> QED  BY <2>1, <3>1, <3>2
  <2> QED  BY <1>2, <2>4, <2>5, <2>6, <2>7 DEF AcceptOffer, Finish, TxStates
<1>3. ASSUME RefuseAccept(r) PROVE TypeOK'
  BY <1>3, TypeEnd DEF RefuseAccept
<1> QED  BY <1>1, <1>2, <1>3

LEMMA TypeNext ==
  ASSUME TypeOK, [Next]_vars
  PROVE  TypeOK'
<1>1. CASE \E r \in Requests : Arrive(r)
  BY <1>1, TypeHolds, TypeConfirm, TypeCancel, TypeAccept DEF Arrive
<1>2. CASE \E r \in Requests : Progress(r)
  BY <1>2, TypeHolds, TypeConfirm, TypeCancel, TypeAccept, TypeEnd
  DEF Progress, Rollback
<1>3. CASE \E h \in Requests : ReleaseHold(h)
  BY <1>3, TypeHolds
<1>4. CASE \E c \in Categories, u \in Users : Join(c, u)
  BY <1>4, TypeWaitlist
<1>5. CASE Tick
  BY <1>5 DEF Tick, TypeOK, tables
<1>6. CASE UNCHANGED vars
  BY <1>6 DEF TypeOK, vars
<1> QED  BY <1>1, <1>2, <1>3, <1>4, <1>5, <1>6 DEF Next

\* TypeOK: every row of every table keeps its columns within their types, and
\* every open transaction its record, whatever requests run.
THEOREM TypeCorrect == Spec => []TypeOK
<1> QED  BY TypeInit, TypeNext, PTL DEF Spec

-----------------------------------------------------------------------------
(***************************************************************************)
(* The inductive invariant.  PaidSeatsAreOccupied alone is not inductive:  *)
(* that a confirmation which matched as many rows as it read books the     *)
(* very rows it read needs ReadsStaySound, and that a hold is spent once   *)
(* needs to know that no HELD row outlives its hold.                       *)
(***************************************************************************)
IInv ==
  /\ TypeOK
  /\ ReadsStaySound
  /\ HeldRowsHaveTheirHold
  /\ PaidSeatsAreOccupied
  /\ HoldSpentOnce
  /\ LiveHoldKeepsSeats

LEMMA IInvInit == Init => IInv
<1> SUFFICES ASSUME Init PROVE IInv
  OBVIOUS
<1>1. TypeOK  BY TypeInit
<1>2. ReadsStaySound /\ HeldRowsHaveTheirHold /\ LiveHoldKeepsSeats
  BY DEF Init, ReadsStaySound, HeldRowsHaveTheirHold, LiveHoldKeepsSeats, InFlight,
         NewTx, DoneTx, FreeSeat, NoHold
<1>3. PaidSeatsAreOccupied
  BY DEF Init, PaidSeatsAreOccupied, BookedUnder, FreeSeat, NoBooking
<1>4. HoldSpentOnce
  BY StoreAssumption DEF Init, HoldSpentOnce, NoBooking, NoHold, StoreAssumption
<1> QED  BY <1>1, <1>2, <1>3, <1>4 DEF IInv

\* A step that leaves seats, holds and bookings alone keeps all that is said of
\* them; time running on only ends promises.
LEMMA TablesUntouched ==
  ASSUME IInv, TypeOK', UNCHANGED <<seat, hold, booking>>, clock' >= clock
  PROVE  /\ HeldRowsHaveTheirHold'
         /\ PaidSeatsAreOccupied'
         /\ HoldSpentOnce'
         /\ LiveHoldKeepsSeats'
<1>1. HeldRowsHaveTheirHold'
  BY DEF IInv, HeldRowsHaveTheirHold
<1>2. PaidSeatsAreOccupied'
  BY DEF IInv, PaidSeatsAreOccupied, BookedUnder
<1>3. HoldSpentOnce'
  BY DEF IInv, HoldSpentOnce
<1>4. LiveHoldKeepsSeats'
  <2>1. clock \in Nat /\ clock' \in Nat /\ \A h \in Requests : hold[h].expiresAt \in Nat
    BY DEF IInv, TypeOK, HoldRows
  <2> QED  BY <2>1 DEF IInv, LiveHoldKeepsSeats, HeldUnder
<1> QED  BY <1>1, <1>2, <1>3, <1>4

\* What ReadsStaySound says of one request.
Sound(r) ==
  /\ tx[r] # DoneTx => booking[r] = NoBooking /\ hold[r] = NoHold
  /\ InFlight(r) => tx[r].now <= clock
  /\ tx[r].pc \in {"confirm", "checkedOut"} => hold[tx[r].hold].status # "NONE"
  /\ tx[r].pc = "checkedOut" =>
       tx[r].seats # {} /\ HeldUnder(tx[r].hold) \subseteq tx[r].seats

\* Beginning a transaction with a timestamp of now is sound.
LEMMA SoundBegin ==
  ASSUME IInv, NEW r \in Requests, NEW t \in TxStates, Begin(r, t), t.now = clock,
         t.pc # "checkedOut", t.pc = "confirm" => hold[t.hold].status # "NONE"
  PROVE  ReadsStaySound'
<1>1. /\ tx[r] = NewTx
      /\ tx' = [tx EXCEPT ![r] = t]
      /\ UNCHANGED <<clock, seat, hold, booking>>
  BY DEF Begin, tables
<1>2. tx'[r] = t /\ \A q \in Requests \ {r} : tx'[q] = tx[q]
  BY <1>1 DEF IInv, TypeOK
<1>3. \A q \in Requests : Sound(q)
  BY DEF IInv, ReadsStaySound, Sound
<1>4. ASSUME NEW q \in Requests PROVE Sound(q)'
  <2>1. CASE q = r
    <3>1. booking[r] = NoBooking /\ hold[r] = NoHold
      BY <1>1, <1>3 DEF Sound, NewTx, DoneTx
    <3>2. clock \in Nat
      BY DEF IInv, TypeOK
    <3> QED  BY <1>1, <1>2, <2>1, <3>1, <3>2 DEF Sound
  <2>2. CASE q # r
    BY <1>1, <1>2, <1>3, <2>2 DEF Sound, InFlight, HeldUnder
  <2> QED  BY <2>1, <2>2
<1> QED  BY <1>4 DEF ReadsStaySound, Sound

\* So is any step that ends one transaction and changes no table.
LEMMA SoundEnd ==
  ASSUME IInv, NEW r \in Requests, Finish(r), UNCHANGED <<clock, seat, hold, booking>>
  PROVE  ReadsStaySound'
<1>1. \A q \in Requests : tx'[q] = IF q = r THEN DoneTx ELSE tx[q]
  BY DEF Finish, IInv, TypeOK
<1>2. \A q \in Requests : Sound(q)
  BY DEF IInv, ReadsStaySound, Sound
<1>3. ASSUME NEW q \in Requests PROVE Sound(q)'
  BY <1>1, <1>2 DEF Sound, InFlight, HeldUnder, DoneTx
<1> QED  BY <1>3 DEF ReadsStaySound, Sound

\* The count comparison of the services: a part of a finite set that is as large
\* as the set is the set.
LEMMA NoShortfall ==
  ASSUME NEW all \in SUBSET Seats, NEW matched \in SUBSET all,
         Complete(matched, all)
  PROVE  matched = all
<1>1. IsFiniteSet(all)
  BY StoreAssumption, FS_Subset DEF StoreAssumption
<1>2. IsFiniteSet(matched) /\ Cardinality(matched) <= Cardinality(all)
  BY <1>1, FS_Subset
<1>3. Cardinality(all) \in Nat /\ Cardinality(matched) \in Nat
  BY <1>1, <1>2, FS_CardinalityType
<1>4. Cardinality(matched) = Cardinality(all)
  BY <1>2, <1>3 DEF Complete
<1> QED  BY <1>1, <1>4, FS_Subset

LEMMA IInvCreateHold ==
  ASSUME IInv, TypeOK', NEW r \in Requests, CreateHold(r)
  PROVE  IInv'
<1> DEFINE S   == tx[r].seats
           now == tx[r].now
<1>1. /\ tx[r] \in HoldTx /\ S \in SUBSET Seats /\ now \in Nat /\ clock \in Nat
      /\ now <= clock
      /\ booking[r] = NoBooking /\ hold[r] = NoHold
  <2>1. tx[r] \in HoldTx /\ clock \in Nat
    BY TxShape DEF IInv, CreateHold, TypeOK
  <2>2. tx[r] # DoneTx /\ tx[r] # NewTx
    BY <2>1 DEF HoldTx, NewTx, DoneTx
  <2> QED  BY <2>1, <2>2 DEF IInv, ReadsStaySound, InFlight, HoldTx
<1>2. /\ \A s \in Seats \ S : seat'[s] = seat[s]
      /\ \A s \in S : /\ Acquirable(seat[s], now)
                      /\ seat'[s].state = "HELD" /\ seat'[s].hold = r
                      /\ seat'[s].expiresAt = now + HoldTTL
  <2>1. \A s \in Seats : seat[s] \in SeatRows
    BY DEF IInv, TypeOK
  <2>2. Complete(Acquired(S, now), S) /\ Acquired(S, now) \in SUBSET S
    BY DEF CreateHold, Acquired
  <2>3. \A s \in Seats : seat'[s] = IF s \in Acquired(S, now)
                                     THEN HeldRow(seat[s], r, now + HoldTTL) ELSE seat[s]
    BY DEF CreateHold
  <2> HIDE DEF S, now
  <2>4. Acquired(S, now) = S
    BY <1>1, <2>2, NoShortfall
  <2>5. \A s \in S : Acquirable(seat[s], now)
    BY <2>4 DEF Acquired
  <2> QED  BY <1>1, <2>1, <2>3, <2>4, <2>5, Columns
<1>3. /\ hold'[r] = [status |-> "ACTIVE", seats |-> S, expiresAt |-> now + HoldTTL]
      /\ \A h \in Requests \ {r} : hold'[h] = hold[h]
      /\ booking' = booking /\ clock' = clock
      /\ \A q \in Requests : tx'[q] = IF q = r THEN DoneTx ELSE tx[q]
  BY DEF CreateHold, Finish, IInv, TypeOK
<1>4. \A h \in Requests \ {r} : HeldUnder(h)' \subseteq HeldUnder(h)
  BY <1>2 DEF HeldUnder
<1>5. ReadsStaySound'
  <2>1. ASSUME NEW q \in Requests PROVE Sound(q)'
    <3>1. Sound(q) /\ hold[r].status = "NONE"
      BY <1>1 DEF IInv, ReadsStaySound, Sound, NoHold
    <3>2. CASE q = r
      BY <3>2, <1>3 DEF Sound, InFlight, DoneTx
    <3>3. CASE q # r /\ tx[q].pc \in {"confirm", "checkedOut"}
      <4>1. tx[q].hold \in Requests \ {r}
        BY <3>1, <3>3, TxShape DEF Sound, IInv, ConfirmTx, CheckedOut
      <4> QED  BY <1>3, <1>4, <3>1, <3>3, <4>1 DEF Sound, InFlight
    <3>4. CASE q # r /\ tx[q].pc \notin {"confirm", "checkedOut"}
      BY <1>3, <3>1, <3>4 DEF Sound, InFlight
    <3> QED  BY <3>2, <3>3, <3>4
  <2> QED  BY <2>1 DEF ReadsStaySound, Sound
<1>6. HeldRowsHaveTheirHold'
  <2>1. ASSUME NEW s \in Seats, seat'[s].state = "HELD"
        PROVE  \E h \in Requests : /\ seat'[s].hold = h
                                   /\ hold'[h].status = "ACTIVE"
                                   /\ s \in hold'[h].seats
                                   /\ seat'[s].expiresAt = hold'[h].expiresAt
    <3>1. CASE s \in S
      BY <1>2, <1>3, <3>1
    <3>2. CASE s \notin S
      <4>1. seat'[s] = seat[s]
        BY <1>2, <3>2
      <4>2. PICK h \in Requests : /\ seat[s].hold = h
                                  /\ hold[h].status = "ACTIVE"
                                  /\ s \in hold[h].seats
                                  /\ seat[s].expiresAt = hold[h].expiresAt
        BY <2>1, <4>1 DEF IInv, HeldRowsHaveTheirHold
      <4>3. h # r
        BY <4>2, <1>1 DEF NoHold
      <4> QED  BY <4>1, <4>2, <4>3, <1>3
    <3> QED  BY <3>1, <3>2
  <2> QED  BY <2>1 DEF HeldRowsHaveTheirHold
<1>7. PaidSeatsAreOccupied'
  <2>1. ASSUME NEW s \in Seats
        PROVE  /\ seat[s].state = "BOOKED" <=> seat'[s].state = "BOOKED"
               /\ seat[s].state = "BOOKED" => seat'[s] = seat[s]
    BY <1>2 DEF Acquirable
  <2>2. \A b \in Requests : BookedUnder(b)' = BookedUnder(b)
    BY <2>1 DEF BookedUnder
  <2> QED  BY <1>3, <2>1, <2>2 DEF IInv, PaidSeatsAreOccupied
<1>8. HoldSpentOnce'
  <2>1. \A h \in Requests : hold'[h].status = "CONVERTED" <=> hold[h].status = "CONVERTED"
    BY <1>1, <1>3 DEF NoHold
  <2> QED  BY <2>1, <1>3 DEF IInv, HoldSpentOnce
<1>9. LiveHoldKeepsSeats'
  <2>1. ASSUME NEW h \in Requests, hold'[h].status = "ACTIVE", hold'[h].expiresAt > clock',
               NEW s \in hold'[h].seats
        PROVE  s \in HeldUnder(h)' /\ seat'[s].expiresAt = hold'[h].expiresAt
    <3>1. CASE h = r
      BY <1>1, <1>2, <1>3, <2>1, <3>1 DEF HeldUnder
    <3>2. CASE h # r
      <4>1. /\ s \in HeldUnder(h)
            /\ seat[s].expiresAt = hold[h].expiresAt
            /\ hold[h].expiresAt > clock /\ hold[h].expiresAt \in Nat
        BY <1>3, <2>1, <3>2 DEF IInv, LiveHoldKeepsSeats, TypeOK, HoldRows
      <4>2. ~ Acquirable(seat[s], now)
        BY <1>1, <4>1 DEF Acquirable, HeldUnder
      <4>3. seat'[s] = seat[s]
        BY <1>2, <4>1, <4>2 DEF HeldUnder
      <4> QED  BY <1>3, <3>2, <4>1, <4>3 DEF HeldUnder
    <3> QED  BY <3>1, <3>2
  <2> QED  BY <2>1 DEF LiveHoldKeepsSeats
<1> QED  BY <1>5, <1>6, <1>7, <1>8, <1>9 DEF IInv

LEMMA IInvReleaseHold ==
  ASSUME IInv, TypeOK', NEW h \in Requests, ReleaseHold(h)
  PROVE  IInv'
<1>1. \A s \in Seats : IF s \in HeldUnder(h) THEN seat'[s].state = "AVAILABLE"
                       ELSE seat'[s] = seat[s]
  <2>1. \A s \in Seats : seat[s] \in SeatRows
    BY DEF IInv, TypeOK
  <2> QED  BY <2>1, Columns, 0 \in Nat DEF ReleaseHold
<1>2. /\ hold[h].status # "NONE" /\ hold'[h].status \notin {"NONE", "ACTIVE"}
      /\ hold'[h].status = "CONVERTED" <=> hold[h].status = "CONVERTED"
      /\ \A g \in Requests \ {h} : hold'[g] = hold[g]
      /\ UNCHANGED <<clock, booking, tx>>
  BY DEF ReleaseHold, EndHold, IInv, TypeOK, HoldRows
<1>3. HeldUnder(h)' = {} /\ \A g \in Requests \ {h} : HeldUnder(g)' = HeldUnder(g)
  BY <1>1 DEF HeldUnder
<1>4. ReadsStaySound'
  <2>1. ASSUME NEW q \in Requests PROVE Sound(q)'
    <3>1. Sound(q) /\ (tx[q] # DoneTx => q # h)
      BY <1>2 DEF IInv, ReadsStaySound, Sound, NoHold
    <3>2. tx[q].pc \in {"confirm", "checkedOut"} => tx[q].hold \in Requests
      BY TxShape DEF IInv, ConfirmTx, CheckedOut
    <3> QED  BY <1>2, <1>3, <3>1, <3>2 DEF Sound, InFlight
  <2> QED  BY <2>1 DEF ReadsStaySound, Sound
<1>5. HeldRowsHaveTheirHold'
  <2>1. ASSUME NEW s \in Seats, seat'[s].state = "HELD"
        PROVE  seat'[s] = seat[s] /\ seat[s].hold # h
    BY <1>1, <2>1 DEF HeldUnder
  <2> QED  BY <1>2, <2>1 DEF IInv, HeldRowsHaveTheirHold
<1>6. PaidSeatsAreOccupied'
  <2>1. \A b \in Requests : BookedUnder(b)' = BookedUnder(b)
    BY <1>1 DEF BookedUnder, HeldUnder
  <2> QED  BY <1>1, <1>2, <2>1 DEF IInv, PaidSeatsAreOccupied, HeldUnder
<1>7. HoldSpentOnce'
  BY <1>2 DEF IInv, HoldSpentOnce
<1>8. LiveHoldKeepsSeats'
  <2>1. ASSUME NEW g \in Requests, hold'[g].status = "ACTIVE", hold'[g].expiresAt > clock',
               NEW s \in hold'[g].seats
        PROVE  s \in HeldUnder(g)' /\ seat'[s].expiresAt = hold'[g].expiresAt
    <3>1. g # h /\ s \in HeldUnder(g) /\ seat[s].expiresAt = hold[g].expiresAt
      BY <1>2, <2>1 DEF IInv, LiveHoldKeepsSeats
    <3> QED  BY <1>1, <1>2, <1>3, <3>1 DEF HeldUnder
  <2> QED  BY <2>1 DEF LiveHoldKeepsSeats
<1> QED  BY <1>4, <1>5, <1>6, <1>7, <1>8 DEF IInv

\* A statement that neither makes nor touches a HELD row leaves every hold what
\* it was.
LEMMA HoldsUntouched ==
  ASSUME IInv, UNCHANGED <<clock, hold>>,
         \A s \in Seats : "HELD" \in {seat[s].state, seat'[s].state} => seat'[s] = seat[s]
  PROVE  /\ \A h \in Requests : HeldUnder(h)' = HeldUnder(h)
         /\ HeldRowsHaveTheirHold'
         /\ LiveHoldKeepsSeats'
<1>1. \A h \in Requests : HeldUnder(h)' = HeldUnder(h)
  BY DEF HeldUnder
<1>2. HeldRowsHaveTheirHold'
  BY DEF IInv, HeldRowsHaveTheirHold
<1>3. LiveHoldKeepsSeats'
  BY <1>1 DEF IInv, LiveHoldKeepsSeats, HeldUnder
<1> QED  BY <1>1, <1>2, <1>3

\* ... and every open transaction sound, if it ends one and inserts that one's
\* booking.
LEMMA SoundUntouched ==
  ASSUME IInv, UNCHANGED <<clock, hold>>, NEW r \in Requests, Finish(r),
         \A h \in Requests : HeldUnder(h)' = HeldUnder(h),
         \A q \in Requests \ {r} : booking[q] = NoBooking => booking'[q] = NoBooking
  PROVE  ReadsStaySound'
<1>1. \A q \in Requests : tx'[q] = IF q = r THEN DoneTx ELSE tx[q]
  BY DEF Finish, IInv, TypeOK
<1>2. ASSUME NEW q \in Requests PROVE Sound(q)'
  <2>1. Sound(q)
    BY DEF IInv, ReadsStaySound, Sound
  <2>2. tx[q].pc = "checkedOut" => tx[q].hold \in Requests
    BY TxShape DEF IInv, CheckedOut
  <2> QED  BY <1>1, <2>1, <2>2 DEF Sound, InFlight, DoneTx
<1> QED  BY <1>2 DEF ReadsStaySound, Sound

\* A new sale: seats that were not BOOKED become BOOKED under a booking that did
\* not exist, which names exactly those seats.
LEMMA PaidBySale ==
  ASSUME IInv, NEW r \in Requests, NEW sold \in SUBSET Seats,
         booking[r] = NoBooking,
         booking'[r].payment = "CAPTURED" /\ booking'[r].seats = sold,
         \A b \in Requests \ {r} : booking'[b] = booking[b],
         \A s \in Seats \ sold : seat'[s] = seat[s],
         \A s \in sold : /\ seat[s].state # "BOOKED"
                         /\ seat'[s].state = "BOOKED" /\ seat'[s].booking = r
  PROVE  PaidSeatsAreOccupied'
<1>1. BookedUnder(r) = {}
  BY DEF IInv, PaidSeatsAreOccupied, NoBooking
<1>2. \A b \in Requests : BookedUnder(b)' = IF b = r THEN sold ELSE BookedUnder(b)
  BY <1>1 DEF BookedUnder
<1>3. \A s \in Seats : seat'[s].state = "BOOKED" => seat'[s].booking \in Requests
  BY DEF IInv, PaidSeatsAreOccupied
<1> QED  BY <1>2, <1>3 DEF IInv, PaidSeatsAreOccupied

\* What a confirmation that passes the count books: all it read, which is all
\* that is left of the hold, and the hold was ACTIVE until then.
LEMMA WhatIsConfirmed ==
  ASSUME IInv, NEW r \in Requests, ConfirmBooking(r)
  PROVE  LET h == tx[r].hold
         IN  /\ h \in Requests \ {r}
             /\ tx[r].seats \in SUBSET Seats
             /\ booking[r] = NoBooking /\ hold[r] = NoHold
             /\ Confirmable(h, tx[r].now) = tx[r].seats
             /\ HeldUnder(h) = tx[r].seats
             /\ hold[h].status = "ACTIVE"
<1> DEFINE h == tx[r].hold
           C == Confirmable(h, tx[r].now)
<1>1. tx[r] \in CheckedOut /\ h \in Requests /\ tx[r].seats \in SUBSET Seats
  BY TxShape DEF IInv, ConfirmBooking, CheckedOut
<1>2. Sound(r) /\ tx[r] # DoneTx
  BY <1>1 DEF IInv, ReadsStaySound, Sound, CheckedOut, DoneTx
<1>3. /\ booking[r] = NoBooking /\ hold[r] = NoHold /\ hold[h].status # "NONE"
      /\ tx[r].seats # {} /\ HeldUnder(h) \subseteq tx[r].seats
  BY <1>2 DEF Sound, ConfirmBooking
<1>4. C \subseteq HeldUnder(h) /\ Complete(C, tx[r].seats)
  BY DEF Confirmable, ConfirmBooking
<1>5. C = tx[r].seats
  BY <1>1, <1>3, <1>4, NoShortfall
<1>6. hold[h].status = "ACTIVE"
  BY <1>3, <1>4, <1>5 DEF IInv, HeldRowsHaveTheirHold, HeldUnder
<1> QED  BY <1>1, <1>3, <1>4, <1>5, <1>6 DEF NoHold

LEMMA IInvConfirmBooking ==
  ASSUME IInv, TypeOK', NEW r \in Requests, ConfirmBooking(r)
  PROVE  IInv'
<1> DEFINE h == tx[r].hold
           S == tx[r].seats
<1>1. /\ h \in Requests \ {r} /\ S \in SUBSET Seats
      /\ booking[r] = NoBooking /\ hold[r] = NoHold
      /\ Confirmable(h, tx[r].now) = S /\ HeldUnder(h) = S
      /\ hold[h].status = "ACTIVE"
  BY WhatIsConfirmed
<1>2. \A s \in Seats : seat'[s] = IF s \in S THEN BookedRow(seat[s], r) ELSE seat[s]
  BY <1>1 DEF ConfirmBooking
<1>3. /\ \A s \in Seats \ S : seat'[s] = seat[s]
      /\ \A s \in S : /\ seat[s].state = "HELD"
                      /\ seat'[s].state = "BOOKED" /\ seat'[s].booking = r
  <2>1. \A s \in Seats : seat[s] \in SeatRows
    BY DEF IInv, TypeOK
  <2> QED  BY <1>1, <1>2, <2>1, Columns, 0 \in Nat DEF HeldUnder
<1>4. /\ hold'[h].status = "CONVERTED"
      /\ \A g \in Requests \ {h} : hold'[g] = hold[g]
      /\ \A b \in Requests : booking'[b] = IF b = r THEN NewBooking(S, h, NULL)
                                           ELSE booking[b]
      /\ \A q \in Requests : tx'[q] = IF q = r THEN DoneTx ELSE tx[q]
      /\ clock' = clock
  BY <1>1 DEF ConfirmBooking, EndHold, Finish, IInv, TypeOK, HoldRows
<1>5. \A g \in Requests : HeldUnder(g)' = IF g = h THEN {} ELSE HeldUnder(g)
  BY <1>1, <1>3 DEF HeldUnder
<1>6. ReadsStaySound'
  <2>1. ASSUME NEW q \in Requests PROVE Sound(q)'
    <3>1. /\ Sound(q) /\ (tx[q] # DoneTx => q # h)
      BY <1>1 DEF IInv, ReadsStaySound, Sound, NoHold
    <3>2. tx[q].pc \in {"confirm", "checkedOut"} => tx[q].hold \in Requests
      BY TxShape DEF IInv, ConfirmTx, CheckedOut
    <3> QED  BY <1>4, <1>5, <3>1, <3>2 DEF Sound, InFlight, DoneTx
  <2> QED  BY <2>1 DEF ReadsStaySound, Sound
<1>7. HeldRowsHaveTheirHold'
  <2>1. ASSUME NEW s \in Seats, seat'[s].state = "HELD"
        PROVE  seat'[s] = seat[s] /\ seat[s].hold # h
    BY <1>1, <1>3, <2>1 DEF HeldUnder
  <2> QED  BY <1>4, <2>1 DEF IInv, HeldRowsHaveTheirHold
<1>8. PaidSeatsAreOccupied'
  <2>1. /\ booking'[r].payment = "CAPTURED" /\ booking'[r].seats = S
        /\ \A b \in Requests \ {r} : booking'[b] = booking[b]
    BY <1>4 DEF NewBooking
  <2>2. \A s \in S : seat[s].state # "BOOKED"
    BY <1>3
  <2> HIDE DEF S, h
  <2> QED  BY <1>1, <1>3, <2>1, <2>2, PaidBySale
<1>9. HoldSpentOnce'
  <2>1. \A b \in Requests : booking[b].hold # h
    BY <1>1 DEF IInv, HoldSpentOnce
  <2>2. booking'[r].hold = h /\ \A b \in Requests \ {r} : booking'[b] = booking[b]
    BY <1>4 DEF NewBooking
  <2>3. \A g \in Requests : booking[r].hold # g
    BY <1>1, StoreAssumption DEF NoBooking, StoreAssumption
  <2> QED  BY <1>1, <1>4, <2>1, <2>2, <2>3 DEF IInv, HoldSpentOnce
<1>10. LiveHoldKeepsSeats'
  <2>1. ASSUME NEW g \in Requests, hold'[g].status = "ACTIVE", hold'[g].expiresAt > clock',
               NEW s \in hold'[g].seats
        PROVE  s \in HeldUnder(g)' /\ seat'[s].expiresAt = hold'[g].expiresAt
    <3>1. /\ g # h /\ s \in HeldUnder(g) /\ hold'[g] = hold[g]
          /\ seat[s].expiresAt = hold[g].expiresAt
      BY <1>4, <2>1 DEF IInv, LiveHoldKeepsSeats
    <3>2. s \in Seats \ S
      BY <1>1, <3>1 DEF HeldUnder
    <3> QED  BY <1>3, <1>5, <3>1, <3>2
  <2> QED  BY <2>1 DEF LiveHoldKeepsSeats
<1> QED  BY <1>6, <1>7, <1>8, <1>9, <1>10 DEF IInv

LEMMA IInvAcceptOffer ==
  ASSUME IInv, TypeOK', NEW r \in Requests, AcceptOffer(r)
  PROVE  IInv'
<1> DEFINE by == tx[r].by
           c  == tx[r].category
           S  == offer[by][c].seats
<1>1. /\ tx[r] \in AcceptTx /\ by \in Requests /\ c \in Categories
      /\ S \in SUBSET Seats
  <2>1. tx[r] \in AcceptTx
    BY TxShape DEF IInv, AcceptOffer
  <2>2. by \in Requests /\ c \in Categories
    BY <2>1 DEF AcceptTx
  <2>3. offer[by][c] \in OfferRows
    BY <2>2 DEF IInv, TypeOK
  <2> QED  BY <2>1, <2>2, <2>3 DEF OfferRows
<1>2. booking[r] = NoBooking
  BY <1>1 DEF IInv, ReadsStaySound, AcceptTx, DoneTx
<1>3. StillReserved(S, tx[r].now) = S
  <2>1. Complete(StillReserved(S, tx[r].now), S)
    BY DEF AcceptOffer
  <2>2. StillReserved(S, tx[r].now) \in SUBSET S
    BY DEF StillReserved
  <2> HIDE DEF S
  <2> QED  BY <1>1, <2>1, <2>2, NoShortfall
<1>4. /\ \A s \in Seats \ S : seat'[s] = seat[s]
      /\ \A s \in S : /\ seat[s].state = "OFFER_RESERVED"
                      /\ seat'[s].state = "BOOKED" /\ seat'[s].booking = r
  <2>1. \A s \in Seats : seat[s] \in SeatRows
    BY DEF IInv, TypeOK
  <2>2. \A s \in Seats : seat'[s] = IF s \in S THEN OfferBookedRow(seat[s], r) ELSE seat[s]
    BY <1>3 DEF AcceptOffer
  <2>3. \A s \in S : seat[s].state = "OFFER_RESERVED"
    BY <1>3 DEF StillReserved
  <2> QED  BY <1>1, <2>1, <2>2, <2>3, Columns, 0 \in Nat
<1>5. /\ \A b \in Requests : booking'[b] = IF b = r THEN NewBooking(S, NULL, <<by, c>>)
                                           ELSE booking[b]
      /\ UNCHANGED <<clock, hold>> /\ Finish(r)
  BY DEF AcceptOffer, IInv, TypeOK
<1>6. /\ \A h \in Requests : HeldUnder(h)' = HeldUnder(h)
      /\ HeldRowsHaveTheirHold' /\ LiveHoldKeepsSeats'
  BY <1>1, <1>4, <1>5, HoldsUntouched
<1>7. ReadsStaySound'
  BY <1>5, <1>6, SoundUntouched
<1>8. PaidSeatsAreOccupied'
  <2>1. /\ booking'[r].payment = "CAPTURED" /\ booking'[r].seats = S
        /\ \A b \in Requests \ {r} : booking'[b] = booking[b]
    BY <1>5 DEF NewBooking
  <2>2. \A s \in S : seat[s].state # "BOOKED"
    BY <1>4
  <2> HIDE DEF S, by, c
  <2> QED  BY <1>1, <1>2, <1>4, <2>1, <2>2, PaidBySale
<1>9. HoldSpentOnce'
  <2>1. \A b \in Requests : booking'[b].hold = booking[b].hold
    BY <1>2, <1>5 DEF NewBooking, NoBooking
  <2> QED  BY <1>5, <2>1 DEF IInv, HoldSpentOnce
<1> QED  BY <1>6, <1>7, <1>8, <1>9 DEF IInv

LEMMA IInvCancelBooking ==
  ASSUME IInv, TypeOK', NEW r \in Requests, CancelBooking(r)
  PROVE  IInv'
<1> DEFINE b == tx[r].booking
<1>1. tx[r] \in CancelTx /\ b \in Requests /\ tx[r].now \in Nat
  BY TxShape DEF IInv, CancelBooking, Cancelling, CancelTx
<1>2. \A s \in Seats : IF s \in BookedUnder(b)
                       THEN seat'[s].state \in {"AVAILABLE", "OFFER_RESERVED"}
                       ELSE seat'[s] = seat[s]
  <2>1. \A s \in Seats : seat[s] \in SeatRows
    BY DEF IInv, TypeOK
  <2>2. \A s \in Seats : seat'[s] = IF s \notin BookedUnder(b) THEN seat[s]
                                     ELSE IF tx[r].heir[CategoryOf[s]] = NULL
                                     THEN ReturnedRow(seat[s])
                                     ELSE OfferReservedRow(seat[s], tx[r].now)
    BY DEF CancelBooking
  <2> HIDE DEF b
  <2>3. ASSUME NEW s \in Seats
        PROVE  /\ ReturnedRow(seat[s]).state = "AVAILABLE"
               /\ OfferReservedRow(seat[s], tx[r].now).state = "OFFER_RESERVED"
    BY <2>1, Columns
  <2> QED  BY <2>2, <2>3
<1>3. /\ \A a \in Requests : booking'[a] = IF a = b THEN Cancelled(booking[b]) ELSE booking[a]
      /\ UNCHANGED <<clock, hold>> /\ Finish(r)
  BY DEF CancelBooking, IInv, TypeOK
<1>4. /\ Cancelled(NoBooking) = NoBooking
      /\ Cancelled(booking[b]).hold = booking[b].hold
      /\ Cancelled(booking[b]).seats = booking[b].seats
      /\ Cancelled(booking[b]).payment # "CAPTURED"
  <2>1. ASSUME NEW row \in BookingRows
        PROVE  /\ Cancelled(row).hold = row.hold
               /\ Cancelled(row).seats = row.seats
               /\ Cancelled(row).payment # "CAPTURED"
    BY DEF Cancelled, BookingRows
  <2>2. booking[b] \in BookingRows
    BY <1>1 DEF IInv, TypeOK
  <2>3. Cancelled(NoBooking) = NoBooking
    BY DEF Cancelled, NoBooking
  <2> QED  BY <2>1, <2>2, <2>3
<1>5. /\ \A h \in Requests : HeldUnder(h)' = HeldUnder(h)
      /\ HeldRowsHaveTheirHold' /\ LiveHoldKeepsSeats'
  BY <1>2, <1>3, HoldsUntouched DEF BookedUnder
<1>6. ReadsStaySound'
  BY <1>3, <1>4, <1>5, SoundUntouched
<1>7. PaidSeatsAreOccupied'
  <2>1. \A a \in Requests : BookedUnder(a)' = IF a = b THEN {} ELSE BookedUnder(a)
    BY <1>2 DEF BookedUnder
  <2> QED  BY <1>2, <1>3, <1>4, <2>1 DEF IInv, PaidSeatsAreOccupied
<1>8. HoldSpentOnce'
  BY <1>3, <1>4 DEF IInv, HoldSpentOnce
<1> QED  BY <1>5, <1>6, <1>7, <1>8 DEF IInv

\* A transaction that begins.
LEMMA IInvArrive ==
  ASSUME IInv, TypeOK', NEW r \in Requests, Arrive(r)
  PROVE  IInv'
<1>1. ReadsStaySound'
  <2>1. ASSUME BeginHold(r) PROVE ReadsStaySound'
    <3> DEFINE t(seats) == [pc |-> "hold", now |-> clock, seats |-> seats]
    <3>1. PICK seats \in SUBSET Seats : Begin(r, t(seats))
      BY <2>1 DEF BeginHold
    <3>2. t(seats) \in TxStates
      BY DEF IInv, TypeOK, TxStates, HoldTx
    <3> QED  BY <3>1, <3>2, SoundBegin
  <2>2. ASSUME BeginConfirm(r) PROVE ReadsStaySound'
    <3> DEFINE t(h) == [pc |-> "confirm", now |-> clock, hold |-> h]
    <3>1. PICK h \in Requests : hold[h].status # "NONE" /\ Begin(r, t(h))
      BY <2>2 DEF BeginConfirm
    <3>2. t(h) \in TxStates
      BY DEF IInv, TypeOK, TxStates, ConfirmTx
    <3> QED  BY <3>1, <3>2, SoundBegin
  <2>3. ASSUME BeginCancel(r) PROVE ReadsStaySound'
    <3> DEFINE t(b) == [pc |-> "cancel", now |-> clock, booking |-> b,
                        decided |-> {}, heir |-> [c \in Categories |-> NULL]]
    <3>1. PICK b \in Requests : Begin(r, t(b))
      BY <2>3 DEF BeginCancel
    <3>2. t(b) \in TxStates
      BY DEF IInv, TypeOK, TxStates, CancelTx
    <3> QED  BY <3>1, <3>2, SoundBegin
  <2>4. ASSUME BeginAccept(r) PROVE ReadsStaySound'
    <3> DEFINE t(by, c) == [pc |-> "accept", now |-> clock, by |-> by, category |-> c]
    <3>1. PICK by \in Requests, c \in Categories : Begin(r, t(by, c))
      BY <2>4 DEF BeginAccept
    <3>2. t(by, c) \in TxStates
      BY DEF IInv, TypeOK, TxStates, AcceptTx
    <3> QED  BY <3>1, <3>2, SoundBegin
  <2> QED  BY <2>1, <2>2, <2>3, <2>4 DEF Arrive
<1>2. UNCHANGED <<clock, seat, hold, booking>>
  BY DEF Arrive, BeginHold, BeginConfirm, BeginCancel, BeginAccept, Begin, tables
<1>3. clock' >= clock
  BY <1>2 DEF IInv, TypeOK
<1> QED  BY <1>1, <1>2, <1>3, TablesUntouched DEF IInv

\* A transaction that ends without having written anything.
LEMMA IInvEnd ==
  ASSUME IInv, TypeOK', NEW r \in Requests, Finish(r), UNCHANGED <<clock, tables, joining>>
  PROVE  IInv'
<1>1. UNCHANGED <<clock, seat, hold, booking>> /\ clock' >= clock
  BY DEF IInv, TypeOK, tables
<1> QED  BY <1>1, SoundEnd, TablesUntouched DEF IInv

LEMMA IInvReadHoldSeats ==
  ASSUME IInv, TypeOK', NEW r \in Requests, ReadHoldSeats(r)
  PROVE  IInv'
<1>1. /\ UNCHANGED <<clock, tables>> /\ clock' >= clock
      /\ \A h \in Requests : HeldUnder(h)' = HeldUnder(h)
  BY DEF ReadHoldSeats, tables, HeldUnder, IInv, TypeOK
<1>2. tx[r] \in ConfirmTx /\ tx[r].hold \in Requests
  BY TxShape DEF IInv, ReadHoldSeats, ConfirmTx
<1>3. \A q \in Requests \ {r} : tx'[q] = tx[q]
  BY DEF ReadHoldSeats, IInv, TypeOK
<1>4. \/ tx'[r] = DoneTx
      \/ /\ HeldUnder(tx[r].hold) # {}
         /\ tx'[r] = [pc |-> "checkedOut", now |-> tx[r].now, hold |-> tx[r].hold,
                      seats |-> HeldUnder(tx[r].hold)]
  BY DEF ReadHoldSeats, IInv, TypeOK
<1>5. ASSUME NEW q \in Requests PROVE Sound(q)'
  <2>1. Sound(q)
    BY DEF IInv, ReadsStaySound, Sound
  <2>2. tx[q].pc = "checkedOut" => tx[q].hold \in Requests
    BY TxShape DEF IInv, CheckedOut
  <2>3. CASE q # r
    BY <1>1, <1>3, <2>1, <2>2, <2>3 DEF Sound, InFlight, tables
  <2>4. CASE q = r /\ tx'[r] = DoneTx
    BY <2>4 DEF Sound, InFlight, DoneTx
  <2>5. CASE q = r /\ tx'[r] # DoneTx
    <3>1. tx[r] # DoneTx /\ tx[r] # NewTx
      BY <1>2 DEF ConfirmTx, DoneTx, NewTx
    <3>2. /\ booking[r] = NoBooking /\ hold[r] = NoHold /\ tx[r].now <= clock
          /\ hold[tx[r].hold].status # "NONE"
      BY <2>1, <2>5, <3>1 DEF Sound, InFlight, ReadHoldSeats
    <3>3. /\ tx'[r].now = tx[r].now /\ tx'[r].hold = tx[r].hold
          /\ tx'[r].seats = HeldUnder(tx[r].hold) /\ tx'[r].seats # {}
      BY <1>4, <2>5
    <3> QED  BY <1>1, <1>2, <2>5, <3>2, <3>3 DEF Sound, InFlight, tables
  <2> QED  BY <2>3, <2>4, <2>5
<1>6. ReadsStaySound'
  BY <1>5 DEF ReadsStaySound, Sound
<1> QED  BY <1>1, <1>6, TablesUntouched DEF IInv, tables

\* A cancellation that goes on: it keeps its record's now(), and no table changes.
LEMMA IInvGoOn ==
  ASSUME IInv, TypeOK', NEW r \in Requests, UNCHANGED <<clock, tables>>,
         tx[r] \in CancelTx,
         \A q \in Requests \ {r} : tx'[q] = tx[q],
         tx'[r].pc = "cancelling" /\ tx'[r].now = tx[r].now
  PROVE  IInv'
<1>1. /\ clock' >= clock
      /\ \A h \in Requests : HeldUnder(h)' = HeldUnder(h)
  BY DEF tables, HeldUnder, IInv, TypeOK
<1>2. ASSUME NEW q \in Requests PROVE Sound(q)'
  <2>1. Sound(q)
    BY DEF IInv, ReadsStaySound, Sound
  <2>2. tx[q].pc = "checkedOut" => tx[q].hold \in Requests
    BY TxShape DEF IInv, CheckedOut
  <2>3. CASE q # r
    BY <1>1, <2>1, <2>2, <2>3 DEF Sound, InFlight, tables
  <2>4. CASE q = r
    <3>1. tx[r] # DoneTx /\ tx[r] # NewTx
      BY DEF CancelTx, DoneTx, NewTx
    <3> QED  BY <1>1, <2>1, <2>4, <3>1 DEF Sound, InFlight, tables
  <2> QED  BY <2>3, <2>4
<1>3. ReadsStaySound'
  BY <1>2 DEF ReadsStaySound, Sound
<1> QED  BY <1>1, <1>3, TablesUntouched DEF IInv, tables

LEMMA IInvLockBooking ==
  ASSUME IInv, TypeOK', NEW r \in Requests, LockBooking(r)
  PROVE  IInv'
<1>1. tx[r] \in CancelTx
  BY TxShape DEF IInv, LockBooking
<1>2. /\ \A q \in Requests \ {r} : tx'[q] = tx[q]
      /\ tx'[r].pc = "cancelling" /\ tx'[r].now = tx[r].now
      /\ UNCHANGED <<clock, tables>>
  BY <1>1 DEF LockBooking, CancelTx, IInv, TypeOK
<1> QED  BY <1>1, <1>2, IInvGoOn

LEMMA IInvClaimHeir ==
  ASSUME IInv, TypeOK', NEW r \in Requests, NEW c \in Categories, ClaimHeir(r, c)
  PROVE  IInv'
<1>1. tx[r] \in CancelTx /\ tx[r].pc = "cancelling"
  BY TxShape DEF IInv, ClaimHeir, Cancelling
<1>2. PICK u : tx' = [tx EXCEPT ![r].decided = @ \cup {c}, ![r].heir[c] = u]
  BY DEF ClaimHeir
<1>3. /\ \A q \in Requests \ {r} : tx'[q] = tx[q]
      /\ tx'[r].pc = "cancelling" /\ tx'[r].now = tx[r].now
      /\ UNCHANGED <<clock, tables>>
  BY <1>1, <1>2 DEF ClaimHeir, CancelTx, IInv, TypeOK
<1> QED  BY <1>1, <1>3, IInvGoOn

\* Steps that leave the transactions and the three tables alone.
LEMMA IInvBystander ==
  ASSUME IInv, TypeOK', UNCHANGED <<tx, seat, hold, booking>>, clock' >= clock
  PROVE  IInv'
<1>1. ASSUME NEW q \in Requests PROVE Sound(q)'
  <2>1. Sound(q) /\ clock \in Nat /\ clock' \in Nat
    BY DEF IInv, ReadsStaySound, Sound, TypeOK
  <2>2. InFlight(q) => tx[q].now \in Nat
    BY TxShape DEF IInv, TxStates, InFlight, HoldTx, ConfirmTx, CheckedOut, CancelTx,
                   AcceptTx
  <2> QED  BY <2>1, <2>2 DEF Sound, InFlight, HeldUnder
<1>2. ReadsStaySound'
  BY <1>1 DEF ReadsStaySound, Sound
<1> QED  BY <1>2, TablesUntouched DEF IInv

LEMMA IInvProgress ==
  ASSUME IInv, TypeOK', NEW r \in Requests, Progress(r)
  PROVE  IInv'
<1>1. CASE CreateHold(r)  BY <1>1, IInvCreateHold
<1>2. CASE RefuseHold(r)  BY <1>2, IInvEnd DEF RefuseHold
<1>3. CASE ReadHoldSeats(r)  BY <1>3, IInvReadHoldSeats
<1>4. CASE ConfirmBooking(r)  BY <1>4, IInvConfirmBooking
<1>5. CASE RefuseConfirm(r)  BY <1>5, IInvEnd DEF RefuseConfirm
<1>6. CASE \E c \in Categories : ClaimHeir(r, c)  BY <1>6, IInvClaimHeir
<1>7. CASE CancelBooking(r)  BY <1>7, IInvCancelBooking
<1>8. CASE AcceptOffer(r)  BY <1>8, IInvAcceptOffer
<1>9. CASE RefuseAccept(r)  BY <1>9, IInvEnd DEF RefuseAccept
<1>10. CASE Rollback(r)  BY <1>10, IInvEnd DEF Rollback
<1>11. CASE LockBooking(r)  BY <1>11, IInvLockBooking
<1> QED  BY <1>1, <1>2, <1>3, <1>4, <1>5, <1>6, <1>7, <1>8, <1>9, <1>10, <1>11
         DEF Progress

LEMMA IInvNext ==
  ASSUME IInv, [Next]_vars
  PROVE  IInv'
<1>1. TypeOK' /\ clock \in Nat
  BY TypeNext DEF IInv, TypeOK
<1>2. CASE \E r \in Requests : Arrive(r)
  BY <1>1, <1>2, IInvArrive
<1>3. CASE \E r \in Requests : Progress(r)
  BY <1>1, <1>3, IInvProgress
<1>4. CASE \E h \in Requests : ReleaseHold(h)
  BY <1>1, <1>4, IInvReleaseHold
<1>5. CASE \E c \in Categories, u \in Users : Join(c, u)
  <2>1. UNCHANGED <<tx, seat, hold, booking>> /\ clock' >= clock
    BY <1>1, <1>5 DEF Join, CheckJoin, InsertEntry, RefuseEntry, ReadPosition, tables
  <2> QED  BY <1>1, <2>1, IInvBystander
<1>6. CASE Tick
  <2>1. UNCHANGED <<tx, seat, hold, booking>> /\ clock' >= clock
    BY <1>1, <1>6 DEF Tick, tables
  <2> QED  BY <1>1, <2>1, IInvBystander
<1>7. CASE UNCHANGED vars
  <2>1. UNCHANGED <<tx, seat, hold, booking>> /\ clock' >= clock
    BY <1>1, <1>7 DEF vars
  <2> QED  BY <1>1, <2>1, IInvBystander
<1> QED  BY <1>2, <1>3, <1>4, <1>5, <1>6, <1>7 DEF Next

-----------------------------------------------------------------------------
LEMMA IInvCorrect == Spec => []IInv
<1> QED  BY IInvInit, IInvNext, PTL DEF Spec

\* What is paid for is what is occupied, at every moment of every run: no seat
\* is sold to two bookings, none is BOOKED without its payment, and no refund
\* leaves a seat behind (confirmBooking, acceptOffer, cancelBooking).
THEOREM PaidIsOccupied == Spec => []PaidSeatsAreOccupied
<1>1. IInv => PaidSeatsAreOccupied  BY DEF IInv
<1> QED  BY IInvCorrect, <1>1, PTL

\* A hold becomes at most one booking, however its confirmations race with each
\* other and with its release (confirmHeldSeats, markSeatHoldReleased).
THEOREM SpentOnce == Spec => []HoldSpentOnce
<1>1. IInv => HoldSpentOnce  BY DEF IInv
<1> QED  BY IInvCorrect, <1>1, PTL

\* Until its deadline a hold keeps every seat it was granted, whoever else asks
\* for them and however old their transactions' now() is (acquireSeats).
THEOREM LiveHoldsAreKept == Spec => []LiveHoldKeepsSeats
<1>1. IInv => LiveHoldKeepsSeats  BY DEF IInv
<1> QED  BY IInvCorrect, <1>1, PTL

\* No HELD row outlives its hold (releaseHoldSeats, acquireSeats).
THEOREM HeldRowsAreOwned == Spec => []HeldRowsHaveTheirHold
<1>1. IInv => HeldRowsHaveTheirHold  BY DEF IInv
<1> QED  BY IInvCorrect, <1>1, PTL

\* What findHoldSeats() read stays an upper bound of the hold's seats until the
\* confirmation ends.
THEOREM ReadsAreSound == Spec => []ReadsStaySound
<1>1. IInv => ReadsStaySound  BY DEF IInv
<1> QED  BY IInvCorrect, <1>1, PTL
=============================================================================
