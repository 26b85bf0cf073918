--------------------------- MODULE MCTicketSystem ---------------------------
(***************************************************************************)
(* Small instances of TicketSystem for TLC.                                *)
(***************************************************************************)
EXTENDS TicketSystem, TLC

CONSTANTS s1, s2, c1, c2, h1, h2, b1, b2

LoneSeat      == s1 :> c1
OneCategory   == (s1 :> c1) @@ (s2 :> c1)
TwoCategories == (s1 :> c1) @@ (s2 :> c2)

Past == {h1, h2, b1, b2}
Symmetry == Permutations(Requests \ Past) \cup Permutations(Users)

(***************************************************************************)
(* A start further into the life of the show, which Init reaches without   *)
(* letting time pass: holds h1 and h2 took the seats between them, b1 and  *)
(* b2 confirmed those holds, and some users joined the waitlist.           *)
(* Cancellations and offers are then one request away instead of three.    *)
(***************************************************************************)
SoldOut(sold1, sold2, queue) ==
  LET sold(one, two, other) == [r \in Requests |->
        IF r = one /\ sold1 # {} THEN sold1
        ELSE IF r = two /\ sold2 # {} THEN sold2 ELSE other]
      held == sold(h1, h2, {})
      paid == sold(b1, b2, {})
  IN  /\ clock = 0
      /\ seat = [s \in Seats |-> [FreeSeat EXCEPT !.state = "BOOKED",
                                  !.booking = IF s \in sold1 THEN b1 ELSE b2]]
      /\ hold = [r \in Requests |-> IF held[r] = {} THEN NoHold ELSE
           [status |-> "CONVERTED", seats |-> held[r], expiresAt |-> HoldTTL]]
      /\ booking = [r \in Requests |-> IF paid[r] = {} THEN NoBooking ELSE
           NewBooking(paid[r], IF r = b1 THEN h1 ELSE h2, NULL)]
      /\ entry = [c \in Categories |-> [u \in Users |->
           IF u \in queue THEN [status |-> "WAITING", enqueuedAt |-> 0] ELSE NoEntry]]
      /\ offer = [r \in Requests |-> [c \in Categories |-> NoOffer]]
      /\ tx = [r \in Requests |-> IF r \in Past THEN DoneTx ELSE NewTx]
      /\ joining = [c \in Categories |-> [u \in Users |-> "idle"]]

\* One booking for the whole house and everybody waiting.
OneBooking == SoldOut(Seats, {}, Users) /\ [][Next]_vars

\* A booking for each of two seats, and any queue.
TwoBookings ==
  (\E queue \in SUBSET Users : SoldOut({s1}, {s2}, queue)) /\ [][Next]_vars

\* One booking for the whole house, and any queue.
WholeHouse ==
  (\E queue \in SUBSET Users : SoldOut(Seats, {}, queue)) /\ [][Next]_vars
WholeHouseFair == WholeHouse /\ Fairness
=============================================================================
