------------------------------- MODULE MCApi --------------------------------
(***************************************************************************)
(* Small instances of Api for TLC, from the starts of MCTicketSystem.  The *)
(* requests of the past were answered and their mails settled.             *)
(***************************************************************************)
EXTENDS Api, MCTicketSystem

\* The show when the first customer holds the whole house.
HouseHeld ==
  /\ clock = 0
  /\ seat = [s \in Seats |-> HeldRow(FreeSeat, h1, HoldTTL)]
  /\ hold = [r \in Requests |-> IF r # h1 THEN NoHold ELSE
       [status |-> "ACTIVE", seats |-> Seats, expiresAt |-> HoldTTL]]
  /\ booking = [r \in Requests |-> NoBooking]
  /\ entry = [c \in Categories |-> [u \in Users |-> NoEntry]]
  /\ offer = [r \in Requests |-> [c \in Categories |-> NoOffer]]
  /\ tx = [r \in Requests |-> IF r \in Past THEN DoneTx ELSE NewTx]
  /\ joining = [c \in Categories |-> [u \in Users |-> "idle"]]

\* A held house, or one booking for the whole house and everybody waiting; the
\* waitlist is asked for a position before time passes.
HeldOrSold ==
  /\ HouseHeld \/ SoldOut(Seats, {}, Users)
  /\ ApiInit
  /\ [][ApiNext /\ (asking' # NULL => clock' = 0)]_apiVars

\* One booking for the whole house, and any queue.
AnyQueue ==
  /\ \E queue \in SUBSET Users : SoldOut(Seats, {}, queue)
  /\ ApiInit
  /\ [][ApiNext]_apiVars
=============================================================================
