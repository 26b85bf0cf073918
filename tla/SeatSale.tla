------------------------------ MODULE SeatSale ------------------------------
(***************************************************************************)
(* What the booking system promises, with holds, offers, clocks and        *)
(* transactions left out: a sale takes seats nobody owns, all of them at   *)
(* once and against payment; a refund gives back everything that sale      *)
(* took; nobody ever owns another's seat and no sale happens twice.        *)
(***************************************************************************)
CONSTANTS Seats, Sales, Nobody

VARIABLES
  owner,     \* the sale each seat belongs to
  money,     \* what became of the payment of each sale
  receipt    \* the seats each sale was made for

saleVars == <<owner, money, receipt>>

Init ==
  /\ owner = [s \in Seats |-> Nobody]
  /\ money = [b \in Sales |-> "none"]
  /\ receipt = [b \in Sales |-> {}]

Sell(b, bought) ==
  /\ money[b] = "none"
  /\ bought # {}
  /\ \A s \in bought : owner[s] = Nobody
  /\ owner' = [s \in Seats |-> IF s \in bought THEN b ELSE owner[s]]
  /\ money' = [money EXCEPT ![b] = "captured"]
  /\ receipt' = [receipt EXCEPT ![b] = bought]

Refund(b) ==
  /\ money[b] = "captured"
  /\ owner' = [s \in Seats |-> IF owner[s] = b THEN Nobody ELSE owner[s]]
  /\ money' = [money EXCEPT ![b] = "refunded"]
  /\ UNCHANGED receipt

Next ==
  \E b \in Sales : \/ \E bought \in SUBSET Seats : Sell(b, bought)
                   \/ Refund(b)

Spec == Init /\ [][Next]_saleVars
=============================================================================
