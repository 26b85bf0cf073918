------------------------------ MODULE Waitlist ------------------------------
(***************************************************************************)
(* POST /waitlist (waitlist.service.js) and the claim of the queue's head  *)
(* by a cancellation (waitlist.queries.js#claimNextWaitingEntry).  A join  *)
(* is three autocommitted statements, each at its own moment: count the    *)
(* available seats, insert the entry, read the position back.              *)
(***************************************************************************)
EXTENDS SeatStore

\* countEffectiveAvailableSeats() = 0.
NoneAvailable(c) ==
  \A s \in Seats : CategoryOf[s] = c => EffectiveState(seat[s], clock) # "AVAILABLE"

CheckJoin(c, u) ==
  /\ joining[c][u] = "idle"
  /\ NoneAvailable(c)
  /\ joining' = [joining EXCEPT ![c][u] = "checked"]
  /\ UNCHANGED <<clock, tables, tx>>

\* insertWaitlistEntry(), which reads nothing about seats any more.
InsertEntry(c, u) ==
  /\ joining[c][u] = "checked"
  /\ entry[c][u].status = "NONE"
  /\ entry' = [entry EXCEPT ![c][u] = [status |-> "WAITING", enqueuedAt |-> clock]]
  /\ joining' = [joining EXCEPT ![c][u] = "inserted"]
  /\ UNCHANGED <<clock, seat, hold, booking, offer, tx>>

\* UNIQUE (show_id, category_id, user_id), whatever became of the first entry:
\* AlreadyWaitlistedError.
RefuseEntry(c, u) ==
  /\ joining[c][u] = "checked"
  /\ entry[c][u].status # "NONE"
  /\ joining' = [joining EXCEPT ![c][u] = "idle"]
  /\ UNCHANGED <<clock, tables, tx>>

\* findQueuePosition() and the reply.
ReadPosition(c, u) ==
  /\ joining[c][u] = "inserted"
  /\ joining' = [joining EXCEPT ![c][u] = "idle"]
  /\ UNCHANGED <<clock, tables, tx>>

-----------------------------------------------------------------------------
\* A cancellation that has the bookings row.
Cancelling(r) == tx[r].pc = "cancelling"

Waiting(c) == {u \in Users : entry[c][u].status = "WAITING"}

\* Entries under the row lock of a cancellation that has not ended.
Locked(c) == {tx[r].heir[c] : r \in {q \in Requests : Cancelling(q)}}

\* A plain SELECT, which sees entries another cancellation has claimed.
QueueHeadsUnlocked(c) ==
  {u \in Waiting(c) :
     \A v \in Waiting(c) : entry[c][u].enqueuedAt <= entry[c][v].enqueuedAt}

\* FOR UPDATE SKIP LOCKED ... ORDER BY enqueued_at LIMIT 1.  Equal times are
\* served in no particular order.
QueueHeads(c) ==
  LET free == Waiting(c) \ Locked(c)
  IN  {u \in free : \A v \in free : entry[c][u].enqueuedAt <= entry[c][v].enqueuedAt}

\* markEntryOffered() and markEntryConverted(): guarded by the status.
Marked(row, from, to) ==
  IF row.status = from THEN [row EXCEPT !.status = to] ELSE row
=============================================================================
