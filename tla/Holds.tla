------------------------------- MODULE Holds --------------------------------
(***************************************************************************)
(* POST /holds and DELETE /holds/:id (holds.service.js, holds.queries.js). *)
(***************************************************************************)
EXTENDS SeatStore

\* Plausible mistakes in that clause: the deadline of a hold forgotten, that of one
\* offer read for the cascade's, the reclaim of reserved seats forgotten.
AcquirableWhileHeld(row, now) ==
  \/ row.state \in {"AVAILABLE", "HELD"}
  \/ row.state = "OFFER_RESERVED" /\ row.reservedUntil <= now
AcquirableMidCascade(row, now) ==
  \/ row.state = "AVAILABLE"
  \/ row.state \in {"HELD", "OFFER_RESERVED"} /\ row.expiresAt <= now
AcquirableUnlessReserved(row, now) ==
  \/ row.state = "AVAILABLE"
  \/ row.state = "HELD" /\ row.expiresAt <= now

\* The WHERE clause of acquireSeats(): free, or lazily reclaimed.
Acquirable(row, now) ==
  \/ row.state = "AVAILABLE"
  \/ row.state = "HELD" /\ row.expiresAt <= now
  \/ row.state = "OFFER_RESERVED" /\ row.reservedUntil <= now

\* The seats the UPDATE returns; the rest of the request is out of luck.
Acquired(seats, now) == {s \in seats : Acquirable(seat[s], now)}

\* A reclaim that leaves the old hold_id in place.
HeldRowOfFirstHold(row, h, until) ==
  [row EXCEPT !.state = "HELD", !.hold = IF @ = NULL THEN h ELSE @,
              !.expiresAt = until, !.reservedUntil = NULL]

HeldRow(row, h, until) ==
  [row EXCEPT !.state = "HELD", !.hold = h, !.expiresAt = until,
              !.reservedUntil = NULL]

\* createHold() up to BEGIN: the cap is checked first, and now() is fixed here.
BeginHold(r) ==
  \E seats \in SUBSET Seats :
    /\ seats # {} /\ Cardinality(seats) <= MaxSeats
    /\ Begin(r, [pc |-> "hold", now |-> clock, seats |-> seats])

\* insertSeatHold() and acquireSeats(): every requested seat, then COMMIT.
CreateHold(r) ==
  /\ tx[r].pc = "hold"
  /\ LET now   == tx[r].now
         seats == tx[r].seats
     IN  /\ Complete(Acquired(seats, now), seats)
         /\ seat' = [s \in Seats |-> IF s \in Acquired(seats, now)
                                     THEN HeldRow(seat[s], r, now + HoldTTL)
                                     ELSE seat[s]]
         /\ hold' = [hold EXCEPT ![r] = [status |-> "ACTIVE", seats |-> seats,
                                         expiresAt |-> now + HoldTTL]]
  /\ Finish(r)
  /\ UNCHANGED <<clock, booking, entry, offer, joining>>

\* A short result: SeatsUnavailableError, and the ROLLBACK gives back the
\* seats the statement did get.
RefuseHold(r) ==
  /\ tx[r].pc = "hold"
  /\ ~ Complete(Acquired(tx[r].seats, tx[r].now), tx[r].seats)
  /\ Finish(r)
  /\ UNCHANGED <<clock, tables, joining>>

ReleasedRow(row) ==
  [row EXCEPT !.state = "AVAILABLE", !.hold = NULL, !.expiresAt = NULL]

\* findHoldSeats(), and the WHERE clause of releaseHoldSeats().
HeldUnder(h) == {s \in Seats : seat[s].hold = h /\ seat[s].state = "HELD"}

\* Plausible mistakes: a terminal row rewritten, the TTL's reason recorded.
EndHoldAgain(h, status) == hold' = [hold EXCEPT ![h].status = status]
EndHoldExpired(h, status) ==
  hold' = [hold EXCEPT ![h].status = IF @ = "ACTIVE" THEN "EXPIRED" ELSE @]

\* markSeatHoldReleased(): a terminal row is left alone.
EndHold(h, status) ==
  hold' = [hold EXCEPT ![h].status = IF @ = "ACTIVE" THEN status ELSE @]

\* releaseHold(): both updates in one transaction, on behalf of the owner of
\* the hold, who may ask any number of times, however stale the hold is.
ReleaseHold(h) ==
  /\ hold[h].status # "NONE"
  /\ seat' = [s \in Seats |-> IF s \in HeldUnder(h)
                              THEN ReleasedRow(seat[s]) ELSE seat[s]]
  /\ EndHold(h, "RELEASED")
  /\ UNCHANGED <<clock, booking, entry, offer, tx, joining>>
=============================================================================
