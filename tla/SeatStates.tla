----------------------------- MODULE SeatStates -----------------------------
(***************************************************************************)
(* The vocabulary of a show_seats row: the five stored states, the legal   *)
(* transition graph of shared/seatStates.js, the guard assertTransition(), *)
(* and the lazy-expiry reading of a row (EFFECTIVE_STATE_CASE).  Pure      *)
(* definitions: no variables.                                              *)
(***************************************************************************)
EXTENDS Naturals

SEAT_STATES == {"AVAILABLE", "HELD", "OFFER_RESERVED", "BOOKED", "BLOCKED"}

SEAT_TRANSITIONS ==
  [AVAILABLE      |-> {"HELD", "BLOCKED"},
   HELD           |-> {"BOOKED", "AVAILABLE"},
   BOOKED         |-> {"AVAILABLE", "OFFER_RESERVED"},
   OFFER_RESERVED |-> {"BOOKED", "OFFER_RESERVED", "AVAILABLE"},
   BLOCKED        |-> {"AVAILABLE"}]

\* assertTransition() throws exactly when this is false.
LegalTransition(from, to) ==
  /\ from \in DOMAIN SEAT_TRANSITIONS
  /\ to \in SEAT_TRANSITIONS[from]

\* A reading by one offer's own deadline.
EffectiveMidCascade(row, now) ==
  IF row.state \in {"HELD", "OFFER_RESERVED"} /\ row.expiresAt <= now
  THEN "AVAILABLE" ELSE row.state

\* The state every reader is shown.  A lapsed row reads as AVAILABLE although
\* nothing has rewritten it; OFFER_RESERVED lapses with the whole cascade
\* window (reserved_until), never with one attempt's expires_at.
EffectiveState(row, now) ==
  CASE row.state = "HELD" /\ row.expiresAt <= now -> "AVAILABLE"
    [] row.state = "OFFER_RESERVED" /\ row.reservedUntil <= now -> "AVAILABLE"
    [] OTHER -> row.state
=============================================================================
