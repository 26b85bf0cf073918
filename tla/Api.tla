-------------------------------- MODULE Api ---------------------------------
(***************************************************************************)
(* The booking flow as its clients see it: what each request is answered   *)
(* (the controllers and errorHandler.js), the mails that leave once a      *)
(* transaction has committed (bookings.controller.js, mail/mailer.js), and *)
(* the reads that show rows to people (seat map, offer page, organiser's   *)
(* summary, waitlist status).  Every step is a step of TicketSystem with   *)
(* its answer, or a step of the mail that the tables do not notice.        *)
(***************************************************************************)
EXTENDS TicketSystem

\* What an answer or a mail is about tells whether it is a request or an offer.
ASSUME KindsAssumption == Requests \cap (Requests \X Categories) = {}

VARIABLES
  answer,   \* the response to each request
  late,     \* requests that arrived after their hold or offer was told gone
  outbox,   \* mails handed to fireAndForget() and not settled
  inbox,    \* offers whose mail arrived: who has it knows the raw token
  asking    \* GET /waitlist/me between its two queries

apiOnly == <<answer, late, outbox, inbox, asking>>
apiVars == <<vars, apiOnly>>

Offered == Requests \X Categories

\* The error codes a client is told to act on, and the ones that mean "gone".
Gone     == {"HOLD_EXPIRED", "OFFER_INVALID", "OFFER_EXPIRED"}
Refusals == Gone \cup {"SEATS_UNAVAILABLE"}
Answers ==
  [code : {"none", "created", "cancelled", "nothingToCancel", "INTERNAL_ERROR"}
            \cup Refusals,
   of : Requests \cup Offered \cup {NULL}]

NoAnswer == [code |-> "none", of |-> NULL]

ApiTypeOK ==
  /\ answer \in [Requests -> Answers]
  /\ late \subseteq Requests
  /\ outbox \subseteq Requests \cup Offered
  /\ inbox \subseteq Offered
  /\ asking \in (Categories \X Users) \cup {NULL}

ApiInit ==
  /\ answer = [r \in Requests |-> NoAnswer]
  /\ late = {} /\ outbox = {} /\ inbox = {} /\ asking = NULL

ToldGone == {answer[r].of : r \in {q \in Requests : answer[q].code \in Gone}}

\* A DomainError's own code, or the body of a success.
Tell(r, code, of) == answer' = [answer EXCEPT ![r] = [code |-> code, of |-> of]]

\* Anything that is not a DomainError is a 500, and says nothing about the tables:
\* the statement timeout, a lost connection, or a COMMIT whose answer was lost.
Fail(r) == Tell(r, "INTERNAL_ERROR", NULL)

Quietly == UNCHANGED apiOnly
NoMail  == UNCHANGED <<outbox, inbox>>

\* A request about a hold or an offer arrives; was that one told gone before?
About(r, of) ==
  /\ late' = IF of \in ToldGone THEN late \cup {r} ELSE late
  /\ UNCHANGED <<answer, outbox, inbox, asking>>

-----------------------------------------------------------------------------
(* POST /holds.                                                            *)

PostHold(r) == BeginHold(r) /\ Quietly

HoldCreated(r) ==
  /\ CreateHold(r)
  /\ Tell(r, "created", NULL) \/ Fail(r)
  /\ NoMail /\ UNCHANGED <<late, asking>>

HoldRefused(r) ==
  /\ RefuseHold(r)
  /\ Tell(r, "SEATS_UNAVAILABLE", NULL)
  /\ NoMail /\ UNCHANGED <<late, asking>>

\* DELETE /holds/:id; how many seats the answer says came back is not kept.
DeleteHold(h) == ReleaseHold(h) /\ Quietly

-----------------------------------------------------------------------------
(* POST /bookings/confirm.                                                 *)

PostConfirm(r) == BeginConfirm(r) /\ About(r, tx'[r].hold)

SeatsRead(r) ==
  /\ ReadHoldSeats(r)
  /\ IF tx'[r] = DoneTx THEN Tell(r, "HOLD_EXPIRED", tx[r].hold)
                        ELSE UNCHANGED answer
  /\ NoMail /\ UNCHANGED <<late, asking>>

\* fireAndForget(): handed over when the service call has resolved, not awaited.
FireAndForget(mails) == outbox' = outbox \cup mails

Booked(r) ==
  /\ ConfirmBooking(r)
  /\ \/ Tell(r, "created", NULL) /\ FireAndForget({r})
     \/ Fail(r) /\ UNCHANGED outbox
  /\ UNCHANGED <<late, inbox, asking>>

ConfirmRefused(r) ==
  /\ RefuseConfirm(r)
  /\ Tell(r, "HOLD_EXPIRED", tx[r].hold)
  /\ NoMail /\ UNCHANGED <<late, asking>>

-----------------------------------------------------------------------------
(* POST /bookings/:id/cancel.                                              *)

PostCancel(r) == BeginCancel(r) /\ Quietly
BookingLocked(r) == LockBooking(r) /\ Quietly

\* Plausible mistakes: the mail sent where the offer is decided, before COMMIT;
\* every answer the same.
HeirClaimedAndMailed(r, c) ==
  /\ ClaimHeir(r, c)
  /\ FireAndForget(IF tx'[r].heir[c] = NULL THEN {} ELSE {<<r, c>>})
  /\ UNCHANGED <<answer, late, inbox, asking>>
SaysCancelled(row) == "cancelled"

HeirClaimed(r, c) == ClaimHeir(r, c) /\ Quietly

\* cancelled: markBookingCancelled() returned the row.
CancelAnswer(row) ==
  IF row.status = "CONFIRMED" THEN "cancelled" ELSE "nothingToCancel"

\* One mail for each of offersCreated.
BookingCancelled(r) ==
  /\ CancelBooking(r)
  /\ \/ /\ Tell(r, CancelAnswer(booking[tx[r].booking]), tx[r].booking)
        /\ FireAndForget({<<r, c>> : c \in {k \in Categories : tx[r].heir[k] # NULL}})
     \/ Fail(r) /\ UNCHANGED outbox
  /\ UNCHANGED <<late, inbox, asking>>

-----------------------------------------------------------------------------
(* GET /waitlist/offers/:token and POST /waitlist/offers/:token/accept.    *)

\* What the offer page says.
OfferPage(o) ==
  LET row == offer[o[1]][o[2]]
  IN  CASE row.status # "PENDING"  -> "OFFER_INVALID"
        [] row.expiresAt <= clock  -> "OFFER_EXPIRED"
        [] OTHER                   -> "open"

\* Only who received the mail can name the token.
PostAccept(r) ==
  /\ BeginAccept(r)
  /\ LET o == <<tx'[r].by, tx'[r].category>>
     IN  o \in inbox /\ About(r, o)

\* The same look at the offer, in the transaction of the acceptance.
OfferRefused(r) ==
  /\ tx[r] = NewTx
  /\ Finish(r)
  /\ \E o \in inbox :
       /\ OfferPage(o) \in Gone
       /\ Tell(r, OfferPage(o), o)
  /\ NoMail /\ UNCHANGED <<clock, tables, joining, late, asking>>

\* offers.controller.js sends no mail.
OfferAccepted(r) ==
  /\ AcceptOffer(r)
  /\ Tell(r, "created", NULL) \/ Fail(r)
  /\ NoMail /\ UNCHANGED <<late, asking>>

AcceptRefused(r) ==
  /\ RefuseAccept(r)
  /\ Tell(r, "OFFER_INVALID", <<tx[r].by, tx[r].category>>)
  /\ NoMail /\ UNCHANGED <<late, asking>>

RolledBack(r) == Rollback(r) /\ Fail(r) /\ NoMail /\ UNCHANGED <<late, asking>>

-----------------------------------------------------------------------------
(* Mail.                                                                   *)

\* A mail is off the process's hands.
SendMail(m) ==
  /\ m \in outbox
  /\ outbox' = outbox \ {m}
  /\ UNCHANGED <<vars, answer, late, asking>>

SendBookingConfirmedEmail(r) == SendMail(r) /\ UNCHANGED inbox

\* The only place where the raw token leaves the process.
SendWaitlistOfferEmail(o) == SendMail(o) /\ inbox' = inbox \cup {o}

\* Logged and dropped: the server is unreachable, the process ends, or the
\* memoised transport was rejected once, after which every mail of it fails.
MailFails(m) == SendMail(m) /\ UNCHANGED inbox

-----------------------------------------------------------------------------
(* The waitlist: joining, and GET /waitlist/me, which reads the entry and,  *)
(* if it is WAITING, its position.                                         *)

PostJoin(c, u) == Join(c, u) /\ Quietly

\* One status request at a time is followed.
AskStatus(c, u) ==
  /\ asking = NULL
  /\ entry[c][u].status = "WAITING"
  /\ asking' = <<c, u>>
  /\ UNCHANGED <<vars, answer, late, outbox, inbox>>

StatusAnswered ==
  /\ asking # NULL
  /\ asking' = NULL
  /\ UNCHANGED <<vars, answer, late, outbox, inbox>>

-----------------------------------------------------------------------------
Serve(r) ==
  \/ PostHold(r) \/ HoldCreated(r) \/ HoldRefused(r)
  \/ PostConfirm(r) \/ SeatsRead(r) \/ Booked(r) \/ ConfirmRefused(r)
  \/ PostCancel(r) \/ BookingLocked(r) \/ BookingCancelled(r)
  \/ \E c \in Categories : HeirClaimed(r, c)
  \/ PostAccept(r) \/ OfferRefused(r) \/ OfferAccepted(r) \/ AcceptRefused(r)
  \/ RolledBack(r)

ApiNext ==
  \/ \E r \in Requests : Serve(r)
  \/ \E h \in Requests : DeleteHold(h)
  \/ \E c \in Categories, u \in Users : PostJoin(c, u) \/ AskStatus(c, u)
  \/ StatusAnswered
  \/ \E r \in Requests : SendBookingConfirmedEmail(r)
  \/ \E o \in Offered : SendWaitlistOfferEmail(o)
  \/ \E m \in outbox : MailFails(m)
  \/ Tick /\ Quietly

ApiSpec == Init /\ ApiInit /\ [][ApiNext]_apiVars

-----------------------------------------------------------------------------
(* Reads.                                                                  *)

\* getEffectiveSeatMap()
SeatMap == [s \in Seats |-> EffectiveState(seat[s], clock)]

\* getEventSummaryByCategory(): a seat counts once for every CONFIRMED booking
\* that has it among its booking_seats.
Sold(c) ==
  Cardinality({sale \in Seats \X Requests :
                 /\ CategoryOf[sale[1]] = c
                 /\ sale[1] \in booking[sale[2]].seats
                 /\ booking[sale[2]].status = "CONFIRMED"})

-----------------------------------------------------------------------------
(* Properties.                                                             *)

\* Seats of an offer were booked through another one: confirmOfferSeats() asks for
\* the state of the seats, and not under which offer they are reserved.
SoldElsewhere(o) ==
  \E b \in Requests : /\ booking[b].offer \notin {NULL, o}
                      /\ booking[b].seats \cap offer[o[1]][o[2]].seats # {}

\* What a client was told is so.  A 201 means that the rows are there; a refusal
\* means that nothing of the request is; and nobody is sent away from a hold or
\* an offer that is still good, but for an offer that lost its seats to another
\* (errorHandler.js, utils/errors.js).  A 500 means neither.
AnswersAreTrue ==
  \A r \in Requests :
    LET code == answer[r].code
        of   == answer[r].of
    IN  /\ code = "created" => hold[r] # NoHold \/ booking[r] # NoBooking
        /\ code \in Refusals => hold[r] = NoHold /\ booking[r] = NoBooking
        /\ code = "HOLD_EXPIRED" =>
             hold[of].status # "ACTIVE" \/ hold[of].expiresAt <= clock
        /\ code \in {"OFFER_INVALID", "OFFER_EXPIRED"} =>
             \/ offer[of[1]][of[2]].status # "PENDING"
             \/ offer[of[1]][of[2]].expiresAt <= clock
             \/ SoldElsewhere(of)

\* "is now permanently gone, don't retry" (HoldExpiredError): once a client was
\* told 410, no request that arrives after it is served from that hold or offer;
\* again but for an offer that had lost its seats.
GoneStaysGone ==
  \A r \in late : booking[r] # NoBooking =>
    booking[r].offer # NULL /\ SoldElsewhere(booking[r].offer)

\* Of all requests to cancel one booking at most one is told that it did, and
\* then the money is on its way back (cancelBooking's "did THIS call do the
\* cancelling").
CancelledOnce ==
  \A q, r \in Requests :
    answer[q].code = "cancelled" =>
      /\ booking[answer[q].of].payment = "REFUNDED"
      /\ answer[r].code = "cancelled" /\ answer[q].of = answer[r].of => q = r

\* What a page shows, the write that follows it finds.  The map shows a seat as
\* AVAILABLE exactly when a hold on it would succeed now (EFFECTIVE_STATE_CASE and
\* the WHERE clause of acquireSeats() are two texts), and the seats of an offer
\* that its page shows as open, and that no other offer sold, are still reserved.
PagesAreHonest ==
  /\ \A s \in Seats : SeatMap[s] = "AVAILABLE" <=> Acquirable(seat[s], clock)
  /\ \A o \in inbox : OfferPage(o) = "open" /\ ~ SoldElsewhere(o) =>
       \A s \in offer[o[1]][o[2]].seats :
         seat[s].state = "OFFER_RESERVED" /\ seat[s].expiresAt > clock

\* The organiser's summary counts the seats that are occupied, each once, although
\* a seat sold again after a cancellation is in the booking_seats of both.
SummaryCountsSeatsOnce ==
  \A c \in Categories :
    Sold(c) = Cardinality({s \in Seats : CategoryOf[s] = c /\ seat[s].state = "BOOKED"})

\* No mail is about something that was never committed: a confirmation names a
\* booking, and a claim link an offer made to somebody.
MailsAreAboutRows ==
  \A m \in outbox \cup inbox :
    IF m \in Offered THEN offer[m[1]][m[2]].status # "NONE"
                     ELSE booking[m].status # "NONE"

-----------------------------------------------------------------------------
(* What a comment says, and the code does not do.                          *)

\* "This entry is included since it's already committed by the time this SELECT
\* runs" (joinWaitlist): who has just joined, or was just read as WAITING, has a
\* position in the queue when it is asked for.
PositionIsFound ==
  /\ \A c \in Categories, u \in Users :
       joining[c][u] = "inserted" => entry[c][u].status = "WAITING"
  /\ asking # NULL => entry[asking[1]][asking[2]].status = "WAITING"
=============================================================================
