# The booking system in TLA+

These modules describe the server of the ticket booking system (`server/src`,
with `shared/`): what its requests do to the database when they run
concurrently, lapse, fail half-way and are repeated, and what its clients are told
and shown meanwhile. TLC checks small instances; TLAPS proves the safety properties for any number of seats, categories, users, requests and jobs.

Line references below are paths in the repository (`src/` is its root).

## 1. The system

Express handlers call a service per module; services run
`withTransaction()` over PostgreSQL at READ COMMITTED; queries are single SQL
statements guarded by their WHERE clause. There is no state in the process
besides the connection pool: everything the components share is a table.

| component | state | operations | talks to |
|---|---|---|---|
| seat states (`shared/seatStates.js`, `seatmap/`) | none | `assertTransition`, `EFFECTIVE_STATE_CASE`, GET seatmap | read by all below |
| transactions (`db/withTransaction.js`) | open transactions, `now()` of each | BEGIN, COMMIT, ROLLBACK | everything |
| holds (`holds/`) | `seat_holds`, HELD rows | create (with lazy reclaim), release | show_seats |
| bookings (`bookings/`) | `bookings`, `booking_seats`, BOOKED rows | confirm, cancel, ticket (a read) | holds, payments, waitlist, offers |
| payments (`payments/`) | `payments` | authorize + capture, refund | called inside the booking's transaction |
| waitlist (`waitlist/waitlist.*`) | `waitlist_entries` | join, my status (a read), claim of the head | called by cancel |
| offers (`waitlist/offers.*`) | `waitlist_offers`, OFFER_RESERVED rows | first offer, read, accept | bookings, payments, waitlist |
| authentication (`auth/`) | `users`, `refresh_tokens` | register, login, refresh, logout | — |
| job queue (`queue/`) | `job_queue` | enqueue, claim, complete, fail with backoff | no caller in this version |
| venues (`venues/`) | `venues`, `seat_categories`, `seats` | create venue, create category, bulk create seats, reads | — |
| events (`events/`) | `events` | create, update, reads | — |
| shows (`shows/`) | `shows`, `show_prices` | create with prices, publish, reads | publish reads `seats` and writes `show_seats` |
| authorisation and HTTP (`app.js`, `middleware/`, `utils/errors.js`) | none; a client's cookies and what it was told | `requireAuth`, `requireRole`, `requireOwnership`, `validate`, `errorHandler` | in front of every service |
| mail (`mail/mailer.js`) | the transport's promise | confirmation and offer mails, after COMMIT, best effort | called by the bookings controller |
| seed (`db/seed.js`) | none | one run: users, then a demo catalogue statement by statement | writes the catalogue and `show_seats` |
| migrations, swagger, health, client | none | — | — |

What is hard about it:

* **Concurrency.** A statement is atomic, a service is not: `findHoldSeats`,
  `findOfferByTokenHash`, `countEffectiveAvailableSeats` and
  `findBookedSeatsByBooking` are unlocked reads whose answer is used by a later
  UPDATE. The guards of those UPDATEs are all the protection there is.
* **Time.** `now()` is the time of BEGIN for a whole transaction, while other
  transactions with later times commit. No worker frees lapsed rows: expiry is a
  predicate of whoever comes next (lazy reclaim), and an OFFER_RESERVED row
  carries two deadlines.
* **Failure.** A transaction can fail after any statement (a thrown error, the
  statement timeout, a lost connection, a crash), and a COMMIT may take effect
  although its answer is lost: the client is told 500 and asks again. Mail goes out
  after COMMIT and is not repeated. A job stays RUNNING when its process dies. The
  seed script is not a transaction.
* **Staleness.** A token is verified without being looked up, a listing is cut into
  pages while it changes, a page shows a seat or an offer before somebody acts on
  it.
* **Ordering.** The queue's head is claimed with SKIP LOCKED, so concurrent
  cancellations serve it out of order when one rolls back.

What makes each part correct: a live hold keeps what it was granted; a hold or an
offer is spent once; a seat is paid for exactly while it is occupied; a returned
seat goes to one heir of its own category or to the public; the public cannot
have it earlier, and can have it eventually. A session ends for good and is not
ended by accident; a job has one worker and settles; a seat map is made once and is
whole; an answer, a page and a mail say what the tables say.

## 2. The modules

| module | models | code |
|---|---|---|
| `SeatStates` | states, transition graph, effective state | `shared/seatStates.js`, `seatmap/` |
| `SeatStore` | the tables, BEGIN / COMMIT / ROLLBACK, the clock | `db/`, `migrations/003`–`005`, `payments/` |
| `Holds` | create, refuse, release | `holds/` |
| `Waitlist` | join, claim of the head | `waitlist/waitlist.*` |
| `Offers` | first offer, accept | `waitlist/offers.*` |
| `Bookings` | confirm, cancel and its dispatch per category | `bookings/`, `payments/` |
| `TicketSystem` | all of it running together; the properties | `app.js` |
| `SeatSale` | the abstract promise: whole sales of free seats against payment, whole refunds | — |
| `MCTicketSystem` | instances for TLC | — |
| `TicketSystemProofs`, `WaitlistProofs` | its theorems: holds and sales; the queue, the moves of a seat, `SeatSale` | — |
| `RefreshTokens` | login, refresh with rotation and reuse detection, logout | `auth/`, `migrations/008` |
| `MCRefreshTokens`, `RefreshTokensProofs` | its instances and theorems | — |
| `ShowCatalogue` | venues, categories, seats, events, shows with prices, publication | `venues/`, `events/`, `shows/`, `migrations/001`–`002` |
| `Accounts` | `RefreshTokens` with its users, browsers and answers | `auth/auth.controller.js`, `requireAuth.js` |
| `MCAccounts`, `AccountsProofs` | its instance and theorems | — |
| `Organisers` | `ShowCatalogue` behind roles and ownership; the columns of a PATCH; GET /events page by page | `events/`, `shows/`, `venues/` controllers, `middleware/` |
| `CatalogueProofs` | the theorems of `ShowCatalogue` and `Organisers` | — |
| `Seed` | `Organisers` next to runs of the seed script | `db/seed.js` |
| `MCCatalogue`, `SeedProofs` | the instance of `Seed` and of all below it; its theorems | — |
| `JobQueue` | enqueue, claim, run, complete, fail, crash | `queue/`, `utils/backoff.js`, `migrations/007` |
| `MCJobQueue`, `JobQueueProofs` | its instance and theorems | — |
| `Api` | `TicketSystem` with its answers, mails and pages | controllers, `errorHandler.js`, `utils/errors.js`, `mail/mailer.js`, `seatmap/`, `events/` summary |
| `MCApi`, `ApiProofs` | its instances and theorems | — |

Each component module EXTENDS `SeatStore`; `Offers` EXTENDS `Waitlist`,
`Bookings` EXTENDS `Holds` and `Offers`, `TicketSystem` EXTENDS `Bookings`, as the
services call each other, and `Api` EXTENDS `TicketSystem`: each of its steps is one
of `TicketSystem` with the answer it gets, or leaves the tables alone. In the same
way `Accounts` EXTENDS `RefreshTokens`, and `Seed` EXTENDS `Organisers`, which EXTENDS
`ShowCatalogue`. `JobQueue` stands alone, since nothing enqueues a job in this
version. `RefreshTokens` stands apart: sessions share no table
with the booking flow. `ShowCatalogue` comes before it: its publication makes the
`show_seats` rows that `SeatStore` starts from, one show's at a time.

### How state and steps correspond

* `seat[s]` is a `show_seats` row: `state`, `hold` (hold_id), `expiresAt`,
  `reservedUntil`, `booking` (booking_id). `held_by_user_id`, `version` and
  `updated_at` are written and never read by a guard; they are left out. BLOCKED
  is never written by the server.
* A request's identifier is also the identifier of the row it inserts, because
  each INSERT draws a fresh uuid. `tx[r]` says where request `r` is.
* A transaction is a BEGIN step that fixes `now`, one step per unlocked read or
  per row lock that others can see (`ReadHoldSeats`, `LockBooking`, `ClaimHeir`),
  and one step for the guarded UPDATEs with the COMMIT. That last step may be
  atomic: from its first UPDATE on the rows are locked and nothing it wrote is
  visible; another transaction that wanted those rows waits and then sees, as
  READ COMMITTED re-evaluates its WHERE clause, what this one left. INSERTs of
  rows nobody can name yet (`seat_holds`, `bookings`, `payments`) move to the
  COMMIT for the same reason, so a payment is never seen AUTHORIZED.
* `BeginAccept` reads the offer at BEGIN although the SELECT comes after: an
  offer that is PENDING at the SELECT was PENDING at BEGIN (its token was mailed
  before), so nothing is lost. `now` is the same in both.
* `Rollback(r)` may happen to any open transaction at any time: it stands for
  every error path that changes nothing, among them an unpriced seat and a seat
  named twice in one hold request.
* `hold[h].seats`, `booking[b].hold` and `booking[b].offer` are history: the
  database does not record them, properties speak of them, no guard reads them.
  (`booking[b].seats` is `booking_seats`, `offer[r][c].seats` is `show_seat_ids`.)
* `joining[c][u]` follows POST /waitlist, whose three statements autocommit.
* Owners never change and `requireOwnership` admits the owner only, so a request
  about a hold or a booking is one of its owner's; users matter for the waitlist
  alone. Any number of requests for the same row may run at once: double clicks
  and retries.
* Prices, references, QR codes and formatting are left out.

In `RefreshTokens`, `token[t]` is a `refresh_tokens` row named after the request that
inserted it, and its family after the login. A refresh is `PresentToken` (the JWT
check, which reads the clock), `ReadToken` (BEGIN and the unlocked read) and one
of `Rotate` and `ReportReuse` (the UPDATE, the INSERT and COMMIT). The UPDATE of a
rotation affects no row if another request was faster; the code does not look, and
neither does the model. A family-wide UPDATE that waits for a rotation does not see
the row that rotation inserts: the same outcome as the UPDATE first and the rotation
second, which the model has. `fate[f]` is history; it tells sessions that were logged
out, reported, or closed (the last good token revoked while no rotation of the
family was under way) from those still open.

In `ShowCatalogue` every row is one autocommitted or single-transaction write, and
nothing is ever deleted or deactivated, so a check that a row exists cannot go
stale and shares a step with the write (`createCategory`, `bulkCreateSeats`, the
ownership check of `createShow`). `createShow` is one step because its two INSERTs
share a transaction. A publication is two: the count on the pool (`BeginPublish`),
and the INSERT ... SELECT (`Materialise`, or `LosePublication` on
unique_violation). An INSERT that meets a row another transaction has not
committed waits for it, which is the order in which the steps are taken here; one
whose snapshot is older than a seat added meanwhile is the same as one taken
before that seat. A seat is the record of its venue, label, number, grid cell and
category; a `show_seats` row is its seat. A request of several rows is a function,
so that two rows may ask for the same place; the two UNIQUE constraints of `seats` refuse that, and are the guard
`Insertable`, which no property repeats. Requests that a constraint refuses
change nothing and have no action; only a publication's answer is kept, for the
properties.

Two states that the model has and the code does nothing about: a show published
over a venue without seats answers with success and a count of 0, and passes the
check of the next publication again (`shows.service.js:73` takes zero for "never
published"); and a show may leave categories of its venue unpriced
(`docs/BUILD_LOG.md:459`), or price categories of another venue. `AnswersStayTrue`
therefore speaks of counts above zero.

Operators named for a mistake (`AcquirableWhileHeld`, `QueueHeadsUnlocked`,
`CancelledUnrefunded` and so on) stand before the definition they vary. Nothing
uses them; they are what a plausible bug at that place would look like, kept
to show which property would notice it.

In `Api`, `answer[r]` is the response to request `r`: its error code, or what it
created or cancelled, and the hold or offer it was about. A response is given in the
step that commits, because no step of anybody else could tell the two apart, and
may be INTERNAL_ERROR there: a COMMIT whose answer was lost. `late` remembers requests that
arrived after somebody was told 410 for the same hold or offer. `outbox` has the
mails handed to `fireAndForget()`, of which each is sent or lost; `inbox` the offers
whose raw token somebody has, without which `PostAccept` is impossible. `asking` is
GET /waitlist/me between its two queries. `SeatMap`, `OfferPage` and `Sold` are the three
reads people act on.

In `Accounts`, a user is named after the request that registered it, and `jar[b]` is the
request whose cookies browser `b` has. `call[r]` is what a browser waits for; `Deliver`
and `AnswerWrongly` are the response, which sets the cookies, clears them, or is lost.
A registration is its check on the pool and its transaction. `slipped` and `copied`
are history: sessions whose browser sent a cookie a second time before the first
answer or did not get one, and sessions of which a stranger has a token.

In `Organisers`, the middleware is a guard: requests it turns away change nothing.
`created[e]` is `created_at`, counted in rows; two events of one microsecond are not in
the model. A description stands for every column that a PATCH may leave out. `visit` is one visitor who goes through the pages from the first
on. `hands[e]` and `given[e]` are history.

In `Seed`, `seed[q]` is one run of the script, a statement at a time, with the ids it
got back; the ids are those of `ShowCatalogue`, whose operations the inserts are where
they write the same rows. A demo show is inserted without its prices, which
`createShow()` never does, and its seat map without `publishShow()`.

In `JobQueue`, a dispatch is a job in the hands of a poller. Ticks of an interval
overlap, so a process may have any number. A statement of a poller may take effect and
have its answer lost (`LoseClaim`, `CompleteInDoubt`, `FailInDoubt`). `lost` and `finished` are history:
jobs of which a poller never got, or never wrote, an answer, and jobs whose handler is through,
unless `completeJob()` threw then.

## 3. What TLC checks

Each module states its properties with the code they are about.

| configuration | question | outcome |
|---|---|---|
| `MCHoldCheckout` | do four requests of any kind keep sales atomic, paid and exclusive, starting from a show just published? | holds |
| `MCConcurrentCancels` | can concurrent cancellations, with rollbacks, offer one entry two sets of seats? | they cannot |
| `MCTwoCategories` | does each category of one booking go to an heir of that category, and never to the public before the cascade window is over? | yes |
| `MCSeatsComeBack` | does a held or reserved seat always get sold or become acquirable, with no worker running? | yes |
| `MCPartialConfirm` | does a confirmation book the whole hold or nothing? | no |
| `MCOfferTwice` | is an offer made into at most one booking? | no |
| `MCJoinPosition` | does a user who just joined, or was just read as WAITING, find a position in the queue? | no |
| `MCAccounts` | do accounts and sessions stay apart, does an open session keep a good token and a closed one stay closed, do access tokens run out with it, and is a session taken for stolen only after a slip? | yes |
| `MCReuseRace` | does a reported reuse end the session for everybody? | no |
| `MCCatalogue` | do racing publications give a show one whole seat map, of the whole venue at one moment; do only owners write, and only what they name; does a visitor see every event; can the seed script be run again? | yes |
| `MCJobs` | has a job one worker at a time, does it get its attempts, is it left alone once its handler is through, and does it settle? | yes, unless an answer is lost |
| `MCApi` | are answers, pages, the summary and mails true of the tables? | yes |

### Bounds, and why they are enough

* *Requests* (4 from `Init`; 3 or 4 on top of the past ones in the starts further
  on). Every property relates at most two rows of a kind; a counterexample needs
  the request that grants, the one that sells, the one that returns and one that
  interferes. `hold → confirm → cancel` with a rival fits into four. The starts
  `OneBooking`, `TwoBookings` and `WholeHouse` are states `Init` reaches with
  the clock at 0, so that what follows a cancellation fits as well.
* *Seats* 1 or 2: partial overlap, partial confirmation and two categories need
  two; nothing compares three.
* *Users* 1 or 2: two for the order of the queue and for the second offer.
* *Time*: `HoldTTL = OfferTTL = 1`, `MaxCascade = 2`, `Grace = 0`. A hold made at 0
  lapses at 1, an offer made at 0 lapses at 1 and its seats at 2, so `MaxTime = 2`
  has every order of deadlines; liveness uses 4, for a hold and an offer one after
  the other. `MaxTime` is the only cap on a counter.
* `CHECK_DEADLOCK FALSE` because requests and the clock are bounded: a behaviour
  that served its requests stops.
* *Accounts*: four requests are a registration, a login or a second registration, a
  refresh and its competitor, or a login, a refresh, a replay and a logout; two
  browsers and two addresses. `TokenTTL = 2`, `AccessTTL = 1` and `MaxTime = 2` let
  an access token run out before, with and after its session. `MCReuseRace`
  needs four requests too.
* *Catalogue*: all of it at once does not fit into one run, so `CatalogueSpec` takes a
  step when it ends in one of five scenes, and behaviours go from one to another:
  venues are furnished while one show is published twice; two shows of one venue are
  published while it gets seats; a visitor browses three
  events while they are published and withdrawn; two organisers edit two events and
  publish a show; the demo data is seeded twice while an administrator adds to its
  venue and its organiser publishes. Two publications are a winner and a loser, or one
  over a venue without seats and one later. The three row shapes are a row of
  two seats, one that takes a grid cell of it and one that takes a number of it, of
  which the last two go together; requests have up to two rows (`MaxRows`). The demo
  house has a row per category, a column, and an event per show of the instance; a
  second seeding that overlaps the first gets ids while there are any, then fails
  like an INSERT that fails.
* *Jobs*: three jobs, two processes, batches of up to two and two attempts: a batch that
  leaves one over, a retry, and a job given up.
* *Api*: the hold, or the booking and queue, of the start, and three requests: one
  that commits without an answer, its repetition, and one that interferes. The
  status of the waitlist is asked for while the clock is at 0, because nothing about it
  depends on the time.
* Requests that are not part of the past, and users, are symmetric, as are ids that no constant names; the liveness
  runs have no symmetry.

### Fairness

In `TicketSystem`, `Fairness == WF_vars(Tick)` only: time passes. No request, transaction or client
is assumed to go on, because lazy expiry is a predicate on the clock; the run
shows that nothing else is needed.

In `JobQueue` time passes, some process polls (`setInterval`), and a job in hand goes on.
The last is asked of the handlers, which nothing bounds; the rest of
`runPollCycle()` is code that runs when the handler has settled. `EveryJobSettles` leaves
out jobs of which an answer was lost: those may be RUNNING for ever, which
`StuckOnlyWhenLost` says happens to no others. That such a job is ever put back is not
promised by the code (`docs/BUILD_LOG.md:289` leaves it to a later task), so neither property
is about recovering from a crash. `DoneOnce` is about the other end of a job: once its handler is through
(`finished`), only a `completeJob()` that throws lets it run again, whatever else is
claimed, retried or late at that time.

### What the failing runs show

* **`ConfirmsWholeHold`.** The number of confirmed rows is compared with the unlocked
  read. If a newer hold reclaimed one of two lapsed seats before that read, while
  the confirmation began before the lapse, the booking has one seat
  (`docs/PROJECT_PROMPT.md:633` asks for the hold's own count).
* **`OfferSpentOnce`.** `confirmOfferSeats()` looks at the seats, not at the offer. An
  acceptance that read PENDING may run its UPDATE after the offer was accepted,
  that booking cancelled, and the same seats reserved for the next in the queue.
  Another consequence: the second booking sells seats of a newer offer that is still
  PENDING and unexpired. Whoever has that one is told 410 although nothing of it
  has lapsed, sees a page that says open, and could be served later if the seats
  return. `SoldElsewhere` names such offers, and `AnswersAreTrue`, `GoneStaysGone` and
  `PagesAreHonest` speak of all others; `ReservedForSomeone` asks for one offer that covers
  a seat, and cannot ask for only one.
* **`PositionIsFound`.** `findQueuePosition()` counts WAITING entries; a cancellation may
  have offered the entry in between, and `joinWaitlist()` and
  `getMyWaitlistStatus()` dereference null: the request fails with a 500 although the
  entry exists and has an offer.

* **`ReuseEndsSession`.** A refresh that read its token before the reuse was reported
  inserts a successor afterwards. `auth.service.js:24` says both parties are logged
  out then.

Worth knowing, though no run is about it. `confirmHeldSeats()` compares `expires_at`
with the time of BEGIN, so a hold that lapses during its confirmation is booked (nobody
else is hurt: a rival that reclaimed the seat would have changed `hold_id`). Two
refreshes with one token may both succeed. And the seed script is less repeatable than
`render.yaml:27` and `seed.js:9` say, in two ways that `Seed` has as behaviours. A seeding that
dies after its first insert is never completed: the venue is then there, so every later boot skips the
catalogue, ends well and starts the server without a demo show. And two seedings that
overlap both look for the venue before either inserts it; its name is not unique, and each
makes a house. `SeedingAgainAddsNothing` is what is true: a run that *begins*
after one that ended well adds nothing.

## 4. What is proved

`TicketSystemProofs.tla`, for all values of the constants that satisfy
`StoreAssumption` (finitely many seats, each in one category; NULL is not a time,
a user or a row; positive lifetimes):

| theorem | property |
|---|---|
| `TypeCorrect` | `TypeOK` |
| `PaidIsOccupied` | `PaidSeatsAreOccupied` |
| `SpentOnce` | `HoldSpentOnce` |
| `LiveHoldsAreKept` | `LiveHoldKeepsSeats` |
| `HeldRowsAreOwned` | `HeldRowsHaveTheirHold` |
| `ReadsAreSound` | `ReadsStaySound` |

The argument is one inductive invariant, `IInv`: the type invariant and those five
together. The last is a lemma that no run checks: by itself it refuses no behaviour anybody
would complain of. None is inductive alone. `PaidSeatsAreOccupied` needs that a
confirmation's seats are the ones it read (a booking records what was read, the
UPDATE takes what is still there), which is `ReadsStaySound`: since the read, no seat
can have joined the hold, so equal counts mean equal sets. That in turn holds
because only `CreateHold(h)` writes `hold_id = h` and a hold that is being
checked out exists already. `LiveHoldKeepsSeats` needs that `now` of every open
transaction is not in the future, or a rival could reclaim a live row.
`HoldSpentOnce` needs `HeldRowsHaveTheirHold`: a CONVERTED or RELEASED hold has no
HELD row left, so a second confirmation finds its count short.
The step proofs go action by action; the lemmas on counting (`Complete` on subsets
of a finite set means equality) carry the comparisons of row counts.

`RefreshTokensProofs.tla`, for any set of requests and any lifetime: `TypeCorrect`,
`SessionsAreKept` (`SessionNeverLost`) and `ClosedSessionsStayClosed`
(`ClosedForGood`). `ClosedForGood` is not inductive: a rotation under way could bring a
closed family back, so the invariant adds that there is none
(`NoRotationOfClosed`); `NoRowBeforeTheEnd` and `PresentedIsIssued` say that an
INSERT overwrites nothing and that a presented token keeps its family. What the
proof needs of a closing step, no rotation under way, is exactly what
`ReuseEndsSession` fails for want of.

`CatalogueProofs.tla` on `ShowCatalogue`, for any sets of ids, any row shapes of at least one seat and
any number of publications: `TypeCorrect`, `PublicationsAnswerTheTruth`
(`AnswersStayTrue`), `SeatMapsAreTheVenues` (`SeatMapsAreOfTheirVenue`), `SeatMapsAreWholeVenues`
(`SeatMapsNest`, for all shows), `PricesCommitWithTheirShow` (`ShowsComeWithPrices`) and
`SeatMapsAreSnapshots` (the action property `SeatMapNeverChanges`). The unique
constraint alone does not make a publication all-or-nothing: it only refuses seats
that are there. What does is that a seat map is always part of what its venue has
(`SeatMapsAreOfTheirVenue`), so that a late publication selects every seat of an
earlier one and cannot but collide, unless the earlier one found none
(`WinnerWasFirst`). The same fact makes seat maps nest (`SeatMapsKeepNesting`): the latest
publication takes all its venue has, which includes the seats of every other show there.
Counting needs `SeatsAreFinite`: a request expands into finitely
many seats (`ExpandedSeats`).

`JobQueueProofs.tla`, for any jobs, processes, batch size and number of attempts:
`TypeCorrect` (`TypeOK`), `JobsAreClaimedOnce` (`ClaimedOnce`), `AttemptsAreCounted`
(`TriedOftenEnough`), `OnlyLossStrandsJobs` (`StuckOnlyWhenLost`), `FinishedJobsAreLeftAlone` (`DoneOnce`) and
`DeadStaysDead` (the action property `DeadIsFinal`). `DoneOnce` is kept by every step
because `ClaimedOnce` is: no second dispatch of a finished job exists that could fail it. The first four are one inductive invariant: that
`completeJob()` and `failJob()` may write without a guard rests on `ClaimedOnce`, which
in turn needs that a job in hand is RUNNING, or DONE with its failure still to
be written, and so is never due.

`WaitlistProofs.tla` goes on from `IInv` with `StoreAssumption` alone: `OffersAreMadeOnce`
(`OfferedOnce`), `ReservationsHaveOwners` (`ReservedForSomeone`), `MovesAreLegal` and
`ReservationsAreRespected` (the action properties `SeatsMoveLegally` and
`PublicNeverSnipesReserved`) and `SystemImplementsSale` (`Spec => ImplementsSeatSale`). That an
entry is offered once rests on `ClaimsAreExclusive`: an entry that a cancellation has
claimed stays WAITING until that one is done, and no other has claimed it. That a
reservation has an owner needs that both its deadlines count from one cancellation
(`ReservationsAreBacked`), which is also why nobody can reclaim the seat early. The
refinement maps a confirmation and an acceptance to a sale, a cancellation to a refund, and
all else to a stutter. A sale is of some seats, so an offer must never be of none
(`HandoverInv`): between the claim of an heir and the COMMIT the booking's seats cannot
go, because the booking's row is locked (`LocksAreExclusive`).

`AccountsProofs.tla`, under `AccountAssumption` and `TokenAssumption`: `AccountsKeepSessions`
(`AccountsSpec => Spec` of `RefreshTokens`, so that the theorems on sessions carry over),
`AccountsTypeCorrect` (`AccountsTypeOK`), `SessionsBelong` (`SessionsAreOfOneAccount`), `AccessEnds`
(`AccessEndsAfterClose`) and `OnlySlipsAreReported` (`ReuseNeedsASlip`). A request in flight
remembers whose token it presented, and that stays so while its token is rotated; a
token issued after a session closed is what `ClosedForGood` excludes. The last theorem
needs the whole way of a cookie (`SlipInv`): a token is delivered to one browser
(`TokensHaveOneHome`), and while its session has not slipped and was not copied it is
sent once (`SentOnce`) and is good until that request is served (`CleanTokensAreGood`).

`CatalogueProofs.tla` on `Organisers`: `RoutesAreHandlers` (`OrganisersSpec => Spec` of
`ShowCatalogue`), `OrganisersTypeCorrect`, `OwnersAlone` (`OnlyOwnersWrite`), `PatchesCompose`
(`PatchesKeepTheRest`) and `VisitorsMissNothing` (`BrowsingMissesNothing`). A publication checks
ownership long before it writes; that it still is the owner's (`PublishedByTheOwner`) rests
on the owner of an event never changing. The last theorem is about pages of any size over
any finite set of events. Its invariant is `NothingPassedBy`: of the events that were listed
throughout and not seen, those in the places before the present page are no more than
were withdrawn. Such a place changes by one at most in a step, because a step withdraws
one event at most (`PlacesMoveByOne`), no two rows are in one place (`ListedRows`), so one row
at most slips over the edge (`OneMorePlace`). That the last page is the last also when it is empty,
where the total reads 0, needs that every place up to the number of rows is taken
(`EveryPlaceIsTaken`).

`SeedProofs.tla`, under `SeedAssumption` and those of the modules below, for any number of
runs and any demo data: `SeedTypeCorrect`, `OneSeedingIsEnough` (`SeedingAgainAddsNothing`),
`SeedingsEndWhole` (`SeededShowsAreWhole`), `OnlySeedingsLeaveShowsUnpriced`
(`CreatedShowsComeWithPrices`), and what was known of the catalogue, with seedings under way:
`SeededCatalogueIsSound`, `SeedingsKeepSeatMapsNested` (`CreatedSeatMapsNest`),
`SeedingsRespectOwners`, `SeedingsHideNothing` and `SeedingsTouchNoSeatMap`. The invariant `SInv` adds to those of the catalogue what one run may
rely on (`RunInv`). Everybody else only makes the tables grow (`TablesGrow`), and a seat map
that a publication makes has all seats of the venue (`MapIsWhole`), so another's step
leaves `RunInv` alone (`RunKept`). `SeededShowsAreWhole` hangs on one case: the organiser publishes the demo show
between the run's prices and its seat map. He selects at least the run's seats, which were there
before the show, and the run's INSERT fails (`NobodyWasFaster`); with only some of them it would
have gone through and left a seat map nobody asked for.

`ApiProofs.tla`, under `StoreAssumption` and `KindsAssumption` (a request is not a pair of a request
and a category, so that what an answer is about tells a hold from an offer): `TablesStaySound`
(every invariant of the booking flow holds behind the API), `AnswersStayTrue`
(`AnswersAreTrue`), `OneCancels` (`CancelledOnce`), `GoneIsForGood` (`GoneStaysGone`), `PagesShowWhatIs`
(`PagesAreHonest`), `SummaryIsExact` (`SummaryCountsSeatsOnce`) and `MailsAreTrue` (`MailsAreAboutRows`).
An answer was true when it was given, and stays true because rows last: `Persists` says that a
step inserts only what its own request names, and that holds, bookings and offers never go
back to an earlier status. That a 410 was true to begin with is the harder half. For holds it
is `LiveHoldKeepsSeats` together with `HoldsHaveSeats`; for offers it needs `OpenOffersAreKept`: an
open offer has all its seats unless another offer sold one. A request that arrives
after a 410 has a `now()` behind the deadline of its hold (`LateSound`), so its UPDATE matches
nothing. The summary is a bijection between occupied seats and sales.

Only model-checked: `SoldOrBackOnSale` and `EveryJobSettles`, because liveness under fairness
is out of the prover's reach. `SeedSpec` does not imply the `Spec` of `ShowCatalogue`, since a
seeding inserts a show before its prices: the invariant `CInv` of the catalogue leaves
`ShowsComeWithPrices` out, so that its step lemmas serve both.

## 5. What is not modelled

`PROJECT.json` lists every component with the reason. In short: row locks inside a
statement and the connection pool (a transaction holds one connection and asks for
no second); several shows in the booking flow (they share no row but users); prices in
the booking flow; parsing, rate limits and the layout of errors; passwords and JWT signatures;
templates and QR codes of mails, and the memoised transport (one rejected
`createTestAccount()` loses every mail until a restart, which the model has as
mails lost one by one); migrations, configuration and the client.

## 6. Plan

Done: the booking flow, its abstract promise and its answers, pages and mails; accounts
and sessions; the catalogue with its organisers, visitors and seed script; the job
queue; the proofs of all of these. Next, in this order:

1. Queue order in `Waitlist`: by how much an entry can be overtaken, and when seats go
   on sale past a waiting entry (decision D-7), with a run of its own.
2. `SeatLocks`: the order in which UPDATEs lock rows, and the deadlock between a
   release and a new hold of the same seats.
3. Prices that do not cover every category, seen from `confirmBooking` (such a seat can be
   held over and over and never sold).
