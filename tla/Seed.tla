-------------------------------- MODULE Seed --------------------------------
(***************************************************************************)
(* npm run db:seed (db/seed.js) on a database that is in use: runs of it   *)
(* that overlap, follow each other or die, while an administrator adds     *)
(* seats and categories and the organiser publishes shows.  Every          *)
(* statement of a run commits on its own.                                  *)
(***************************************************************************)
EXTENDS Organisers, Sequences

CONSTANTS
  Seeds,          \* runs of the script
  DemoUsers,      \* DEMO_USERS, in order
  DemoOrganiser,  \* organiser@ticketbooking.test
  Premium, Standard,  \* the names of the two categories
  RowLabels,      \* ROW_LABELS, in order
  PremiumRows,    \* the first of them
  Columns,        \* seats in a row
  DemoEvents      \* the number of EVENTS

ASSUME SeedAssumption ==
  /\ DemoOrganiser \in People
  /\ Premium \in Names /\ Standard \in Names /\ Premium # Standard
  /\ DemoUsers \in Seq({DemoUsers[k] : k \in DOMAIN DemoUsers}) /\ DemoUsers # <<>>
  /\ RowLabels \in Seq(Labels) /\ RowLabels # <<>>
  /\ PremiumRows \in Nat /\ Columns \in Nat \ {0} /\ DemoEvents \in Nat \ {0}
  /\ NULL \notin Categories \cup Events \cup Shows

VARIABLES
  seed,        \* the runs
  users,       \* the demo users in the table
  demoVenues   \* the venues called DEMO_VENUE_NAME

seedVars == <<seed, users, demoVenues>>
catalogueVars == <<organisersVars, seedVars>>

-----------------------------------------------------------------------------
Steps ==
  <<"users", "check", "venue", "premium", "standard", "seats",
    "event", "show", "prices", "seatmap">>
Ended == {"done", "skipped", "failed", "crashed"}

\* count: how many users, seats or events the present loop has inserted.
Runs ==
  [pc : {Steps[k] : k \in DOMAIN Steps} \cup Ended \cup {"idle"},
   afterSuccess : BOOLEAN,   \* history: began when a run had ended well
   count : Nat, venue : Venues \cup {NULL},
   premium : Categories \cup {NULL}, standard : Categories \cup {NULL},
   seats : SUBSET SeatRow, event : Events \cup {NULL}, show : Shows \cup {NULL},
   made : SUBSET Shows]

SeedTypeOK ==
  /\ OrganisersTypeOK
  /\ seed \in [Seeds -> Runs]
  /\ users \subseteq {DemoUsers[k] : k \in DOMAIN DemoUsers}
  /\ demoVenues \subseteq venues

NotStarted ==
  [pc |-> "idle", afterSuccess |-> FALSE, count |-> 0, venue |-> NULL, premium |-> NULL,
   standard |-> NULL, seats |-> {}, event |-> NULL, show |-> NULL, made |-> {}]

SeedInit ==
  /\ OrganisersInit
  /\ seed = [q \in Seeds |-> NotStarted]
  /\ users = {}
  /\ demoVenues = {}

Running(q) == seed[q].pc \notin Ended \cup {"idle"}

\* The run goes on to another statement, or ends.
To(q, pc) == seed' = [seed EXCEPT ![q].pc = pc, ![q].count = 0]

-----------------------------------------------------------------------------
(* seed()                                                                  *)

StartSeed(q) ==
  /\ seed[q].pc = "idle"
  /\ seed' = [seed EXCEPT ![q].pc = "users",
       ![q].afterSuccess = \E r \in Seeds : seed[r].pc \in {"done", "skipped"}]
  /\ UNCHANGED <<organisersVars, users, demoVenues>>

\* The INSERT without ON CONFLICT: the second run of the script throws.
InsertUserOnce(q) ==
  /\ seed[q].pc = "users"
  /\ LET user == DemoUsers[seed[q].count + 1]
     IN  IF user \in users THEN To(q, "failed") /\ UNCHANGED users
         ELSE /\ users' = users \cup {user}
              /\ IF seed[q].count + 1 = Len(DemoUsers) THEN To(q, "check")
                 ELSE seed' = [seed EXCEPT ![q].count = @ + 1]
  /\ UNCHANGED <<organisersVars, demoVenues>>

\* ON CONFLICT (email) DO NOTHING
InsertUser(q) ==
  /\ seed[q].pc = "users"
  /\ users' = users \cup {DemoUsers[seed[q].count + 1]}
  /\ IF seed[q].count + 1 = Len(DemoUsers) THEN To(q, "check")
     ELSE seed' = [seed EXCEPT ![q].count = @ + 1]
  /\ UNCHANGED <<organisersVars, demoVenues>>

-----------------------------------------------------------------------------
(* seedDemoCatalogue()                                                     *)

CheckVenue(q) ==
  /\ seed[q].pc = "check"
  /\ To(q, IF demoVenues # {} THEN "skipped" ELSE "venue")
  /\ UNCHANGED <<organisersVars, users, demoVenues>>

InsertVenue(q) ==
  /\ seed[q].pc = "venue"
  /\ \E v \in Venues :
       /\ CreateVenue(v)
       /\ demoVenues' = demoVenues \cup {v}
       /\ seed' = [seed EXCEPT ![q].pc = "premium", ![q].venue = v]
  /\ EventsAlone /\ Meanwhile /\ UNCHANGED users

\* UNIQUE (venue_id, name): somebody was faster in the new venue.
NameTaken(v, name) == \E c \in Categories : category[c] = CategoryRow(v, name)

InsertDemoCategory(q) ==
  /\ \E c \in Categories :
       \/ /\ seed[q].pc = "premium"
          /\ CreateCategory(c, seed[q].venue, Premium)
          /\ seed' = [seed EXCEPT ![q].pc = "standard", ![q].premium = c]
       \/ /\ seed[q].pc = "standard"
          /\ CreateCategory(c, seed[q].venue, Standard)
          /\ seed' = [seed EXCEPT ![q].pc = "seats", ![q].standard = c]
  /\ EventsAlone /\ Meanwhile /\ UNCHANGED <<users, demoVenues>>

HouseSize == Len(RowLabels) * Columns

\* The seat of the two loops' next turn.
DemoSeat(q) ==
  LET r == seed[q].count \div Columns
      c == (seed[q].count % Columns) + 1
  IN  [venue    |-> seed[q].venue,
       category |-> IF r < PremiumRows THEN seed[q].premium ELSE seed[q].standard,
       label    |-> RowLabels[r + 1],
       number   |-> c, row |-> r + 1, col |-> c]

SeatTaken(q) == \E x \in seats : Collide(x, DemoSeat(q))

\* The loop that ends one seat early.
InsertSeatsButOne(q) ==
  /\ seed[q].pc = "seats"
  /\ ~ SeatTaken(q)
  /\ seats' = seats \cup {DemoSeat(q)}
  /\ seed' = [seed EXCEPT
       ![q].seats = @ \cup {DemoSeat(q)},
       ![q].pc    = IF seed[q].count + 2 >= HouseSize THEN "event" ELSE @,
       ![q].count = IF seed[q].count + 2 >= HouseSize THEN 0 ELSE @ + 1]
  /\ UNCHANGED <<venues, category, event, show, prices, showSeats, publication>>
  /\ EventsAlone /\ Meanwhile /\ UNCHANGED <<users, demoVenues>>

InsertSeat(q) ==
  /\ seed[q].pc = "seats"
  /\ ~ SeatTaken(q)
  /\ seats' = seats \cup {DemoSeat(q)}
  /\ seed' = [seed EXCEPT
       ![q].seats = @ \cup {DemoSeat(q)},
       ![q].pc    = IF seed[q].count + 1 = HouseSize THEN "event" ELSE @,
       ![q].count = IF seed[q].count + 1 = HouseSize THEN 0 ELSE @ + 1]
  /\ UNCHANGED <<venues, category, event, show, prices, showSeats, publication>>
  /\ EventsAlone /\ Meanwhile /\ UNCHANGED <<users, demoVenues>>

\* is_published is true from the start.
InsertDemoEvent(q) ==
  /\ seed[q].pc = "event"
  /\ \E e \in Events :
       /\ event[e] = "none"
       /\ event' = [event EXCEPT ![e] = "published"]
       /\ EventRow(DemoOrganiser, e, NoText)
       /\ For(DemoOrganiser, e)
       /\ seed' = [seed EXCEPT ![q].pc = "show", ![q].event = e]
  /\ UNCHANGED <<venues, category, seats, show, prices, showSeats, publication, caller>>
  /\ Meanwhile /\ UNCHANGED <<users, demoVenues>>

InsertDemoShow(q) ==
  /\ seed[q].pc = "show"
  /\ \E s \in Shows :
       /\ show[s] = NULL
       /\ show' = [show EXCEPT ![s] = ShowRow(seed[q].event, seed[q].venue)]
       /\ seed' = [seed EXCEPT ![q].pc = "prices", ![q].show = s, ![q].made = @ \cup {s}]
  /\ UNCHANGED <<venues, category, seats, event, prices, showSeats, publication>>
  /\ EventsAlone /\ Meanwhile /\ UNCHANGED <<users, demoVenues>>

InsertDemoPrices(q) ==
  /\ seed[q].pc = "prices"
  /\ prices' = prices \cup PriceRows(seed[q].show, {seed[q].premium, seed[q].standard})
  /\ seed' = [seed EXCEPT ![q].pc = "seatmap"]
  /\ UNCHANGED <<venues, category, seats, event, show, showSeats, publication>>
  /\ EventsAlone /\ Meanwhile /\ UNCHANGED <<users, demoVenues>>

\* UNIQUE (show_id, seat_id): the organiser published the show a moment ago.
SeatMapTaken(q) == showSeats[seed[q].show] \cap seed[q].seats # {}

\* The seats of the loop, by their ids.
InsertDemoShowSeats(q) ==
  /\ seed[q].pc = "seatmap"
  /\ ~ SeatMapTaken(q)
  /\ showSeats' = [showSeats EXCEPT ![seed[q].show] = @ \cup seed[q].seats]
  /\ seed' = [seed EXCEPT
       ![q].pc    = IF seed[q].count + 1 = DemoEvents THEN "done" ELSE "event",
       ![q].count = @ + 1]
  /\ UNCHANGED <<venues, category, seats, event, show, prices, publication>>
  /\ EventsAlone /\ Meanwhile /\ UNCHANGED <<users, demoVenues>>

\* seed().catch(): a constraint says no, and what was inserted stays.
FailSeed(q) ==
  /\ \/ seed[q].pc = "premium" /\ NameTaken(seed[q].venue, Premium)
     \/ seed[q].pc = "standard" /\ NameTaken(seed[q].venue, Standard)
     \/ seed[q].pc = "seats" /\ SeatTaken(q)
     \/ seed[q].pc = "seatmap" /\ SeatMapTaken(q)
  /\ To(q, "failed")
  /\ UNCHANGED <<organisersVars, users, demoVenues>>

CrashSeed(q) ==
  /\ Running(q)
  /\ To(q, "crashed")
  /\ UNCHANGED <<organisersVars, users, demoVenues>>

RunSeed(q) ==
  \/ StartSeed(q)
  \/ InsertUser(q)
  \/ CheckVenue(q)
  \/ InsertVenue(q)
  \/ InsertDemoCategory(q)
  \/ InsertSeat(q)
  \/ InsertDemoEvent(q)
  \/ InsertDemoShow(q)
  \/ InsertDemoPrices(q)
  \/ InsertDemoShowSeats(q)
  \/ FailSeed(q)
  \/ CrashSeed(q)

\* An administrator may give a venue any name.
Named == demoVenues' \in {demoVenues, demoVenues \cup (venues' \ venues)}

SeedNext ==
  \/ OrganisersNext /\ Named /\ UNCHANGED <<seed, users>>
  \/ \E q \in Seeds : RunSeed(q)

SeedSpec == SeedInit /\ [][SeedNext]_catalogueVars

-----------------------------------------------------------------------------
(* Safety.                                                                 *)

Demos == UNION {seed[q].made : q \in Seeds}

\* "Still idempotent" (seed.js): a run that begins when another has ended well
\* adds nothing and meets no error, whatever was done to the demo venue since.
SeedingAgainAddsNothing ==
  \A q \in Seeds : seed[q].afterSuccess =>
    seed[q].pc \in {"users", "check", "skipped", "crashed"} /\ seed[q].venue = NULL

\* A run that ended well has left "something real to browse": shows of published
\* events, both categories priced, whose seat maps are the run's own seats, all
\* of them and no others, however the venue changed and whoever published
\* meanwhile; withdrawing an event is its organiser's business.
SeededShowsAreWhole ==
  \A q \in Seeds : seed[q].pc = "done" =>
    /\ Cardinality(seed[q].made) = DemoEvents
    /\ Cardinality(seed[q].seats) = HouseSize
    /\ \A s \in seed[q].made :
         /\ event[show[s].event] # "none" /\ organiser[show[s].event] = DemoOrganiser
         /\ PriceRows(s, {seed[q].premium, seed[q].standard}) \subseteq prices
         /\ showSeats[s] = seed[q].seats

\* A show that was not seeded is there with prices, and every price is for a
\* category that exists: createShow() inserts both in one transaction.  A seeding
\* that dies between the two leaves a show without prices for good.
CreatedShowsComeWithPrices ==
  /\ \A s \in Shows \ Demos : show[s] # NULL => \E c \in Categories : <<s, c>> \in prices
  /\ \A price \in prices : show[price[1]] # NULL /\ category[price[2]] # NULL

\* The seat maps that publications made are whole; a seeded one has the seats of
\* its run, which another's may well lack.
CreatedSeatMapsNest == SeatMapsNest(Shows \ Demos)
=============================================================================
