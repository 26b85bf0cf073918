---------------------------- MODULE SeedProofs -----------------------------
(***************************************************************************)
(* What a seeding promises however many runs of it there are, whatever the *)
(* people of Organisers do meanwhile, and for any demo users, rows of      *)
(* seats and number of events; and that all that holds of the catalogue    *)
(* holds with seedings under way.  The argument: the tables only grow, and *)
(* a seat map is written once, so that what a run has inserted is there    *)
(* when its next statement comes; and nobody makes a seat map out of fewer *)
(* seats than the run has put into its venue before the show was there.    *)
(***************************************************************************)
EXTENDS Seed, CatalogueProofs

\* Runs that have their seats.
Filling == {"event", "show", "prices", "seatmap", "done"}

\* The rows a run goes on with are there, and its counter counts.
RowsOf(r) ==
  /\ r.pc \in {"idle", "users", "check", "venue", "skipped"} => r.venue = NULL
  /\ r.pc \in {"idle", "check", "venue", "premium", "standard"} => r.count = 0
  /\ r.pc = "users" => r.count < Len(DemoUsers)
  /\ r.pc \in {"premium", "standard", "seats"} \cup Filling => r.venue \in demoVenues
  /\ r.pc \in {"standard", "seats"} \cup Filling =>
       r.premium \in Categories /\ category[r.premium] # NULL
  /\ r.pc \in {"seats"} \cup Filling =>
       r.standard \in Categories /\ category[r.standard] # NULL
  /\ r.pc = "show" =>
       /\ r.event \in Events /\ event[r.event] # "none"
       /\ organiser[r.event] = DemoOrganiser

SeatsOf(r) ==
  /\ \A x \in r.seats : x \in seats /\ x.venue = r.venue
  /\ r.pc \in {"idle", "users", "check", "venue", "premium", "standard"} => r.seats = {}
  /\ r.pc = "seats" => r.count = Cardinality(r.seats) /\ r.count < HouseSize
  /\ r.pc \in Filling => Cardinality(r.seats) = HouseSize

\* A seat map that is there has the seats of the run, even if it is the organiser
\* who was faster: the seats were there before the show.
ShowsOf(r) ==
  /\ IsFiniteSet(r.made)
  /\ \A s \in r.made : /\ show[s] # NULL /\ show[s].venue = r.venue
                       /\ organiser[show[s].event] = DemoOrganiser
  /\ r.pc \notin Filling \cup {"failed", "crashed"} => r.made = {}
  /\ r.pc \in {"prices", "seatmap"} =>
       /\ r.show \in r.made
       /\ showSeats[r.show] = {} \/ r.seats \subseteq showSeats[r.show]
  /\ r.pc = "seatmap" => PriceRows(r.show, {r.premium, r.standard}) \subseteq prices

\* The shows a run has finished: all but the one it is at.
Whole(r) == IF r.pc \in {"prices", "seatmap"} THEN r.made \ {r.show} ELSE r.made

WholeOf(r) ==
  r.pc \in Filling =>
    /\ r.count = Cardinality(Whole(r))
    /\ r.pc = "done" => r.count = DemoEvents
    /\ \A s \in Whole(r) :
         /\ PriceRows(s, {r.premium, r.standard}) \subseteq prices
         /\ showSeats[s] = r.seats

\* Once there is a demo venue, no run gets past CheckVenue.
EnoughOf(r) ==
  /\ r.pc \in {"done", "skipped"} \/ r.afterSuccess => demoVenues # {}
  /\ r.afterSuccess => r.pc \in {"users", "check", "skipped", "crashed"} /\ r.venue = NULL

RunInv(r) == RowsOf(r) /\ SeatsOf(r) /\ ShowsOf(r) /\ WholeOf(r) /\ EnoughOf(r)

EachRun == \A q \in Seeds, r \in Runs : seed[q] = r => RunInv(r)

\* No show is of two runs.
MadeOnce == \A p, q \in Seeds : p # q => seed[p].made \cap seed[q].made = {}

SInv ==
  /\ OInv
  /\ LInv
  /\ seed \in [Seeds -> Runs]
  /\ users \subseteq {DemoUsers[k] : k \in DOMAIN DemoUsers}
  /\ demoVenues \subseteq venues
  /\ EachRun
  /\ MadeOnce
  /\ CreatedShowsComeWithPrices

-----------------------------------------------------------------------------
(* The tables of constants.                                                *)

LEMMA StepsAreNames ==
  ASSUME NEW pc \in {"users", "check", "venue", "premium", "standard", "seats", "event",
                     "show", "prices", "seatmap", "done", "skipped", "failed",
                     "crashed", "idle"}
  PROVE  pc \in {Steps[k] : k \in DOMAIN Steps} \cup Ended \cup {"idle"}
<1>1. DOMAIN Steps = 1..10 BY DEF Steps
<1>2. /\ Steps[1] = "users" /\ Steps[2] = "check" /\ Steps[3] = "venue"
      /\ Steps[4] = "premium" /\ Steps[5] = "standard" /\ Steps[6] = "seats"
      /\ Steps[7] = "event" /\ Steps[8] = "show" /\ Steps[9] = "prices"
      /\ Steps[10] = "seatmap"
  BY DEF Steps
<1>3. /\ 1 \in 1..10 /\ 2 \in 1..10 /\ 3 \in 1..10 /\ 4 \in 1..10 /\ 5 \in 1..10
      /\ 6 \in 1..10 /\ 7 \in 1..10 /\ 8 \in 1..10 /\ 9 \in 1..10 /\ 10 \in 1..10
  OBVIOUS
<1> QED BY <1>1, <1>2, <1>3 DEF Ended

LEMMA DemoHouse ==
  /\ Len(DemoUsers) \in Nat \ {0} /\ DOMAIN DemoUsers = 1..Len(DemoUsers)
  /\ Len(RowLabels) \in Nat \ {0} /\ \A k \in 1..Len(RowLabels) : RowLabels[k] \in Labels
  /\ HouseSize \in Nat \ {0}
<1>1. Len(DemoUsers) \in Nat \ {0} /\ DOMAIN DemoUsers = 1..Len(DemoUsers)
  BY SeedAssumption
<1>2. Len(RowLabels) \in Nat \ {0} /\ \A k \in 1..Len(RowLabels) : RowLabels[k] \in Labels
  BY SeedAssumption
<1>3. \A m, n \in Nat \ {0} : m * n \in Nat \ {0} OBVIOUS
<1> QED BY <1>1, <1>2, <1>3, SeedAssumption DEF HouseSize

\* The row of the seat with this number in the two loops.
LEMMA RowOfSeat ==
  ASSUME NEW n \in Nat, NEW m \in Nat, NEW k \in Nat \ {0}, n < m * k
  PROVE  n \div k \in 0..(m - 1) /\ n % k \in 0..(k - 1)
<1> DEFINE d == n \div k
           e == n % k
<1>1. d \in Int /\ e \in 0..(k - 1) /\ n = k * d + e OBVIOUS
<1> HIDE DEF d, e
<1>2. d >= 0
  <2>1. ASSUME d <= -1 PROVE FALSE
    <3>1. k * d <= -k BY <1>1, <2>1
    <3> QED BY <1>1, <3>1
  <2> QED BY <1>1, <2>1
<1>3. d <= m - 1
  <2>1. ASSUME d >= m PROVE FALSE
    <3>1. k * d >= k * m BY <1>1, <2>1
    <3> QED BY <1>1, <3>1
  <2> QED BY <1>1, <2>1
<1> QED BY <1>1, <1>2, <1>3 DEF d, e

-----------------------------------------------------------------------------
(* The tables grow.                                                        *)

TablesGrow ==
  /\ demoVenues \subseteq demoVenues'
  /\ \A c \in Categories : category[c] # NULL => category'[c] # NULL
  /\ seats \subseteq seats'
  /\ \A e \in Events :
       event[e] # "none" => event'[e] # "none" /\ organiser'[e] = organiser[e]
  /\ \A s \in Shows : show[s] # NULL => show'[s] = show[s]
  /\ prices \subseteq prices'
  /\ \A s \in Shows : showSeats[s] # {} => showSeats'[s] = showSeats[s]

\* A seat map that a step makes has all the seats of the venue.
MapIsWhole(s) ==
  showSeats[s] = {} => showSeats'[s] = {} \/ VenueSeats(s) \subseteq showSeats'[s]

\* Growing tables do a run no harm.
LEMMA RunKept ==
  ASSUME OInv, TablesGrow, NEW r \in Runs, RunInv(r),
         \A s \in r.made : MapIsWhole(s)
  PROVE  RunInv(r)'
<1>1. RowsOf(r)' BY DEF RunInv, RowsOf, TablesGrow, Runs
<1>2. SeatsOf(r)' BY DEF RunInv, SeatsOf, TablesGrow
<1>3. \A s \in r.made :
        /\ s \in Shows /\ show'[s] = show[s] /\ show[s] # NULL
        /\ organiser'[show'[s].event] = organiser[show[s].event]
  BY DEF RunInv, ShowsOf, TablesGrow, Runs, OInv, CInv, TypeOK, ShowsHaveEvents
<1>4. ShowsOf(r)'
  <2>1. ASSUME r.pc \in {"prices", "seatmap"}
        PROVE  showSeats'[r.show] = {} \/ r.seats \subseteq showSeats'[r.show]
    <3>1. r.show \in r.made /\ r.show \in Shows /\ show[r.show].venue = r.venue
          /\ (showSeats[r.show] = {} \/ r.seats \subseteq showSeats[r.show])
      BY <1>3, <2>1 DEF RunInv, ShowsOf
    <3>2. r.seats \subseteq VenueSeats(r.show)
      BY <3>1 DEF RunInv, SeatsOf, VenueSeats
    <3> QED BY <3>1, <3>2 DEF MapIsWhole, TablesGrow
  <2>2. \A s \in r.made : /\ show'[s] # NULL /\ show'[s].venue = r.venue
                          /\ organiser'[show'[s].event] = DemoOrganiser
    BY <1>3 DEF RunInv, ShowsOf
  <2>3. prices \subseteq prices' BY DEF TablesGrow
  <2>4. ShowsOf(r) BY DEF RunInv
  <2> QED BY <2>1, <2>2, <2>3, <2>4 DEF ShowsOf, PriceRows
<1>5. WholeOf(r)'
  <2>1. ASSUME r.pc \in Filling, NEW s \in Whole(r)
        PROVE  showSeats'[s] = r.seats
    <3>1. s \in Shows /\ showSeats[s] = r.seats
      BY <1>3, <2>1 DEF RunInv, WholeOf, Whole
    <3>2. r.seats # {}
      BY <2>1, DemoHouse, FS_EmptySet DEF RunInv, SeatsOf
    <3> QED BY <3>1, <3>2 DEF TablesGrow
  <2> QED BY <2>1 DEF RunInv, WholeOf, TablesGrow, Whole, PriceRows
<1>6. EnoughOf(r)' BY DEF RunInv, EnoughOf, TablesGrow
<1> QED BY <1>1, <1>2, <1>4, <1>5, <1>6 DEF RunInv

LEMMA CatalogueGrows ==
  ASSUME CInv, [Next]_vars
  PROVE  /\ venues \subseteq venues' /\ seats \subseteq seats' /\ prices \subseteq prices'
         /\ \A c \in Categories : category[c] # NULL => category'[c] # NULL
         /\ \A e \in Events : event[e] # "none" => event'[e] # "none"
         /\ \A s \in Shows : show[s] # NULL => show'[s] = show[s]
         /\ \A s \in Shows : showSeats[s] # {} => showSeats'[s] = showSeats[s]
         /\ \A s \in Shows : MapIsWhole(s)
<1> USE DEF Next, VenuesRouter, EventsRouter, ShowsRouter, vars
<1>1. venues \subseteq venues'
  BY DEF CreateVenue, CreateCategory, BulkCreateSeats, CreateEvent, UpdateEvent,
         CreateShow, BeginPublish, Materialise, LosePublication
<1>2. seats \subseteq seats'
  BY DEF CreateVenue, CreateCategory, BulkCreateSeats, CreateEvent, UpdateEvent,
         CreateShow, BeginPublish, Materialise, LosePublication
<1>3. prices \subseteq prices'
  BY DEF CreateVenue, CreateCategory, BulkCreateSeats, CreateEvent, UpdateEvent,
         CreateShow, BeginPublish, Materialise, LosePublication
<1>4. \A c \in Categories : category[c] # NULL => category'[c] # NULL
  <2>1. CASE UNCHANGED category BY <2>1
  <2>2. ASSUME NEW c \in Categories, NEW v \in Venues, NEW name \in Names,
               CreateCategory(c, v, name)
        PROVE  \A d \in Categories : category[d] # NULL => category'[d] # NULL
    BY <2>2 DEF CreateCategory, CInv, TypeOK
  <2>3. \/ UNCHANGED category
        \/ \E c \in Categories, v \in Venues, name \in Names : CreateCategory(c, v, name)
    BY DEF CreateVenue, BulkCreateSeats, CreateEvent, UpdateEvent, CreateShow,
           BeginPublish, Materialise, LosePublication
  <2> QED BY <2>1, <2>2, <2>3
<1>5. \A e \in Events : event[e] # "none" => event'[e] # "none"
  <2>1. UNCHANGED event \/ \E e \in Events : CreateEvent(e) \/ UpdateEvent(e)
    BY DEF CreateVenue, CreateCategory, BulkCreateSeats, CreateShow, BeginPublish,
           Materialise, LosePublication
  <2> QED BY <2>1 DEF CreateEvent, UpdateEvent, CInv, TypeOK
<1>6. \A s \in Shows : show[s] # NULL => show'[s] = show[s]
  <2>1. \/ UNCHANGED show
        \/ \E s \in Shows, e \in Events, v \in Venues, priced \in SUBSET Categories :
             CreateShow(s, e, v, priced)
    BY DEF CreateVenue, CreateCategory, BulkCreateSeats, CreateEvent, UpdateEvent,
           BeginPublish, Materialise, LosePublication
  <2> QED BY <2>1 DEF CreateShow, CInv, TypeOK
<1>7. \A s \in Shows : showSeats[s] # {} => showSeats'[s] = showSeats[s]
  BY SeatMapStep
<1>8. \A s \in Shows : MapIsWhole(s)
  <2>1. CASE UNCHANGED showSeats BY <2>1 DEF MapIsWhole
  <2>2. ASSUME NEW p \in Publications, Materialise(p) PROVE \A s \in Shows : MapIsWhole(s)
    BY <2>2, WinnerWasFirst DEF CInv, TypeOK, MapIsWhole
  <2>3. UNCHANGED showSeats \/ \E p \in Publications : Materialise(p)
    BY DEF CreateVenue, CreateCategory, BulkCreateSeats, CreateEvent, UpdateEvent,
           CreateShow, BeginPublish, LosePublication
  <2> QED BY <2>1, <2>2, <2>3
<1> QED BY <1>1, <1>2, <1>3, <1>4, <1>5, <1>6, <1>7, <1>8

LEMMA OrganisersGrow ==
  ASSUME OInv, [OrganisersNext]_organisersVars, demoVenues \subseteq demoVenues'
  PROVE  TablesGrow /\ \A s \in Shows : MapIsWhole(s)
<1>1. CInv /\ [Next]_vars BY StepIsCatalogueStep DEF OInv
<1>2. \A e \in Events : event[e] # "none" => organiser'[e] = organiser[e]
  <2>1. CASE UNCHANGED organiser BY <2>1
  <2>2. ASSUME NEW p \in People, NEW e \in Events, NEW text \in Texts,
               PostEvent(p, e, text)
        PROVE  \A f \in Events : event[f] # "none" => organiser'[f] = organiser[f]
    BY <2>2 DEF PostEvent, CreateEvent, EventRow, OInv
  <2>3. \/ UNCHANGED organiser
        \/ \E p \in People, e \in Events, text \in Texts : PostEvent(p, e, text)
    BY DEF OrganisersNext, AdminWrites, OrganiserWrites, PostVenue, PostCategory,
           PostSeats, PatchEvent, PostShow, PostPublish, ServePublish, OpenListing,
           BrowseEvents, EventsAlone, organisersVars, peopleVars
  <2> QED BY <2>1, <2>2, <2>3
<1> QED BY <1>1, <1>2, CatalogueGrows DEF TablesGrow

-----------------------------------------------------------------------------
(* The people's steps.                                                     *)

LEMMA CatalogueKeepsSInv ==
  ASSUME SInv, [OrganisersNext]_organisersVars, Named, UNCHANGED <<seed, users>>
  PROVE  SInv'
<1>1. OInv' /\ LInv' BY NextOInv, NextLInv DEF SInv, OInv
<1>2. CInv /\ [Next]_vars BY StepIsCatalogueStep DEF SInv, OInv
<1>3. venues \subseteq venues' BY <1>2, CatalogueGrows
<1>4. demoVenues \subseteq demoVenues' /\ demoVenues' \subseteq venues'
  BY <1>3 DEF SInv, Named
<1>5. TablesGrow /\ \A s \in Shows : MapIsWhole(s)
  BY <1>4, OrganisersGrow DEF SInv
<1>6. EachRun'
  <2>1. ASSUME NEW q \in Seeds, NEW r \in Runs, seed'[q] = r PROVE RunInv(r)'
    <3>1. RunInv(r) /\ r.made \subseteq Shows
      BY <2>1 DEF SInv, EachRun, Runs
    <3> QED BY <1>5, <3>1, RunKept DEF SInv
  <2> QED BY <2>1 DEF EachRun
<1>7. CreatedShowsComeWithPrices'
  <2>1. PICK unpriced : unpriced = Demos OBVIOUS
  <2>2. Demos' = unpriced BY <2>1 DEF Demos
  <2>3. PricesBut(unpriced) BY <2>1 DEF SInv, CreatedShowsComeWithPrices, PricesBut
  <2>4. PricesBut(unpriced)' BY <1>2, <2>3, PricesStayWhole DEF CInv
  <2> QED BY <2>2, <2>4 DEF CreatedShowsComeWithPrices, PricesBut
<1> QED BY <1>1, <1>4, <1>6, <1>7 DEF SInv, MadeOnce

-----------------------------------------------------------------------------
(* The runs' steps.                                                        *)

\* A run that moves on makes no show that another run made, and leaves no price
\* behind for anything that is not there.
LEMMA RunMoves ==
  ASSUME SInv, NEW q \in Seeds, NEW r, r = seed[q],
         NEW u \in Runs, seed' = [seed EXCEPT ![q] = u], RunInv(u)',
         r.made \subseteq u.made,
         \A s \in u.made : s \in r.made \/ show[s] = NULL,
         OInv', LInv', TablesGrow,
         \A s \in Shows \ r.made : MapIsWhole(s),
         \A s \in Shows : show'[s] # NULL => show[s] # NULL \/ s \in u.made,
         \A price \in prices' :
           price \in prices \/ (show[price[1]] # NULL /\ category[price[2]] # NULL),
         users' \subseteq {DemoUsers[k] : k \in DOMAIN DemoUsers},
         demoVenues' \subseteq venues'
  PROVE  SInv'
<1>1. /\ r \in Runs /\ seed \in [Seeds -> Runs]
      /\ seed' \in [Seeds -> Runs] /\ seed'[q] = u
      /\ \A p \in Seeds \ {q} : seed'[p] = seed[p]
      /\ RunInv(r)
  BY DEF SInv, EachRun
<1>2. \A p \in Seeds : seed[p] \in Runs /\ seed[p].made \subseteq Shows
  BY <1>1 DEF Runs
<1>3. ASSUME NEW p \in Seeds, NEW s \in seed[p].made PROVE show[s] # NULL
  <2>1. PICK t : t = seed[p] OBVIOUS
  <2>2. RunInv(t) BY <1>2, <2>1 DEF SInv, EachRun
  <2> QED BY <1>3, <2>1, <2>2 DEF RunInv, ShowsOf
<1>4. EachRun'
  <2>1. ASSUME NEW p \in Seeds, NEW t \in Runs, seed'[p] = t PROVE RunInv(t)'
    <3>1. CASE p = q BY <1>1, <2>1, <3>1
    <3>2. CASE p # q
      <4>1. t = seed[p] BY <1>1, <2>1, <3>2
      <4>2. RunInv(t) BY <4>1 DEF SInv, EachRun
      <4>3. \A s \in t.made : s \in Shows \ r.made
        BY <1>2, <3>2, <4>1 DEF SInv, MadeOnce
      <4> QED BY <2>1, <4>2, <4>3, RunKept DEF SInv
    <3> QED BY <3>1, <3>2
  <2> QED BY <2>1 DEF EachRun
<1>5. MadeOnce'
  <2>1. ASSUME NEW p \in Seeds, p # q PROVE seed[p].made \cap u.made = {}
    BY <1>3, <2>1 DEF SInv, MadeOnce
  <2>2. \A p, t \in Seeds : p # t => seed[p].made \cap seed[t].made = {}
    BY DEF SInv, MadeOnce
  <2> QED BY <1>1, <2>1, <2>2 DEF MadeOnce
<1>6. CreatedShowsComeWithPrices'
  <2>1. Demos \subseteq Demos' /\ u.made \subseteq Demos'
    BY <1>1 DEF Demos
  <2>2. ASSUME NEW s \in Shows \ Demos', show'[s] # NULL
        PROVE  \E c \in Categories : <<s, c>> \in prices'
    BY <2>1, <2>2 DEF SInv, CreatedShowsComeWithPrices, TablesGrow
  <2>3. ASSUME NEW price \in prices'
        PROVE  show'[price[1]] # NULL /\ category'[price[2]] # NULL
    <3>1. price \in Shows \X Categories BY DEF OInv, CInv, TypeOK
    <3>2. show[price[1]] # NULL /\ category[price[2]] # NULL
      BY DEF SInv, CreatedShowsComeWithPrices
    <3> QED BY <3>1, <3>2 DEF TablesGrow
  <2> QED BY <2>2, <2>3 DEF CreatedShowsComeWithPrices
<1> QED BY <1>1, <1>4, <1>5, <1>6 DEF SInv

\* A statement that touches none of the tables of the catalogue.
LEMMA RunMovesAlone ==
  ASSUME SInv, NEW q \in Seeds, NEW r, r = seed[q],
         NEW u \in Runs, seed' = [seed EXCEPT ![q] = u], u.made = r.made,
         RunInv(r)' => RunInv(u)',
         users' \subseteq {DemoUsers[k] : k \in DOMAIN DemoUsers},
         UNCHANGED <<organisersVars, demoVenues>>
  PROVE  SInv'
<1>1. OInv' /\ LInv' BY NextOInv, NextLInv DEF SInv, OInv
<1>2. TablesGrow /\ \A s \in Shows : MapIsWhole(s)
  BY OrganisersGrow DEF SInv
<1>3. r \in Runs /\ RunInv(r) /\ r.made \subseteq Shows BY DEF SInv, EachRun, Runs
<1>4. RunInv(u)' BY <1>2, <1>3, RunKept DEF SInv
<1>5. UNCHANGED <<venues, show, prices, demoVenues>> BY DEF organisersVars, vars
<1>6. /\ r.made \subseteq u.made
      /\ \A s \in u.made : s \in r.made \/ show[s] = NULL
      /\ \A s \in Shows \ r.made : MapIsWhole(s)
      /\ \A s \in Shows : show'[s] # NULL => show[s] # NULL \/ s \in u.made
      /\ \A price \in prices' :
           price \in prices \/ (show[price[1]] # NULL /\ category[price[2]] # NULL)
  BY <1>2, <1>5
<1>7. demoVenues' \subseteq venues' BY <1>5 DEF SInv
<1> QED BY <1>1, <1>2, <1>4, <1>6, <1>7, RunMoves

LEMMA ThisRun ==
  ASSUME SInv, NEW q \in Seeds, NEW r, r = seed[q]
  PROVE  r \in Runs /\ RunInv(r)
BY DEF SInv, EachRun

LEMMA StartSeedKeepsSInv ==
  ASSUME SInv, NEW q \in Seeds, StartSeed(q)
  PROVE  SInv'
<1>1. PICK r : r = seed[q] OBVIOUS
<1>2. PICK again \in BOOLEAN :
        again = \E p \in Seeds : seed[p].pc \in {"done", "skipped"}
  OBVIOUS
<1>3. PICK u : u = [r EXCEPT !.pc = "users", !.afterSuccess = again] OBVIOUS
<1>4. r \in Runs /\ RunInv(r) /\ r.pc = "idle" BY <1>1, ThisRun DEF StartSeed
<1>5. seed' = [seed EXCEPT ![q] = u]
  BY <1>1, <1>2, <1>3 DEF StartSeed
<1>6. u \in Runs BY <1>3, <1>4, StepsAreNames DEF Runs
<1>7. again => demoVenues # {}
  <2>1. ASSUME NEW p \in Seeds, seed[p].pc \in {"done", "skipped"} PROVE demoVenues # {}
    <3>1. PICK t : t = seed[p] OBVIOUS
    <3>2. RunInv(t) BY <3>1, ThisRun
    <3> QED BY <2>1, <3>1, <3>2 DEF RunInv, EnoughOf
  <2> QED BY <1>2, <2>1
<1>8. UNCHANGED <<organisersVars, users, demoVenues>> BY DEF StartSeed
<1>9. /\ u.pc = "users" /\ u.afterSuccess = again /\ u.count = r.count
      /\ u.venue = r.venue /\ u.seats = r.seats /\ u.made = r.made
  BY <1>3, <1>4 DEF Runs
<1>10. RunInv(r)' => RunInv(u)'
  BY <1>4, <1>7, <1>8, <1>9, DemoHouse
  DEF RunInv, RowsOf, SeatsOf, ShowsOf, WholeOf, EnoughOf, Filling
<1> QED BY <1>1, <1>5, <1>6, <1>8, <1>9, <1>10, RunMovesAlone DEF SInv

LEMMA InsertUserKeepsSInv ==
  ASSUME SInv, NEW q \in Seeds, InsertUser(q)
  PROVE  SInv'
<1>1. PICK r : r = seed[q] OBVIOUS
<1>2. r \in Runs /\ RunInv(r) /\ r.pc = "users" BY <1>1, ThisRun DEF InsertUser
<1>3. r.count \in Nat /\ r.count < Len(DemoUsers)
  BY <1>2 DEF RunInv, RowsOf, Runs
<1>4. users' \subseteq {DemoUsers[k] : k \in DOMAIN DemoUsers}
  <2>1. r.count + 1 \in DOMAIN DemoUsers BY <1>3, DemoHouse
  <2> QED BY <1>1, <2>1 DEF InsertUser, SInv
<1>5. UNCHANGED <<organisersVars, demoVenues>> BY DEF InsertUser
<1>6. CASE r.count + 1 = Len(DemoUsers)
  <2>1. PICK u : u = [r EXCEPT !.pc = "check", !.count = 0] OBVIOUS
  <2>2. seed' = [seed EXCEPT ![q] = u]
    BY <1>1, <1>6, <2>1 DEF InsertUser, To
  <2>3. u \in Runs BY <1>2, <2>1, StepsAreNames DEF Runs
  <2>4. /\ u.pc = "check" /\ u.count = 0 /\ u.afterSuccess = r.afterSuccess
        /\ u.venue = r.venue /\ u.seats = r.seats /\ u.made = r.made
    BY <1>2, <2>1 DEF Runs
  <2>5. RunInv(r)' => RunInv(u)'
    BY <1>2, <2>4 DEF RunInv, RowsOf, SeatsOf, ShowsOf, WholeOf, EnoughOf, Filling
  <2> QED BY <1>1, <1>4, <1>5, <2>2, <2>3, <2>4, <2>5, RunMovesAlone
<1>7. CASE r.count + 1 # Len(DemoUsers)
  <2>1. PICK u : u = [r EXCEPT !.count = @ + 1] OBVIOUS
  <2>2. seed' = [seed EXCEPT ![q] = u]
    BY <1>1, <1>7, <2>1 DEF InsertUser
  <2>3. u \in Runs BY <1>2, <2>1 DEF Runs
  <2>4. /\ u.pc = "users" /\ u.count = r.count + 1 /\ u.afterSuccess = r.afterSuccess
        /\ u.venue = r.venue /\ u.seats = r.seats /\ u.made = r.made
    BY <1>2, <2>1 DEF Runs
  <2>5. u.count < Len(DemoUsers) BY <1>3, <1>7, <2>4, DemoHouse
  <2>6. RunInv(r)' => RunInv(u)'
    BY <1>2, <2>4, <2>5
    DEF RunInv, RowsOf, SeatsOf, ShowsOf, WholeOf, EnoughOf, Filling
  <2> QED BY <1>1, <1>4, <1>5, <2>2, <2>3, <2>4, <2>6, RunMovesAlone
<1> QED BY <1>6, <1>7

\* The run ends, or goes past the check.
LEMMA RunTurnsTo ==
  ASSUME SInv, NEW q \in Seeds, NEW pc,
         \/ /\ seed[q].pc = "check"
            /\ pc = IF demoVenues # {} THEN "skipped" ELSE "venue"
         \/ pc \in {"failed", "crashed"} /\ Running(q)
            /\ (pc = "failed" => seed[q].pc \in {"premium", "standard", "seats", "seatmap"}),
         To(q, pc), UNCHANGED <<organisersVars, users, demoVenues>>
  PROVE  SInv'
<1>1. PICK r : r = seed[q] OBVIOUS
<1>2. PICK u : u = [r EXCEPT !.pc = pc, !.count = 0] OBVIOUS
<1>3. r \in Runs /\ RunInv(r) BY <1>1, ThisRun
<1>4. pc \in {"skipped", "venue", "failed", "crashed"} OBVIOUS
<1>5. seed' = [seed EXCEPT ![q] = u] BY <1>1, <1>2 DEF To
<1>6. u \in Runs
  <2>1. pc \in {Steps[k] : k \in DOMAIN Steps} \cup Ended \cup {"idle"}
    BY <1>4, StepsAreNames
  <2> QED BY <1>2, <1>3, <2>1 DEF Runs
<1>7. /\ u.pc = pc /\ u.count = 0 /\ u.afterSuccess = r.afterSuccess
      /\ u.venue = r.venue /\ u.seats = r.seats /\ u.made = r.made
  BY <1>2, <1>3 DEF Runs
<1>8. RunInv(r)' => RunInv(u)'
  <2>1. RowsOf(r)' => RowsOf(u)' BY <1>1, <1>4, <1>7 DEF RowsOf, Filling
  <2>2. SeatsOf(r)' => SeatsOf(u)' BY <1>1, <1>4, <1>7 DEF SeatsOf, Filling
  <2>3. ShowsOf(r)' => ShowsOf(u)' BY <1>1, <1>4, <1>7 DEF ShowsOf, Filling
  <2>4. WholeOf(u)' BY <1>4, <1>7 DEF WholeOf, Filling
  <2>5. EnoughOf(r)' /\ RowsOf(r)' => EnoughOf(u)'
    BY <1>1, <1>7 DEF EnoughOf, RowsOf, Filling
  <2> QED BY <2>1, <2>2, <2>3, <2>4, <2>5 DEF RunInv
<1> QED BY <1>1, <1>5, <1>6, <1>7, <1>8, RunMovesAlone DEF SInv

LEMMA EndingsKeepSInv ==
  ASSUME SInv, NEW q \in Seeds, CheckVenue(q) \/ FailSeed(q) \/ CrashSeed(q)
  PROVE  SInv'
<1>1. CASE CheckVenue(q)
  <2>1. PICK pc : pc = IF demoVenues # {} THEN "skipped" ELSE "venue" OBVIOUS
  <2>2. /\ seed[q].pc = "check" /\ To(q, pc)
        /\ UNCHANGED <<organisersVars, users, demoVenues>>
    BY <1>1, <2>1 DEF CheckVenue
  <2> QED BY <2>1, <2>2, RunTurnsTo
<1>2. CASE FailSeed(q)
  <2>1. /\ seed[q].pc \in {"premium", "standard", "seats", "seatmap"}
        /\ To(q, "failed") /\ UNCHANGED <<organisersVars, users, demoVenues>>
    BY <1>2 DEF FailSeed
  <2>2. Running(q) BY <2>1 DEF Running, Ended
  <2> QED BY <2>1, <2>2, RunTurnsTo
<1>3. CASE CrashSeed(q)
  BY <1>3, RunTurnsTo DEF CrashSeed
<1> QED BY <1>1, <1>2, <1>3

\* A statement that adds rows and makes no seat map and no show.
LEMMA RunMovesOn ==
  ASSUME SInv, NEW q \in Seeds, NEW r, r = seed[q],
         NEW u \in Runs, seed' = [seed EXCEPT ![q] = u], u.made = r.made,
         RunInv(r)' => RunInv(u)',
         OInv', LInv', TablesGrow, UNCHANGED <<show, showSeats>>,
         \A price \in prices' :
           price \in prices \/ (show[price[1]] # NULL /\ category[price[2]] # NULL),
         UNCHANGED users, demoVenues' \subseteq venues'
  PROVE  SInv'
<1>1. r \in Runs /\ RunInv(r) BY ThisRun
<1>2. \A s : MapIsWhole(s) BY DEF MapIsWhole
<1>3. RunInv(u)' BY <1>1, <1>2, RunKept DEF SInv
<1>4. /\ \A s \in u.made : s \in r.made \/ show[s] = NULL
      /\ \A s \in Shows : show'[s] # NULL => show[s] # NULL \/ s \in u.made
      /\ \A s \in Shows \ r.made : MapIsWhole(s)
  BY <1>2
<1>5. users' \subseteq {DemoUsers[k] : k \in DOMAIN DemoUsers} BY DEF SInv
<1> QED BY <1>1, <1>3, <1>4, <1>5, RunMoves

LEMMA InsertVenueKeepsSInv ==
  ASSUME SInv, NEW q \in Seeds, InsertVenue(q)
  PROVE  SInv'
<1>1. PICK r : r = seed[q] OBVIOUS
<1>2. PICK v \in Venues :
        /\ CreateVenue(v)
        /\ demoVenues' = demoVenues \cup {v}
        /\ seed' = [seed EXCEPT ![q].pc = "premium", ![q].venue = v]
  BY DEF InsertVenue
<1>3. PICK u : u = [r EXCEPT !.pc = "premium", !.venue = v] OBVIOUS
<1>4. r \in Runs /\ RunInv(r) /\ r.pc = "venue" BY <1>1, ThisRun DEF InsertVenue
<1>5. seed' = [seed EXCEPT ![q] = u] BY <1>1, <1>2, <1>3
<1>6. u \in Runs BY <1>3, <1>4, StepsAreNames DEF Runs
<1>7. /\ u.pc = "premium" /\ u.count = r.count /\ u.afterSuccess = r.afterSuccess
      /\ u.venue = v /\ u.seats = r.seats /\ u.made = r.made
  BY <1>3, <1>4 DEF Runs
<1>8. /\ UNCHANGED <<category, seats, event, show, prices, showSeats, publication>>
      /\ venues' = venues \cup {v} /\ EventsAlone /\ Meanwhile /\ UNCHANGED users
  BY <1>2 DEF CreateVenue, InsertVenue
<1>9. CInv /\ CInv' BY <1>2, VenuesKeepCInv DEF SInv, OInv
<1>10. OInv' BY <1>8, <1>9, EventsUntouched DEF SInv, EventsAlone
<1>11. LInv'
  BY <1>8, <1>9, MeanwhileNoEventChanges DEF SInv, EventsAlone
<1>12. TablesGrow BY <1>2, <1>8 DEF TablesGrow, EventsAlone
<1>13. RunInv(r)' => RunInv(u)'
  BY <1>2, <1>4, <1>7 DEF RunInv, RowsOf, SeatsOf, ShowsOf, WholeOf, EnoughOf, Filling
<1>14. demoVenues' \subseteq venues' BY <1>2, <1>8 DEF SInv
<1> QED BY <1>1, <1>5, <1>6, <1>7, <1>8, <1>10, <1>11, <1>12, <1>13, <1>14, RunMovesOn

LEMMA InsertDemoCategoryKeepsSInv ==
  ASSUME SInv, NEW q \in Seeds, InsertDemoCategory(q)
  PROVE  SInv'
<1>1. PICK r : r = seed[q] OBVIOUS
<1>2. r \in Runs /\ RunInv(r) BY <1>1, ThisRun
<1>3. PICK c \in Categories, name \in Names, v \in Venues :
        /\ v = r.venue /\ CreateCategory(c, v, name)
        /\ \/ /\ r.pc = "premium"
              /\ seed' = [seed EXCEPT ![q].pc = "standard", ![q].premium = c]
           \/ /\ r.pc = "standard"
              /\ seed' = [seed EXCEPT ![q].pc = "seats", ![q].standard = c]
  <2>1. PICK c \in Categories :
          \/ /\ r.pc = "premium"
             /\ CreateCategory(c, r.venue, Premium)
             /\ seed' = [seed EXCEPT ![q].pc = "standard", ![q].premium = c]
          \/ /\ r.pc = "standard"
             /\ CreateCategory(c, r.venue, Standard)
             /\ seed' = [seed EXCEPT ![q].pc = "seats", ![q].standard = c]
    BY <1>1 DEF InsertDemoCategory
  <2>2. r.venue \in Venues
    BY <2>1 DEF CreateCategory, SInv, OInv, CInv, TypeOK
  <2> QED BY <2>1, <2>2, SeedAssumption
<1>4. /\ EventsAlone /\ Meanwhile /\ UNCHANGED <<users, demoVenues>>
      /\ UNCHANGED <<venues, seats, event, show, prices, showSeats, publication>>
      /\ category' = [category EXCEPT ![c] = CategoryRow(v, name)]
      /\ category[c] = NULL
  BY <1>3 DEF InsertDemoCategory, CreateCategory
<1>5. CInv /\ CInv' BY <1>3, CategoriesKeepCInv DEF SInv, OInv
<1>6. OInv' BY <1>4, <1>5, EventsUntouched DEF SInv, EventsAlone
<1>7. LInv' BY <1>4, <1>5, MeanwhileNoEventChanges DEF SInv, EventsAlone
<1>8. CategoryRow(v, name) # NULL BY NullIsNoRow DEF CategoryRow
<1>9. /\ category'[c] # NULL
      /\ \A d \in Categories : category[d] # NULL => category'[d] # NULL
  BY <1>4, <1>5, <1>8 DEF CInv, TypeOK
<1>10. TablesGrow BY <1>4, <1>9 DEF TablesGrow, EventsAlone
<1>11. demoVenues' \subseteq venues' BY <1>4 DEF SInv
<1>12. ASSUME r.pc = "premium",
              seed' = [seed EXCEPT ![q].pc = "standard", ![q].premium = c]
       PROVE  SInv'
  <2>1. PICK u : u = [r EXCEPT !.pc = "standard", !.premium = c] OBVIOUS
  <2>2. seed' = [seed EXCEPT ![q] = u] BY <1>1, <1>12, <2>1
  <2>3. u \in Runs BY <1>2, <2>1, StepsAreNames DEF Runs
  <2>4. /\ u.pc = "standard" /\ u.count = r.count /\ u.afterSuccess = r.afterSuccess
        /\ u.venue = r.venue /\ u.seats = r.seats /\ u.made = r.made /\ u.premium = c
    BY <1>2, <2>1 DEF Runs
  <2>5. RunInv(r)' => RunInv(u)'
    BY <1>9, <1>12, <2>4
    DEF RunInv, RowsOf, SeatsOf, ShowsOf, WholeOf, EnoughOf, Filling
  <2> QED BY <1>1, <1>4, <1>6, <1>7, <1>10, <1>11, <2>2, <2>3, <2>4, <2>5, RunMovesOn
<1>13. ASSUME r.pc = "standard",
              seed' = [seed EXCEPT ![q].pc = "seats", ![q].standard = c]
       PROVE  SInv'
  <2>1. PICK u : u = [r EXCEPT !.pc = "seats", !.standard = c] OBVIOUS
  <2>2. seed' = [seed EXCEPT ![q] = u] BY <1>1, <1>13, <2>1
  <2>3. u \in Runs BY <1>2, <2>1, StepsAreNames DEF Runs
  <2>4. /\ u.pc = "seats" /\ u.count = r.count /\ u.afterSuccess = r.afterSuccess
        /\ u.venue = r.venue /\ u.seats = r.seats /\ u.made = r.made
        /\ u.premium = r.premium /\ u.standard = c
    BY <1>2, <2>1 DEF Runs
  <2>5. HouseSize' = HouseSize BY DEF HouseSize
  <2>6. RunInv(r)' => RunInv(u)'
    <3>1. RowsOf(r)' => RowsOf(u)' BY <1>9, <1>13, <2>4 DEF RowsOf, Filling
    <3>2. SeatsOf(u)'
      <4>1. r.seats = {} /\ r.count = 0
        BY <1>2, <1>13 DEF RunInv, RowsOf, SeatsOf
      <4>2. Cardinality({}) = 0 /\ 0 < HouseSize BY DemoHouse, FS_EmptySet
      <4> QED BY <2>4, <2>5, <4>1, <4>2 DEF SeatsOf, Filling
    <3>3. ShowsOf(r)' => ShowsOf(u)' BY <1>13, <2>4 DEF ShowsOf, Filling
    <3>4. WholeOf(u)' BY <2>4 DEF WholeOf, Filling
    <3>5. EnoughOf(r)' => EnoughOf(u)' BY <1>13, <2>4 DEF EnoughOf
    <3> QED BY <3>1, <3>2, <3>3, <3>4, <3>5 DEF RunInv
  <2> QED BY <1>1, <1>4, <1>6, <1>7, <1>10, <1>11, <2>2, <2>3, <2>4, <2>6, RunMovesOn
<1> QED BY <1>3, <1>12, <1>13

\* The next seat of the two loops is a row of seats.
LEMMA DemoSeatIsARow ==
  ASSUME SInv, NEW q \in Seeds, seed[q].pc = "seats"
  PROVE  DemoSeat(q) \in SeatRow /\ DemoSeat(q).venue = seed[q].venue
<1>1. PICK r : r = seed[q] OBVIOUS
<1>2. r \in Runs /\ RunInv(r) BY <1>1, ThisRun
<1>3. r.count \in Nat /\ r.count < Len(RowLabels) * Columns
  BY <1>1, <1>2 DEF RunInv, SeatsOf, HouseSize, Runs
<1>4. r.venue \in Venues /\ r.premium \in Categories /\ r.standard \in Categories
  BY <1>1, <1>2 DEF RunInv, RowsOf, SInv, OInv, CInv, TypeOK
<1> DEFINE d == r.count \div Columns
           c == (r.count % Columns) + 1
<1>5. d \in 0..(Len(RowLabels) - 1) /\ r.count % Columns \in 0..(Columns - 1)
  BY <1>3, RowOfSeat, DemoHouse, SeedAssumption
<1>6. d + 1 \in 1..Len(RowLabels) /\ d + 1 \in Nat /\ c \in Nat
  BY <1>5, DemoHouse, SeedAssumption
<1>7. DemoSeat(q) =
        [venue    |-> r.venue,
         category |-> IF d < PremiumRows THEN r.premium ELSE r.standard,
         label    |-> RowLabels[d + 1],
         number   |-> c, row |-> d + 1, col |-> c]
  BY <1>1 DEF DemoSeat
<1>8. RowLabels[d + 1] \in Labels BY <1>6, DemoHouse
<1> HIDE DEF d, c
<1> QED BY <1>1, <1>4, <1>6, <1>7, <1>8 DEF SeatRow

\* One more seat.
LEMMA OneSeatKeepsCInv ==
  ASSUME CInv, NEW x \in SeatRow,
         seats' = seats \cup {x},
         UNCHANGED <<venues, category, event, show, prices, showSeats, publication>>
  PROVE  CInv'
<1>1. TypeOK' BY DEF CInv, TypeOK
<1>2. SeatsAreFinite' BY FS_AddElement DEF CInv, SeatsAreFinite
<1>3. SeatMapsAreOfTheirVenue' /\ AnswersStayTrue'
  BY SeatMapsStayTheirs, AnswersUntouched DEF CInv
<1> QED BY <1>1, <1>2, <1>3 DEF CInv

LEMMA InsertSeatKeepsSInv ==
  ASSUME SInv, NEW q \in Seeds, InsertSeat(q)
  PROVE  SInv'
<1>1. PICK r : r = seed[q] OBVIOUS
<1>2. PICK x : x = DemoSeat(q) OBVIOUS
<1>3. r \in Runs /\ RunInv(r) /\ r.pc = "seats" BY <1>1, ThisRun DEF InsertSeat
<1>4. x \in SeatRow /\ x.venue = r.venue BY <1>1, <1>2, <1>3, DemoSeatIsARow
<1>5. /\ seats' = seats \cup {x} /\ \A y \in seats : ~ Collide(y, x)
      /\ UNCHANGED <<venues, category, event, show, prices, showSeats, publication>>
      /\ EventsAlone /\ Meanwhile /\ UNCHANGED <<users, demoVenues>>
  BY <1>2 DEF InsertSeat, SeatTaken
<1>6. CInv /\ CInv' BY <1>4, <1>5, OneSeatKeepsCInv DEF SInv, OInv
<1>7. OInv' BY <1>5, <1>6, EventsUntouched DEF SInv, EventsAlone
<1>8. LInv' BY <1>5, <1>6, MeanwhileNoEventChanges DEF SInv, EventsAlone
<1>9. TablesGrow BY <1>5 DEF TablesGrow, EventsAlone
<1>10. demoVenues' \subseteq venues' BY <1>5 DEF SInv
<1> DEFINE pc == IF r.count + 1 = HouseSize THEN "event" ELSE "seats"
           count == IF r.count + 1 = HouseSize THEN 0 ELSE r.count + 1
<1>11. PICK u : u = [r EXCEPT !.seats = @ \cup {x}, !.pc = pc, !.count = count]
  OBVIOUS
<1>12. seed' = [seed EXCEPT ![q] = u]
  <2>1. seed' = [seed EXCEPT ![q].seats = @ \cup {x}, ![q].pc = pc, ![q].count = count]
    BY <1>1, <1>2, <1>3 DEF InsertSeat
  <2> HIDE DEF pc, count
  <2> QED BY <1>1, <1>11, <2>1
<1>13. /\ r.count \in Nat /\ r.count < HouseSize /\ r.count = Cardinality(r.seats)
       /\ r.seats \in SUBSET seats /\ HouseSize \in Nat
  BY <1>3, DemoHouse DEF RunInv, SeatsOf, Runs
<1>14. pc \in {"event", "seats"} /\ count \in Nat BY <1>13
<1>15. u \in Runs /\ u.seats = r.seats \cup {x} /\ u.pc = pc /\ u.count = count
       /\ u.afterSuccess = r.afterSuccess /\ u.venue = r.venue /\ u.made = r.made
       /\ u.premium = r.premium /\ u.standard = r.standard
  <2>1. pc \in {Steps[k] : k \in DOMAIN Steps} \cup Ended \cup {"idle"}
    BY <1>14, StepsAreNames
  <2> HIDE DEF pc, count
  <2> QED BY <1>3, <1>4, <1>11, <1>14, <2>1 DEF Runs
<1>16. Cardinality(u.seats) = r.count + 1
  <2>1. x \notin r.seats BY <1>5, <1>13 DEF Collide
  <2>2. IsFiniteSet(r.seats) BY <1>6, <1>13, FS_Subset DEF CInv, SeatsAreFinite
  <2>3. Cardinality(r.seats \cup {x}) = Cardinality(r.seats) + 1
    BY <2>1, <2>2, FS_AddElement
  <2> QED BY <1>13, <1>15, <2>3
<1>17. RunInv(r)' => RunInv(u)'
  <2>1. RowsOf(r)' => RowsOf(u)' BY <1>3, <1>14, <1>15 DEF RowsOf, Filling
  <2>2. SeatsOf(r)' => SeatsOf(u)'
    <3>1. HouseSize' = HouseSize BY DEF HouseSize
    <3>2. u.pc = "seats" => u.count = Cardinality(u.seats) /\ u.count < HouseSize
      BY <1>13, <1>15, <1>16
    <3>3. u.pc \in Filling => Cardinality(u.seats) = HouseSize
      BY <1>13, <1>15, <1>16 DEF Filling
    <3>4. u.pc \in {"event", "seats"} BY <1>14, <1>15
    <3>5. SeatsOf(r)' => \A y \in u.seats : y \in seats' /\ y.venue = u.venue
      BY <1>4, <1>5, <1>15 DEF SeatsOf
    <3> QED BY <3>1, <3>2, <3>3, <3>4, <3>5 DEF SeatsOf
  <2>3. ShowsOf(r)' => ShowsOf(u)' BY <1>3, <1>14, <1>15 DEF ShowsOf, Filling
  <2>4. ShowsOf(r)' => WholeOf(u)'
    <3>1. ShowsOf(r)' => u.made = {} BY <1>3, <1>15 DEF ShowsOf, Filling
    <3>2. u.pc \in Filling => u.pc = "event" /\ u.count = 0 BY <1>15 DEF Filling
    <3> QED BY <3>1, <3>2, FS_EmptySet DEF WholeOf, Whole
  <2>5. EnoughOf(r)' => EnoughOf(u)' BY <1>3, <1>14, <1>15 DEF EnoughOf
  <2> QED BY <2>1, <2>2, <2>3, <2>4, <2>5 DEF RunInv
<1> QED BY <1>1, <1>5, <1>7, <1>8, <1>9, <1>10, <1>12, <1>15, <1>17, RunMovesOn

LEMMA InsertDemoEventKeepsSInv ==
  ASSUME SInv, NEW q \in Seeds, InsertDemoEvent(q)
  PROVE  SInv'
<1>1. PICK r : r = seed[q] OBVIOUS
<1>2. r \in Runs /\ RunInv(r) /\ r.pc = "event" BY <1>1, ThisRun DEF InsertDemoEvent
<1>3. PICK e \in Events :
        /\ event[e] = "none"
        /\ event' = [event EXCEPT ![e] = "published"]
        /\ EventRow(DemoOrganiser, e, NoText)
        /\ For(DemoOrganiser, e)
        /\ seed' = [seed EXCEPT ![q].pc = "show", ![q].event = e]
  BY DEF InsertDemoEvent
<1>4. /\ UNCHANGED <<venues, category, seats, show, prices, showSeats, publication, caller>>
      /\ Meanwhile /\ UNCHANGED <<users, demoVenues>>
  BY DEF InsertDemoEvent
<1>5. /\ event \in [Events -> {"none", "draft", "published"}]
      /\ organiser \in [Events -> People \cup {NULL}]
  BY DEF SInv, OInv, CInv, TypeOK
<1>6. event' \in [Events -> {"none", "draft", "published"}] BY <1>3, <1>5
<1>7. CInv /\ CInv' BY <1>4, <1>6, EventsKeepCInv DEF SInv, OInv
<1>8. DemoOrganiser \in People /\ NoText \in Texts
  BY SeedAssumption, OrganisersAssumption
<1>9. OInv' BY <1>3, <1>4, <1>7, <1>8, NewEventsKeepOInv DEF SInv
<1>10. LInv' BY <1>3, <1>4, <1>7, MeanwhileAnEventIsAdded DEF SInv
<1>11. /\ event'[e] # "none" /\ organiser'[e] = DemoOrganiser
       /\ \A f \in Events : event[f] # "none" =>
            event'[f] # "none" /\ organiser'[f] = organiser[f]
  BY <1>3, <1>5 DEF EventRow
<1>12. TablesGrow BY <1>4, <1>11 DEF TablesGrow
<1>13. PICK u : u = [r EXCEPT !.pc = "show", !.event = e] OBVIOUS
<1>14. seed' = [seed EXCEPT ![q] = u] BY <1>1, <1>3, <1>13
<1>15. u \in Runs BY <1>2, <1>13, StepsAreNames DEF Runs
<1>16. /\ u.pc = "show" /\ u.event = e /\ u.count = r.count /\ u.made = r.made
       /\ u.afterSuccess = r.afterSuccess /\ u.venue = r.venue /\ u.seats = r.seats
       /\ u.premium = r.premium /\ u.standard = r.standard
  BY <1>2, <1>13 DEF Runs
<1>17. RunInv(r)' => RunInv(u)'
  <2>1. RowsOf(r)' => RowsOf(u)' BY <1>2, <1>11, <1>16 DEF RowsOf, Filling
  <2>2. SeatsOf(r)' => SeatsOf(u)' BY <1>2, <1>16 DEF SeatsOf, Filling, HouseSize
  <2>3. ShowsOf(r)' => ShowsOf(u)' BY <1>2, <1>16 DEF ShowsOf, Filling
  <2>4. WholeOf(r)' => WholeOf(u)' BY <1>2, <1>16 DEF WholeOf, Whole, Filling
  <2>5. EnoughOf(r)' => EnoughOf(u)' BY <1>2, <1>16 DEF EnoughOf
  <2> QED BY <2>1, <2>2, <2>3, <2>4, <2>5 DEF RunInv
<1>18. demoVenues' \subseteq venues' BY <1>4 DEF SInv
<1> QED
  BY <1>1, <1>4, <1>9, <1>10, <1>12, <1>14, <1>15, <1>16, <1>17, <1>18, RunMovesOn

\* No seat map is there before its show.
LEMMA InsertDemoShowKeepsSInv ==
  ASSUME SInv, NEW q \in Seeds, InsertDemoShow(q)
  PROVE  SInv'
<1>1. PICK r : r = seed[q] OBVIOUS
<1>2. r \in Runs /\ RunInv(r) /\ r.pc = "show" BY <1>1, ThisRun DEF InsertDemoShow
<1>3. PICK e, v : e = r.event /\ v = r.venue OBVIOUS
<1>4. /\ e \in Events /\ event[e] # "none" /\ organiser[e] = DemoOrganiser
      /\ v \in Venues
  BY <1>2, <1>3 DEF RunInv, RowsOf, Filling, SInv, OInv, CInv, TypeOK
<1>5. PICK s \in Shows :
        /\ show[s] = NULL
        /\ show' = [show EXCEPT ![s] = ShowRow(e, v)]
        /\ seed' = [seed EXCEPT ![q].pc = "prices", ![q].show = s, ![q].made = @ \cup {s}]
  BY <1>1, <1>3 DEF InsertDemoShow
<1>6. /\ UNCHANGED <<venues, category, seats, event, prices, showSeats, publication>>
      /\ EventsAlone /\ Meanwhile /\ UNCHANGED <<users, demoVenues>>
  BY DEF InsertDemoShow
<1>7. /\ CInv /\ prices' \subseteq Shows \X Categories
      /\ show \in [Shows -> [event: Events, venue: Venues] \cup {NULL}]
  BY <1>6 DEF SInv, OInv, CInv, TypeOK
<1>8. CInv' BY <1>4, <1>5, <1>6, <1>7, ShowsKeepCInv
<1>9. OInv' BY <1>4, <1>5, <1>6, <1>8, NewShowsKeepOInv DEF SInv, EventsAlone
<1>10. \A z \in Shows : show[z] # NULL => show'[z] = show[z] BY <1>5, <1>7
<1>11. LInv' BY <1>6, <1>7, <1>10, MeanwhileNoEventChanges DEF SInv, EventsAlone
<1>12. TablesGrow BY <1>6, <1>10 DEF TablesGrow, EventsAlone
<1>13. \A z : MapIsWhole(z) BY <1>6 DEF MapIsWhole
<1>14. PICK u : u = [r EXCEPT !.pc = "prices", !.show = s, !.made = @ \cup {s}] OBVIOUS
<1>15. seed' = [seed EXCEPT ![q] = u] BY <1>1, <1>5, <1>14
<1>16. u \in Runs BY <1>2, <1>5, <1>14, StepsAreNames DEF Runs
<1>17. /\ u.pc = "prices" /\ u.show = s /\ u.made = r.made \cup {s} /\ u.count = r.count
       /\ u.afterSuccess = r.afterSuccess /\ u.venue = r.venue /\ u.seats = r.seats
       /\ u.premium = r.premium /\ u.standard = r.standard
  BY <1>2, <1>14 DEF Runs
<1>18. s \notin r.made BY <1>2, <1>5 DEF RunInv, ShowsOf
<1>19. showSeats[s] = {} BY <1>5, <1>7 DEF CInv, SeatMapsAreOfTheirVenue
<1>20. RunInv(r)' BY <1>2, <1>12, <1>13, RunKept DEF SInv
<1>21. RunInv(u)'
  <2>1. RowsOf(u)' BY <1>2, <1>17, <1>20 DEF RunInv, RowsOf, Filling
  <2>2. SeatsOf(u)' BY <1>2, <1>17, <1>20 DEF RunInv, SeatsOf, Filling, HouseSize
  <2>3. ShowsOf(u)'
    <3>1. IsFiniteSet(u.made)
      BY <1>2, <1>17, FS_AddElement DEF RunInv, ShowsOf
    <3>2. show'[s] = ShowRow(e, v) /\ ShowRow(e, v) # NULL
      BY <1>4, <1>5, <1>7, NullIsNoRow DEF ShowRow
    <3>3. show'[s].venue = u.venue /\ organiser'[show'[s].event] = DemoOrganiser
      BY <1>3, <1>4, <1>6, <1>17, <3>2 DEF ShowRow, EventsAlone
    <3>4. \A z \in r.made : /\ show'[z] # NULL /\ show'[z].venue = r.venue
                            /\ organiser'[show'[z].event] = DemoOrganiser
      BY <1>20 DEF RunInv, ShowsOf
    <3>5. showSeats'[u.show] = {} BY <1>6, <1>17, <1>19
    <3> QED BY <1>17, <3>1, <3>2, <3>3, <3>4, <3>5 DEF ShowsOf, Filling
  <2>4. WholeOf(u)'
    <3>1. Whole(u) = r.made /\ Whole(r) = r.made BY <1>2, <1>17, <1>18 DEF Whole
    <3> QED BY <1>2, <1>17, <1>20, <3>1 DEF RunInv, WholeOf, Whole, Filling
  <2>5. EnoughOf(u)' BY <1>2, <1>17, <1>20 DEF RunInv, EnoughOf
  <2> QED BY <2>1, <2>2, <2>3, <2>4, <2>5 DEF RunInv
<1>22. /\ r.made \subseteq u.made
       /\ \A z \in u.made : z \in r.made \/ show[z] = NULL
       /\ \A z \in Shows : show'[z] # NULL => show[z] # NULL \/ z \in u.made
       /\ \A z \in Shows \ r.made : MapIsWhole(z)
       /\ \A price \in prices' :
            price \in prices \/ (show[price[1]] # NULL /\ category[price[2]] # NULL)
  BY <1>5, <1>6, <1>7, <1>13, <1>17
<1>23. /\ demoVenues' \subseteq venues'
       /\ users' \subseteq {DemoUsers[k] : k \in DOMAIN DemoUsers}
  BY <1>6 DEF SInv
<1> QED BY <1>1, <1>9, <1>11, <1>12, <1>15, <1>16, <1>21, <1>22, <1>23, RunMoves

LEMMA InsertDemoPricesKeepsSInv ==
  ASSUME SInv, NEW q \in Seeds, InsertDemoPrices(q)
  PROVE  SInv'
<1>1. PICK r : r = seed[q] OBVIOUS
<1>2. r \in Runs /\ RunInv(r) /\ r.pc = "prices" BY <1>1, ThisRun DEF InsertDemoPrices
<1>3. PICK s, priced : s = r.show /\ priced = {r.premium, r.standard} OBVIOUS
<1>4. /\ s \in Shows /\ s \in r.made /\ show[s] # NULL
      /\ priced \subseteq Categories /\ \A c \in priced : category[c] # NULL
  BY <1>2, <1>3 DEF RunInv, RowsOf, ShowsOf, Filling, Runs
<1>5. /\ prices' = prices \cup PriceRows(s, priced)
      /\ seed' = [seed EXCEPT ![q].pc = "seatmap"]
      /\ UNCHANGED <<venues, category, seats, event, show, showSeats, publication>>
      /\ EventsAlone /\ Meanwhile /\ UNCHANGED <<users, demoVenues>>
  BY <1>1, <1>3 DEF InsertDemoPrices
<1>6. CInv /\ prices' \subseteq Shows \X Categories
  BY <1>4, <1>5 DEF SInv, OInv, CInv, TypeOK, PriceRows
<1>7. CInv'
  <2>1. PICK e \in Events, v \in Venues : show[s] = [event |-> e, venue |-> v]
    BY <1>4, <1>6 DEF CInv, TypeOK
  <2> QED BY <1>4, <1>5, <1>6, ShowsKeepCInv
<1>8. OInv' BY <1>5, <1>7, EventsUntouched DEF SInv, EventsAlone
<1>9. LInv' BY <1>5, <1>6, MeanwhileNoEventChanges DEF SInv, EventsAlone
<1>10. TablesGrow BY <1>5 DEF TablesGrow, EventsAlone
<1>11. PICK u : u = [r EXCEPT !.pc = "seatmap"] OBVIOUS
<1>12. seed' = [seed EXCEPT ![q] = u] BY <1>1, <1>5, <1>11
<1>13. u \in Runs BY <1>2, <1>11, StepsAreNames DEF Runs
<1>14. /\ u.pc = "seatmap" /\ u.show = s /\ u.made = r.made /\ u.count = r.count
       /\ u.afterSuccess = r.afterSuccess /\ u.venue = r.venue /\ u.seats = r.seats
       /\ u.premium = r.premium /\ u.standard = r.standard
  BY <1>2, <1>3, <1>11 DEF Runs
<1>15. RunInv(r)' => RunInv(u)'
  <2>1. RowsOf(r)' => RowsOf(u)' BY <1>2, <1>14 DEF RowsOf, Filling
  <2>2. SeatsOf(r)' => SeatsOf(u)' BY <1>2, <1>14 DEF SeatsOf, Filling, HouseSize
  <2>3. ShowsOf(r)' => ShowsOf(u)'
    BY <1>2, <1>3, <1>5, <1>14 DEF ShowsOf, Filling
  <2>4. WholeOf(r)' => WholeOf(u)'
    <3>1. Whole(u) = Whole(r) BY <1>2, <1>3, <1>14 DEF Whole
    <3> QED BY <1>2, <1>14, <3>1 DEF WholeOf, Whole, Filling
  <2>5. EnoughOf(r)' => EnoughOf(u)' BY <1>2, <1>14 DEF EnoughOf
  <2> QED BY <2>1, <2>2, <2>3, <2>4, <2>5 DEF RunInv
<1>16. \A price \in prices' :
         price \in prices \/ (show[price[1]] # NULL /\ category[price[2]] # NULL)
  BY <1>4, <1>5 DEF PriceRows
<1>17. demoVenues' \subseteq venues' BY <1>5 DEF SInv
<1>18. UNCHANGED <<show, showSeats>> /\ UNCHANGED users BY <1>5
<1> QED
  BY <1>1, <1>8, <1>9, <1>10, <1>12, <1>13, <1>14, <1>15, <1>16, <1>17, <1>18, RunMovesOn

\* The first seats of a show, whoever inserts them.
LEMMA FirstSeatsKeepCInv ==
  ASSUME CInv, NEW s \in Shows, show[s] # NULL, showSeats[s] = {},
         NEW new \in SUBSET VenueSeats(s), showSeats' = [showSeats EXCEPT ![s] = new],
         UNCHANGED <<venues, category, seats, event, show, prices, publication>>
  PROVE  CInv'
<1>1. showSeats'[s] = new /\ \A z \in Shows : z # s => showSeats'[z] = showSeats[z]
  BY DEF CInv, TypeOK
<1>2. \A x \in new : x \in seats /\ x.venue = show[s].venue BY DEF VenueSeats
<1>3. TypeOK' BY <1>2 DEF CInv, TypeOK
<1>4. SeatsAreFinite' BY DEF CInv, SeatsAreFinite
<1>5. SeatMapsAreOfTheirVenue'
  BY <1>1, <1>2 DEF CInv, SeatMapsAreOfTheirVenue
<1>6. AnswersStayTrue'
  <2>1. ASSUME NEW p \in Publications,
               \/ publication[p].pc = "conflict"
               \/ publication[p].pc = "ok" /\ publication[p].seatCount > 0
        PROVE  publication[p].show \in Shows /\ publication[p].show # s
    <3>1. publication[p].show \in Shows
      BY <2>1 DEF CInv, TypeOK, PublicationStates
    <3>2. ASSUME publication[p].show = s PROVE FALSE
      <4>1. CASE publication[p].pc = "conflict"
        BY <3>2, <4>1 DEF CInv, AnswersStayTrue
      <4>2. CASE publication[p].pc = "ok" /\ publication[p].seatCount > 0
        <5>1. publication[p].seatCount = Cardinality({})
          BY <3>2, <4>2 DEF CInv, AnswersStayTrue
        <5> QED BY <4>2, <5>1, FS_EmptySet
      <4> QED BY <2>1, <4>1, <4>2
    <3> QED BY <3>1, <3>2
  <2> QED BY <1>1, <2>1 DEF CInv, AnswersStayTrue
<1> QED BY <1>3, <1>4, <1>5, <1>6 DEF CInv

\* Nobody was faster: the organiser's seat map would have the run's seats.
LEMMA NobodyWasFaster ==
  ASSUME SInv, NEW q \in Seeds, InsertDemoShowSeats(q),
         NEW r, r = seed[q], NEW s, s = r.show
  PROVE  /\ s \in Shows /\ s \in r.made /\ r.made \subseteq Shows
         /\ show[s] # NULL /\ show[s].venue = r.venue
         /\ PriceRows(s, {r.premium, r.standard}) \subseteq prices
         /\ r.seats \in SUBSET VenueSeats(s) /\ r.seats # {}
         /\ showSeats[s] = {}
<1>1. r \in Runs /\ RunInv(r) /\ r.pc = "seatmap" BY ThisRun DEF InsertDemoShowSeats
<1>2. r.seats # {} BY <1>1, DemoHouse, FS_EmptySet DEF RunInv, SeatsOf, Filling
<1>3. s \in r.made /\ r.made \subseteq Shows BY <1>1 DEF RunInv, ShowsOf, Runs
<1>4. show[s] # NULL /\ show[s].venue = r.venue BY <1>1, <1>3 DEF RunInv, ShowsOf
<1>5. r.seats \subseteq VenueSeats(s) BY <1>1, <1>4 DEF RunInv, SeatsOf, VenueSeats
<1>6. showSeats[s] = {} \/ r.seats \subseteq showSeats[s] BY <1>1 DEF RunInv, ShowsOf
<1>7. showSeats[s] \cap r.seats = {} BY DEF InsertDemoShowSeats, SeatMapTaken
<1>8. PriceRows(s, {r.premium, r.standard}) \subseteq prices
  BY <1>1 DEF RunInv, ShowsOf
<1> QED BY <1>2, <1>3, <1>4, <1>5, <1>6, <1>7, <1>8

LEMMA InsertDemoShowSeatsKeepsSInv ==
  ASSUME SInv, NEW q \in Seeds, InsertDemoShowSeats(q)
  PROVE  SInv'
<1>1. PICK r : r = seed[q] OBVIOUS
<1>2. r \in Runs /\ RunInv(r) /\ r.pc = "seatmap"
  BY <1>1, ThisRun DEF InsertDemoShowSeats
<1>3. PICK s : s = r.show OBVIOUS
<1>4. /\ s \in Shows /\ s \in r.made /\ r.made \subseteq Shows
      /\ show[s] # NULL /\ show[s].venue = r.venue
      /\ PriceRows(s, {r.premium, r.standard}) \subseteq prices
      /\ r.seats \in SUBSET VenueSeats(s) /\ r.seats # {}
  BY <1>1, <1>3, NobodyWasFaster
<1>5. showSeats[s] = {} BY <1>1, <1>3, NobodyWasFaster
<1>6. /\ showSeats' = [showSeats EXCEPT ![s] = r.seats]
      /\ UNCHANGED <<venues, category, seats, event, show, prices, publication>>
      /\ EventsAlone /\ Meanwhile /\ UNCHANGED <<users, demoVenues>>
  BY <1>1, <1>3, <1>5 DEF InsertDemoShowSeats
<1>7. CInv /\ CInv' BY <1>4, <1>5, <1>6, FirstSeatsKeepCInv DEF SInv, OInv
<1>8. OInv' BY <1>6, <1>7, EventsUntouched DEF SInv, EventsAlone
<1>9. LInv' BY <1>6, <1>7, MeanwhileNoEventChanges DEF SInv, EventsAlone
<1>10. showSeats'[s] = r.seats /\ \A z \in Shows : z # s => showSeats'[z] = showSeats[z]
  BY <1>4, <1>6, <1>7 DEF CInv, TypeOK
<1>11. TablesGrow BY <1>5, <1>6, <1>10 DEF TablesGrow, EventsAlone
<1> DEFINE pc == IF r.count + 1 = DemoEvents THEN "done" ELSE "event"
<1>12. PICK u : u = [r EXCEPT !.pc = pc, !.count = @ + 1] OBVIOUS
<1>13. seed' = [seed EXCEPT ![q] = u]
  BY <1>1, <1>12 DEF InsertDemoShowSeats
<1>14. /\ u \in Runs /\ u.pc = pc /\ u.count = r.count + 1 /\ u.made = r.made
       /\ u.afterSuccess = r.afterSuccess /\ u.venue = r.venue /\ u.seats = r.seats
       /\ u.premium = r.premium /\ u.standard = r.standard
  <2>1. pc \in {Steps[k] : k \in DOMAIN Steps} \cup Ended \cup {"idle"}
    BY StepsAreNames
  <2>2. r.count + 1 \in Nat BY <1>2 DEF Runs
  <2> HIDE DEF pc
  <2>3. PICK count \in Nat : count = r.count + 1 BY <2>2
  <2>4. u = [r EXCEPT !.pc = pc, !.count = count] BY <1>12, <2>3
  <2> QED BY <1>2, <2>1, <2>3, <2>4 DEF Runs
<1>15. /\ u.pc \in {"done", "event"} /\ Whole(u) = r.made /\ Whole(r) = r.made \ {s}
       /\ u.pc = "done" => u.count = DemoEvents
  BY <1>2, <1>3, <1>14 DEF Whole
<1> HIDE DEF pc
<1>16. RunInv(u)'
  <2>1. RowsOf(u)' BY <1>2, <1>6, <1>14, <1>15 DEF RunInv, RowsOf, Filling
  <2>2. SeatsOf(u)' BY <1>2, <1>6, <1>14, <1>15 DEF RunInv, SeatsOf, Filling, HouseSize
  <2>3. ShowsOf(u)'
    BY <1>2, <1>6, <1>14, <1>15 DEF RunInv, ShowsOf, Filling, EventsAlone
  <2>4. WholeOf(u)'
    <3>1. r.count = Cardinality(r.made \ {s}) /\ r.count \in Nat /\ IsFiniteSet(r.made)
      BY <1>2, <1>15 DEF RunInv, WholeOf, ShowsOf, Filling, Runs
    <3>2. Cardinality(r.made \ {s}) = Cardinality(r.made) - 1
      BY <1>4, <3>1, FS_RemoveElement
    <3>3. u.count = Cardinality(r.made)
      <4>1. Cardinality(r.made) \in Nat BY <3>1, FS_CardinalityType
      <4> QED BY <1>14, <3>1, <3>2, <4>1
    <3>4. ASSUME NEW z \in r.made
          PROVE  /\ PriceRows(z, {r.premium, r.standard}) \subseteq prices
                 /\ showSeats'[z] = r.seats
      <4>1. CASE z = s BY <1>4, <1>10, <4>1
      <4>2. CASE z # s
        BY <1>2, <1>4, <1>10, <1>15, <4>2 DEF RunInv, WholeOf, Filling
      <4> QED BY <4>1, <4>2
    <3> QED BY <1>6, <1>14, <1>15, <3>3, <3>4 DEF WholeOf, Whole, PriceRows
  <2>5. EnoughOf(u)'
    BY <1>2, <1>6, <1>14, <1>15 DEF RunInv, RowsOf, EnoughOf, Filling
  <2> QED BY <2>1, <2>2, <2>3, <2>4, <2>5 DEF RunInv
<1>17. \A z \in Shows \ r.made : MapIsWhole(z)
  BY <1>4, <1>10 DEF MapIsWhole
<1>18. /\ \A z \in u.made : z \in r.made \/ show[z] = NULL
       /\ \A z \in Shows : show'[z] # NULL => show[z] # NULL \/ z \in u.made
       /\ \A price \in prices' :
            price \in prices \/ (show[price[1]] # NULL /\ category[price[2]] # NULL)
  BY <1>6, <1>14
<1>19. /\ demoVenues' \subseteq venues'
       /\ users' \subseteq {DemoUsers[k] : k \in DOMAIN DemoUsers}
  BY <1>6 DEF SInv
<1> QED
  BY <1>1, <1>8, <1>9, <1>11, <1>13, <1>14, <1>16, <1>17, <1>18, <1>19, RunMoves

\* A run writes to no show but those it makes.
LEMMA RunsLeaveOtherShowsAlone ==
  ASSUME SInv, NEW q \in Seeds, RunSeed(q)
  PROVE  /\ Shows \ Demos' \subseteq Shows \ Demos
         /\ \A s \in Shows \ Demos' :
              show'[s] = show[s] /\ showSeats'[s] = showSeats[s]
<1>1. seed \in [Seeds -> Runs] /\ TypeOK BY DEF SInv, OInv, CInv
<1>2. CASE InsertDemoShow(q)
  <2>1. PICK s \in Shows :
          /\ show' = [show EXCEPT ![s] = ShowRow(seed[q].event, seed[q].venue)]
          /\ seed' = [seed EXCEPT ![q].pc = "prices", ![q].show = s,
                                  ![q].made = @ \cup {s}]
    BY <1>2 DEF InsertDemoShow
  <2>2. seed'[q].made = seed[q].made \cup {s} /\ \A p \in Seeds \ {q} : seed'[p] = seed[p]
    BY <1>1, <2>1 DEF Runs
  <2>3. Demos \subseteq Demos' /\ s \in Demos' BY <2>2 DEF Demos
  <2>4. UNCHANGED showSeats BY <1>2 DEF InsertDemoShow
  <2> QED BY <1>1, <2>1, <2>3, <2>4 DEF TypeOK
<1>3. CASE ~ InsertDemoShow(q)
  <2>1. UNCHANGED show /\ \A p \in Seeds : seed'[p].made = seed[p].made
    BY <1>1, <1>3
    DEF RunSeed, organisersVars, vars, StartSeed, InsertUser, CheckVenue, InsertVenue,
        CreateVenue, InsertDemoCategory, CreateCategory, InsertSeat, InsertDemoEvent,
        InsertDemoPrices, InsertDemoShowSeats, FailSeed, CrashSeed, To, Runs
  <2>2. Demos' = Demos BY <2>1 DEF Demos
  <2>3. CASE InsertDemoShowSeats(q)
    <3>1. PICK z : z = seed[q].show OBVIOUS
    <3>2. PICK r : r = seed[q] OBVIOUS
    <3>3. z \in r.made BY <2>3, <3>1, <3>2, NobodyWasFaster
    <3>4. z \in Demos BY <3>2, <3>3 DEF Demos
    <3>5. showSeats' = [showSeats EXCEPT ![z] = @ \cup seed[q].seats]
      BY <2>3, <3>1 DEF InsertDemoShowSeats
    <3> QED BY <1>1, <2>1, <2>2, <3>4, <3>5 DEF TypeOK
  <2>4. CASE UNCHANGED showSeats BY <2>1, <2>2, <2>4
  <2>5. UNCHANGED showSeats \/ InsertDemoShowSeats(q)
    BY <1>3
    DEF RunSeed, organisersVars, vars, StartSeed, InsertUser, CheckVenue, InsertVenue,
        CreateVenue, InsertDemoCategory, CreateCategory, InsertSeat, InsertDemoEvent,
        InsertDemoPrices, FailSeed, CrashSeed
  <2> QED BY <2>3, <2>4, <2>5
<1> QED BY <1>2, <1>3

-----------------------------------------------------------------------------
(* The theorems.                                                           *)

LEMMA InitSInv == SeedInit => SInv
<1> SUFFICES ASSUME SeedInit PROVE SInv
  OBVIOUS
<1>1. OInv /\ LInv BY InitOInv, InitLInv DEF SeedInit
<1>2. NotStarted \in Runs
  BY StepsAreNames DEF NotStarted, Runs
<1>3. RunInv(NotStarted)
  BY FS_EmptySet
  DEF NotStarted, RunInv, RowsOf, SeatsOf, ShowsOf, WholeOf, EnoughOf, Filling
<1>4. EachRun /\ MadeOnce /\ seed \in [Seeds -> Runs]
  BY <1>2, <1>3 DEF SeedInit, EachRun, MadeOnce, NotStarted
<1>5. CreatedShowsComeWithPrices
  BY DEF SeedInit, OrganisersInit, Init, CreatedShowsComeWithPrices
<1> QED BY <1>1, <1>4, <1>5 DEF SInv, SeedInit

LEMMA NextSInv ==
  ASSUME SInv, [SeedNext]_catalogueVars
  PROVE  SInv'
<1>1. ASSUME NEW q \in Seeds, RunSeed(q) PROVE SInv'
  BY <1>1, StartSeedKeepsSInv, InsertUserKeepsSInv, InsertVenueKeepsSInv,
     InsertDemoCategoryKeepsSInv, InsertSeatKeepsSInv, InsertDemoEventKeepsSInv,
     InsertDemoShowKeepsSInv, InsertDemoPricesKeepsSInv, InsertDemoShowSeatsKeepsSInv,
     EndingsKeepSInv
  DEF RunSeed
<1>2. CASE OrganisersNext /\ Named /\ UNCHANGED <<seed, users>>
  BY <1>2, CatalogueKeepsSInv
<1>3. CASE UNCHANGED catalogueVars
  BY <1>3, CatalogueKeepsSInv DEF catalogueVars, seedVars, Named
<1> QED BY <1>1, <1>2, <1>3 DEF SeedNext

LEMMA AlwaysSInv == SeedSpec => []SInv
BY InitSInv, NextSInv, PTL DEF SeedSpec

\* Every run, and every row it writes, keeps its shape (seed.js).
THEOREM SeedTypeCorrect == SeedSpec => []SeedTypeOK
<1>1. SInv => SeedTypeOK
  BY DEF SInv, OInv, LInv, CInv, CreatedInOrder, OrganisersTypeOK, SeedTypeOK
<1> QED BY <1>1, AlwaysSInv, PTL

\* "Still idempotent" (seed.js), for any number of runs that overlap, follow each
\* other or die, and whoever names a venue after the demo venue meanwhile.
THEOREM OneSeedingIsEnough == SeedSpec => []SeedingAgainAddsNothing
<1>1. SInv => SeedingAgainAddsNothing
  <2> SUFFICES ASSUME SInv, NEW q \in Seeds, seed[q].afterSuccess
               PROVE  seed[q].pc \in {"users", "check", "skipped", "crashed"}
                      /\ seed[q].venue = NULL
    BY DEF SeedingAgainAddsNothing
  <2>1. PICK r : r = seed[q] OBVIOUS
  <2>2. RunInv(r) BY <2>1, ThisRun
  <2> QED BY <2>1, <2>2 DEF RunInv, EnoughOf
<1> QED BY <1>1, AlwaysSInv, PTL

\* A run that ended well has left its shows whole, for any size of the demo
\* catalogue: their seat maps are the run's own seats, whoever published them or
\* added seats to the venue meanwhile (seedDemoCatalogue).
THEOREM SeedingsEndWhole == SeedSpec => []SeededShowsAreWhole
<1>1. SInv => SeededShowsAreWhole
  <2> SUFFICES ASSUME SInv, NEW q \in Seeds, seed[q].pc = "done"
               PROVE
        /\ Cardinality(seed[q].made) = DemoEvents
        /\ Cardinality(seed[q].seats) = HouseSize
        /\ \A s \in seed[q].made :
             /\ event[show[s].event] # "none" /\ organiser[show[s].event] = DemoOrganiser
             /\ PriceRows(s, {seed[q].premium, seed[q].standard}) \subseteq prices
             /\ showSeats[s] = seed[q].seats
    BY DEF SeededShowsAreWhole
  <2>1. PICK r : r = seed[q] OBVIOUS
  <2>2. r \in Runs /\ RunInv(r) /\ r.pc = "done" BY <2>1, ThisRun
  <2>3. Whole(r) = r.made BY <2>2 DEF Whole
  <2>4. /\ Cardinality(r.made) = DemoEvents /\ Cardinality(r.seats) = HouseSize
        /\ \A s \in r.made :
             /\ PriceRows(s, {r.premium, r.standard}) \subseteq prices
             /\ showSeats[s] = r.seats
    BY <2>2, <2>3 DEF RunInv, SeatsOf, WholeOf, Filling
  <2>5. \A s \in r.made :
          event[show[s].event] # "none" /\ organiser[show[s].event] = DemoOrganiser
    BY <2>2 DEF RunInv, ShowsOf, Runs, SInv, OInv, ShowsHaveEvents
  <2> QED BY <2>1, <2>4, <2>5
<1> QED BY <1>1, AlwaysSInv, PTL

\* No show but a seeded one is ever without prices, and no price without its show
\* and its category (createShow's transaction).
THEOREM OnlySeedingsLeaveShowsUnpriced == SeedSpec => []CreatedShowsComeWithPrices
<1>1. SInv => CreatedShowsComeWithPrices BY DEF SInv
<1> QED BY <1>1, AlwaysSInv, PTL

\* What holds of the catalogue holds with seedings under way: the answers of
\* publications stay true and seat maps are of their venue (publishShow,
\* materialiseShowSeats, seedDemoCatalogue).
THEOREM SeededCatalogueIsSound == SeedSpec => [](AnswersStayTrue /\ SeatMapsAreOfTheirVenue)
<1>1. SInv => AnswersStayTrue /\ SeatMapsAreOfTheirVenue BY DEF SInv, OInv, CInv
<1> QED BY <1>1, AlwaysSInv, PTL

\* The seat maps of the organisers' shows stay whole venues with seedings under way
\* (materialiseShowSeats, seedDemoCatalogue).
THEOREM SeedingsKeepSeatMapsNested == SeedSpec => []CreatedSeatMapsNest
<1>1. SeedInit => CreatedSeatMapsNest
  BY DEF SeedInit, OrganisersInit, Init, CreatedSeatMapsNest, SeatMapsNest
<1>2. ASSUME SInv, CreatedSeatMapsNest, [SeedNext]_catalogueVars
      PROVE  CreatedSeatMapsNest'
  <2>1. PICK shows \in SUBSET Shows : shows = Shows \ Demos OBVIOUS
  <2>2. SeatMapsNest(shows) BY <1>2, <2>1 DEF CreatedSeatMapsNest
  <2>3. CASE OrganisersNext /\ UNCHANGED seed
    <3>1. CInv /\ [Next]_vars BY <1>2, <2>3, StepIsCatalogueStep DEF SInv, OInv
    <3>2. SeatMapsNest(shows)' BY <2>2, <3>1, SeatMapsKeepNesting
    <3>3. Shows \ Demos' = shows BY <2>1, <2>3 DEF Demos
    <3> QED BY <3>2, <3>3 DEF CreatedSeatMapsNest, SeatMapsNest
  <2>4. ASSUME NEW q \in Seeds, RunSeed(q) PROVE CreatedSeatMapsNest'
    <3>1. /\ Shows \ Demos' \subseteq shows
          /\ \A s \in Shows \ Demos' :
               show'[s] = show[s] /\ showSeats'[s] = showSeats[s]
      BY <1>2, <2>1, <2>4, RunsLeaveOtherShowsAlone
    <3> QED BY <2>2, <3>1 DEF CreatedSeatMapsNest, SeatMapsNest
  <2>5. CASE UNCHANGED catalogueVars
    <3>1. UNCHANGED <<seed, show, showSeats>>
      BY <2>5 DEF catalogueVars, seedVars, organisersVars, vars
    <3> QED BY <1>2, <3>1 DEF CreatedSeatMapsNest, SeatMapsNest, Demos
  <2> QED BY <1>2, <2>3, <2>4, <2>5 DEF SeedNext
<1> QED BY <1>1, <1>2, AlwaysSInv, PTL DEF SeedSpec

\* A seeding, too, writes for nobody but the owner, and undoes no patch
\* (requireOwnership, updateEvent, seedDemoCatalogue).
THEOREM SeedingsRespectOwners == SeedSpec => [](OnlyOwnersWrite /\ PatchesKeepTheRest)
<1>1. SInv => OnlyOwnersWrite /\ PatchesKeepTheRest BY DEF SInv, OInv
<1> QED BY <1>1, AlwaysSInv, PTL

\* Nor does a seeding hide an event from who goes through the pages
\* (listPublishedEvents, seedDemoCatalogue).
THEOREM SeedingsHideNothing == SeedSpec => []BrowsingMissesNothing
<1>1. SInv => BrowsingMissesNothing BY DEF SInv, LInv
<1> QED BY <1>1, AlwaysSInv, PTL

\* A run adds no seat to a show that has some, and takes none from it
\* (materialiseShowSeats, seedDemoCatalogue).
THEOREM SeedingsTouchNoSeatMap == SeedSpec => SeatMapNeverChanges
<1>1. ASSUME SInv, [SeedNext]_catalogueVars, NEW s \in Shows, showSeats[s] # {}
      PROVE  showSeats'[s] = showSeats[s]
  <2>1. CASE UNCHANGED showSeats BY <2>1
  <2>2. CASE OrganisersNext
    <3>1. CInv /\ [Next]_vars BY <1>1, <2>2, StepIsCatalogueStep DEF SInv, OInv
    <3> QED BY <1>1, <3>1, SeatMapStep
  <2>3. ASSUME NEW q \in Seeds, InsertDemoShowSeats(q)
        PROVE  showSeats'[s] = showSeats[s]
    <3>1. PICK z : z = seed[q].show OBVIOUS
    <3>2. z \in Shows /\ showSeats[z] = {} BY <1>1, <2>3, <3>1, NobodyWasFaster
    <3>3. showSeats' = [showSeats EXCEPT ![z] = @ \cup seed[q].seats]
      BY <2>3, <3>1 DEF InsertDemoShowSeats
    <3>4. showSeats = [y \in Shows |-> showSeats[y]]
      BY <1>1 DEF SInv, OInv, CInv, TypeOK
    <3> QED BY <1>1, <3>2, <3>3, <3>4
  <2>4. \/ UNCHANGED showSeats \/ OrganisersNext
        \/ \E q \in Seeds : InsertDemoShowSeats(q)
    BY <1>1
    DEF SeedNext, RunSeed, catalogueVars, organisersVars, vars, StartSeed, InsertUser,
        CheckVenue, InsertVenue, CreateVenue, InsertDemoCategory, CreateCategory,
        InsertSeat, InsertDemoEvent, InsertDemoShow, InsertDemoPrices, FailSeed, CrashSeed
  <2> QED BY <2>1, <2>2, <2>3, <2>4
<1>2. SInv /\ [SeedNext]_catalogueVars =>
        [\A s \in Shows : showSeats[s] # {} => showSeats'[s] = showSeats[s]]_vars
  BY <1>1
<1> QED BY <1>2, AlwaysSInv, PTL DEF SeedSpec, SeatMapNeverChanges
====
