--------------------------- MODULE ShowCatalogue ---------------------------
(***************************************************************************)
(* What exists before a seat can be held: venues with their categories and *)
(* seats (modules/venues), events (modules/events), shows with their       *)
(* prices, and the publication of a show, which copies the seats of its    *)
(* venue into show_seats (modules/shows).  Administrators and organisers   *)
(* work concurrently.  Nothing here is ever deleted: a row that a check    *)
(* found is still there when the write after the check runs.  A request    *)
(* refused by a constraint changes nothing and has no action.              *)
(***************************************************************************)
EXTENDS Integers, FiniteSets

CONSTANTS
  NULL,
  Venues, Categories, Events, Shows,  \* the ids gen_random_uuid() may give
  Names,         \* of categories
  Labels,        \* of rows of seats
  RowShapes,     \* what a row of POST /venues/:id/seats says besides its category
  MaxRows,       \* bound on the rows of one such request
  Publications   \* calls of publishShow()

ASSUME NullIsNoRow ==
  NULL \notin [venue: Venues, name: Names] \cup [event: Events, venue: Venues]

ASSUME ShapesAreRows ==
  RowShapes \subseteq [label: Labels, count: Nat \ {0}, startSeatNumber: Nat,
                       gridRow: Nat, startGridCol: Nat]

ASSUME BoundAssumption == MaxRows \in Nat \ {0}

VARIABLES
  venues,       \* the ids in venues
  category,     \* seat_categories; NULL: no such row
  seats,        \* seats; is_active is never changed from its default
  event,        \* "none", or events.is_published as "draft" and "published"
  show,         \* shows
  prices,       \* show_prices, without the amounts
  showSeats,    \* the seats show_seats has for a show
  publication   \* the calls of publishShow()

vars == <<venues, category, seats, event, show, prices, showSeats, publication>>

SeatRow == [venue: Venues, category: Categories, label: Labels, number: Nat,
            row: Nat, col: Nat]

\* A publication has read the show and found none of its seats ("checked"), or
\* it has answered: with a number of seats, or with ConflictError.
PublicationStates ==
  [pc: {"idle"}]
    \cup [pc: {"checked", "conflict"}, show: Shows]
    \cup [pc: {"ok"}, show: Shows, seatCount: Nat]

TypeOK ==
  /\ venues \subseteq Venues
  /\ category \in [Categories -> [venue: Venues, name: Names] \cup {NULL}]
  /\ seats \subseteq SeatRow
  /\ event \in [Events -> {"none", "draft", "published"}]
  /\ show \in [Shows -> [event: Events, venue: Venues] \cup {NULL}]
  /\ prices \subseteq Shows \X Categories
  /\ showSeats \in [Shows -> SUBSET SeatRow]
  /\ publication \in [Publications -> PublicationStates]

Init ==
  /\ venues = {}
  /\ category = [c \in Categories |-> NULL]
  /\ seats = {}
  /\ event = [e \in Events |-> "none"]
  /\ show = [s \in Shows |-> NULL]
  /\ prices = {}
  /\ showSeats = [s \in Shows |-> {}]
  /\ publication = [p \in Publications |-> [pc |-> "idle"]]

-----------------------------------------------------------------------------
(* Venues.                                                                 *)

CreateVenue(v) ==
  /\ v \notin venues
  /\ venues' = venues \cup {v}
  /\ UNCHANGED <<category, seats, event, show, prices, showSeats, publication>>

CategoryRow(v, name) == [venue |-> v, name |-> name]

\* createCategory(): 404 without the venue, UNIQUE (venue_id, name).
CreateCategory(c, v, name) ==
  /\ category[c] = NULL
  /\ v \in venues
  /\ \A other \in Categories : category[other] # CategoryRow(v, name)
  /\ category' = [category EXCEPT ![c] = CategoryRow(v, name)]
  /\ UNCHANGED <<venues, seats, event, show, prices, showSeats, publication>>

\* bulkCreateSeats() expands each row into count neighbouring seats.
RowRequests ==
  UNION {[1..n -> [shape: RowShapes, category: Categories]] : n \in 1..MaxRows}

Expanded(v, rows) ==
  LET cells == UNION {{k} \X (0..(rows[k].shape.count - 1)) : k \in DOMAIN rows}
  IN  [cell \in cells |->
         LET spec == rows[cell[1]].shape
         IN  [venue    |-> v,
              category |-> rows[cell[1]].category,
              label    |-> spec.label,
              number   |-> spec.startSeatNumber + cell[2],
              row      |-> spec.gridRow,
              col      |-> spec.startGridCol + cell[2]]]

\* The two UNIQUE constraints of seats.
Collide(x, y) ==
  /\ x.venue = y.venue
  /\ \/ x.label = y.label /\ x.number = y.number
     \/ x.row = y.row /\ x.col = y.col

Insertable(new, old) ==
  /\ \A p, q \in DOMAIN new : p # q => ~ Collide(new[p], new[q])
  /\ \A p \in DOMAIN new, x \in old : ~ Collide(new[p], x)

\* The category has to exist; nothing asks of which venue it is.
BulkCreateSeats(v, rows) ==
  /\ v \in venues
  /\ \A k \in DOMAIN rows : category[rows[k].category] # NULL
  /\ LET new == Expanded(v, rows)
     IN  /\ Insertable(new, seats)
         /\ seats' = seats \cup {new[p] : p \in DOMAIN new}
  /\ UNCHANGED <<venues, category, event, show, prices, showSeats, publication>>

-----------------------------------------------------------------------------
(* Events and shows.                                                       *)

CreateEvent(e) ==
  /\ event[e] = "none"
  /\ event' = [event EXCEPT ![e] = "draft"]
  /\ UNCHANGED <<venues, category, seats, show, prices, showSeats, publication>>

\* updateEvent(), of whose columns only is_published is kept here.
UpdateEvent(e) ==
  /\ event[e] # "none"
  /\ \E is \in {"draft", "published"} : event' = [event EXCEPT ![e] = is]
  /\ UNCHANGED <<venues, category, seats, show, prices, showSeats, publication>>

\* The event and the venue passed in the wrong order.
ShowRowSwapped(e, v) == [event |-> v, venue |-> e]

\* What insertShow() and insertShowPrices() insert.
ShowRow(e, v) == [event |-> e, venue |-> v]
PriceRows(s, priced) == {s} \X priced

\* The show and its prices each in a transaction of its own.
CreateShowFirst(s, e, v, priced) ==
  /\ show[s] = NULL
  /\ event[e] # "none"
  /\ v \in venues
  /\ show' = [show EXCEPT ![s] = ShowRow(e, v)]
  /\ prices' = IF \A c \in priced : category[c] # NULL
               THEN prices \cup PriceRows(s, priced) ELSE prices
  /\ UNCHANGED <<venues, category, seats, event, showSeats, publication>>

\* insertShow() and insertShowPrices() in one transaction.  The foreign keys ask
\* for the venue and for each category; nothing asks for all of the venue's, or
\* only for the venue's.  A list that names a category twice is refused.
CreateShow(s, e, v, priced) ==
  /\ show[s] = NULL
  /\ event[e] # "none"
  /\ v \in venues
  /\ priced # {}
  /\ \A c \in priced : category[c] # NULL
  /\ show' = [show EXCEPT ![s] = ShowRow(e, v)]
  /\ prices' = prices \cup PriceRows(s, priced)
  /\ UNCHANGED <<venues, category, seats, event, showSeats, publication>>

-----------------------------------------------------------------------------
(* Publication.                                                            *)

\* countShowSeats() is zero.
NoSeatsYet(s) == showSeats[s] = {}

\* publishShow(): findShowById() and countShowSeats() on the pool.
BeginPublish(p) ==
  /\ publication[p].pc = "idle"
  /\ \E s \in Shows :
       /\ show[s] # NULL
       /\ publication' = [publication EXCEPT ![p] =
            [pc |-> IF NoSeatsYet(s) THEN "checked" ELSE "conflict", show |-> s]]
  /\ UNCHANGED <<venues, category, seats, event, show, prices, showSeats>>

\* The SELECT without its WHERE venue_id.
SeatsOfAnyVenue(s) == seats

\* The SELECT joined with show_prices: seats without a price are left out.
PricedSeats(s) ==
  {x \in seats : x.venue = show[s].venue /\ <<s, x.category>> \in prices}

\* What materialiseShowSeats() selects.
VenueSeats(s) == {x \in seats : x.venue = show[s].venue}

\* ON CONFLICT DO NOTHING.
MaterialiseMissing(p) ==
  /\ publication[p].pc = "checked"
  /\ LET s   == publication[p].show
         new == VenueSeats(s) \ showSeats[s]
     IN  /\ showSeats' = [showSeats EXCEPT ![s] = @ \cup new]
         /\ publication' = [publication EXCEPT ![p] =
              [pc |-> "ok", show |-> s, seatCount |-> Cardinality(new)]]
  /\ UNCHANGED <<venues, category, seats, event, show, prices>>

\* materialiseShowSeats(), when UNIQUE (show_id, seat_id) lets it.
Materialise(p) ==
  /\ publication[p].pc = "checked"
  /\ LET s   == publication[p].show
         new == VenueSeats(s)
     IN  /\ new \cap showSeats[s] = {}
         /\ showSeats' = [showSeats EXCEPT ![s] = @ \cup new]
         /\ publication' = [publication EXCEPT ![p] =
              [pc |-> "ok", show |-> s, seatCount |-> Cardinality(new)]]
  /\ UNCHANGED <<venues, category, seats, event, show, prices>>

\* The unique_violation of a publication that lost the race.
LosePublication(p) ==
  /\ publication[p].pc = "checked"
  /\ LET s == publication[p].show
     IN  /\ VenueSeats(s) \cap showSeats[s] # {}
         /\ publication' = [publication EXCEPT ![p] = [pc |-> "conflict", show |-> s]]
  /\ UNCHANGED <<venues, category, seats, event, show, prices, showSeats>>

-----------------------------------------------------------------------------
VenuesRouter ==
  \/ \E v \in Venues : CreateVenue(v)
  \/ \E c \in Categories, v \in Venues, name \in Names : CreateCategory(c, v, name)
  \/ \E v \in Venues, rows \in RowRequests : BulkCreateSeats(v, rows)

EventsRouter == \E e \in Events : CreateEvent(e) \/ UpdateEvent(e)

ShowsRouter ==
  \/ \E s \in Shows, e \in Events, v \in Venues, priced \in SUBSET Categories :
       CreateShow(s, e, v, priced)
  \/ \E p \in Publications : BeginPublish(p) \/ Materialise(p) \/ LosePublication(p)

Next == VenuesRouter \/ EventsRouter \/ ShowsRouter

Spec == Init /\ [][Next]_vars

-----------------------------------------------------------------------------
(* Safety.                                                                 *)

\* What a publication answered is true and stays true, with others racing it and
\* seats being added to the venue meanwhile: a seatCount is the size of the
\* show's whole seat map and was given by one publication only; a 409 means the
\* show has its seats (publishShow, UNIQUE (show_id, seat_id)).
AnswersStayTrue ==
  \A p \in Publications :
    LET pub == publication[p]
    IN  /\ pub.pc = "conflict" => showSeats[pub.show] # {}
        /\ pub.pc = "ok" /\ pub.seatCount > 0 =>
             /\ pub.seatCount = Cardinality(showSeats[pub.show])
             /\ \A q \in Publications :
                  /\ publication[q].pc = "ok"
                  /\ publication[q].show = pub.show
                  /\ publication[q].seatCount > 0
                  => q = p

\* Whatever was published before and after what, the seats of a show are seats of
\* its own venue, and none is of a show that does not exist
\* (materialiseShowSeats).
SeatMapsAreOfTheirVenue ==
  /\ \A s \in Shows : showSeats[s] # {} =>
       /\ show[s] # NULL
       /\ \A x \in showSeats[s] : x \in seats /\ x.venue = show[s].venue
  /\ \A p \in Publications :
       publication[p].pc # "idle" => show[publication[p].show] # NULL

\* Of two seat maps of one venue one has all the seats of the other, whatever was
\* added to the venue between the publications and whatever the shows price: each
\* is the whole venue at one moment (materialiseShowSeats: "no partial state").
SeatMapsNest(shows) ==
  \A s, t \in shows :
    show[s] # NULL /\ show[t] # NULL /\ show[s].venue = show[t].venue =>
      showSeats[s] \subseteq showSeats[t] \/ showSeats[t] \subseteq showSeats[s]

\* A show and its prices are there together or not at all, a price for a
\* category that does not exist included (createShow's transaction).
ShowsComeWithPrices ==
  /\ \A s \in Shows : show[s] # NULL => \E c \in Categories : <<s, c>> \in prices
  /\ \A price \in prices : show[price[1]] # NULL /\ category[price[2]] # NULL

\* The seat map of a show is one snapshot of its venue: once there, no second
\* publication and no later seat of the venue adds to it or takes from it
\* (materialiseShowSeats: "no partial state where a show has 140 of its venue's
\* 200 seats").
SeatMapNeverChanges ==
  [][\A s \in Shows : showSeats[s] # {} => showSeats'[s] = showSeats[s]]_vars
=============================================================================
