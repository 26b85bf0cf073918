--------------------------- MODULE CatalogueProofs --------------------------
(***************************************************************************)
(* What ShowCatalogue promises for any venues, shows and publications, and *)
(* Organisers, whose steps are steps of it, for any people, events, pages  *)
(* and texts: that a publication still is the owner's when it ends rests   *)
(* on owners never changing, and that a visitor misses no more than was    *)
(* withdrawn on rows moving up by one place at a time.                     *)
(***************************************************************************)
EXTENDS Organisers, FiniteSetTheorems, TLAPS

-----------------------------------------------------------------------------
(* The tables.                                                             *)

\* A request adds finitely many seats, so a seat map can be counted.
SeatsAreFinite == IsFiniteSet(seats)

\* A publication racing another one loses as soon as that one has inserted a
\* seat: all that it selects is then a superset of what is there.  This is why
\* AnswersStayTrue needs SeatMapsAreOfTheirVenue.
CInv ==
  /\ TypeOK
  /\ SeatsAreFinite
  /\ SeatMapsAreOfTheirVenue
  /\ AnswersStayTrue

\* The prices of all shows but these are there, and no others.
PricesBut(unpriced) ==
  /\ \A s \in Shows \ unpriced : show[s] # NULL => \E c \in Categories : <<s, c>> \in prices
  /\ \A price \in prices : show[price[1]] # NULL /\ category[price[2]] # NULL

-----------------------------------------------------------------------------
\* The image of a finite set under a function is finite.
LEMMA FiniteImage ==
  ASSUME NEW f, IsFiniteSet(DOMAIN f), f = [x \in DOMAIN f |-> f[x]]
  PROVE  IsFiniteSet({f[x] : x \in DOMAIN f})
<1> DEFINE T == {f[x] : x \in DOMAIN f}
<1>1. f \in Surjection(DOMAIN f, T) BY DEF Surjection
<1> QED BY <1>1, FS_Surjection, Zenon

\* A request expands into finitely many seats, each a row of the table.
LEMMA ExpandedSeats ==
  ASSUME NEW v \in Venues, NEW rows \in RowRequests
  PROVE  LET new == Expanded(v, rows)
             added == {new[p] : p \in DOMAIN new}
         IN  added \subseteq SeatRow /\ IsFiniteSet(added)
<1>1. PICK n \in 1..MaxRows : rows \in [1..n -> [shape: RowShapes, category: Categories]]
  BY DEF RowRequests
<1>2. n \in Nat BY <1>1, BoundAssumption
<1> DEFINE Of(k) == {k} \X (0..(rows[k].shape.count - 1))
           of == [k \in DOMAIN rows |-> Of(k)]
           cells == UNION {Of(k) : k \in DOMAIN rows}
           new == Expanded(v, rows)
<1>3. \A k \in DOMAIN rows :
        /\ rows[k].shape \in RowShapes
        /\ rows[k].category \in Categories
        /\ rows[k].shape.count \in Nat
  BY <1>1, ShapesAreRows
<1>4. IsFiniteSet(DOMAIN rows) BY <1>1, <1>2, FS_Interval
<1>5. \A k \in DOMAIN rows : IsFiniteSet(Of(k))
  <2> TAKE k \in DOMAIN rows
  <2>1. rows[k].shape.count - 1 \in Int /\ 0 \in Int BY <1>3
  <2>2. IsFiniteSet(0..(rows[k].shape.count - 1)) BY <2>1, FS_Interval
  <2>3. IsFiniteSet({k}) BY FS_Singleton
  <2> QED BY <2>2, <2>3, FS_Product
<1>6. IsFiniteSet({Of(k) : k \in DOMAIN rows})
  <2>1. DOMAIN of = DOMAIN rows /\ of = [k \in DOMAIN of |-> of[k]] OBVIOUS
  <2>2. IsFiniteSet({of[k] : k \in DOMAIN of}) BY <1>4, <2>1, FiniteImage
  <2>3. {of[k] : k \in DOMAIN of} = {Of(k) : k \in DOMAIN rows} OBVIOUS
  <2> QED BY <2>2, <2>3
<1>7. IsFiniteSet(cells) BY <1>5, <1>6, FS_UNION
<1>8. DOMAIN new = cells /\ new = [p \in DOMAIN new |-> new[p]]
  BY DEF Expanded
<1>9. IsFiniteSet({new[p] : p \in DOMAIN new}) BY <1>7, <1>8, FiniteImage
<1>10. \A p \in DOMAIN new : new[p] \in SeatRow
  <2> TAKE p \in DOMAIN new
  <2>1. PICK k \in DOMAIN rows : p \in Of(k) BY <1>8
  <2>2. p[1] = k /\ p[2] \in Nat BY <2>1, <1>3
  <2>3. rows[k].shape \in [label: Labels, count: Nat \ {0}, startSeatNumber: Nat,
                           gridRow: Nat, startGridCol: Nat]
    BY <1>3, ShapesAreRows
  <2>4. new[p] = [venue    |-> v,
                  category |-> rows[k].category,
                  label    |-> rows[k].shape.label,
                  number   |-> rows[k].shape.startSeatNumber + p[2],
                  row      |-> rows[k].shape.gridRow,
                  col      |-> rows[k].shape.startGridCol + p[2]]
    BY <1>8, <2>2 DEF Expanded
  <2> QED BY <1>3, <2>2, <2>3, <2>4 DEF SeatRow
<1> QED BY <1>9, <1>10

LEMMA InitCInv == Init => CInv
<1> SUFFICES ASSUME Init PROVE CInv
  OBVIOUS
<1>1. TypeOK BY DEF Init, TypeOK, PublicationStates
<1>2. SeatsAreFinite BY FS_EmptySet DEF Init, SeatsAreFinite
<1>3. SeatMapsAreOfTheirVenue /\ AnswersStayTrue
  BY DEF Init, SeatMapsAreOfTheirVenue, AnswersStayTrue
<1> QED BY <1>1, <1>2, <1>3 DEF CInv

-----------------------------------------------------------------------------
\* No seat map and no answer moves while neither does.
LEMMA AnswersUntouched ==
  ASSUME AnswersStayTrue, UNCHANGED <<showSeats, publication>>
  PROVE  AnswersStayTrue'
BY DEF AnswersStayTrue

\* Seats are only added, and shows keep their venue: seat maps stay theirs.
LEMMA SeatMapsStayTheirs ==
  ASSUME SeatMapsAreOfTheirVenue, UNCHANGED <<showSeats, publication>>,
         seats \subseteq seats',
         \A s \in Shows : show[s] # NULL => show'[s] = show[s],
         TypeOK
  PROVE  SeatMapsAreOfTheirVenue'
<1>1. ASSUME NEW s \in Shows, showSeats'[s] # {}
      PROVE  /\ show'[s] # NULL
             /\ \A x \in showSeats'[s] : x \in seats' /\ x.venue = show'[s].venue
  BY <1>1 DEF SeatMapsAreOfTheirVenue
<1>2. ASSUME NEW p \in Publications, publication'[p].pc # "idle"
      PROVE  show'[publication'[p].show] # NULL
  <2>1. publication[p].show \in Shows
    BY <1>2 DEF TypeOK, PublicationStates
  <2> QED BY <1>2, <2>1 DEF SeatMapsAreOfTheirVenue
<1> QED BY <1>1, <1>2 DEF SeatMapsAreOfTheirVenue

LEMMA VenuesKeepCInv ==
  ASSUME CInv, NEW v \in Venues, CreateVenue(v)
  PROVE  CInv'
<1>1. TypeOK' BY DEF CInv, TypeOK, CreateVenue
<1>2. SeatsAreFinite' BY DEF CInv, SeatsAreFinite, CreateVenue
<1>3. SeatMapsAreOfTheirVenue' /\ AnswersStayTrue'
  BY SeatMapsStayTheirs, AnswersUntouched DEF CInv, CreateVenue
<1> QED BY <1>1, <1>2, <1>3 DEF CInv

LEMMA CategoriesKeepCInv ==
  ASSUME CInv, NEW c \in Categories, NEW v \in Venues, NEW name \in Names,
         CreateCategory(c, v, name)
  PROVE  CInv'
<1>1. TypeOK' BY DEF CInv, TypeOK, CreateCategory, CategoryRow
<1>2. SeatsAreFinite' BY DEF CInv, SeatsAreFinite, CreateCategory
<1>3. SeatMapsAreOfTheirVenue' /\ AnswersStayTrue'
  BY SeatMapsStayTheirs, AnswersUntouched DEF CInv, CreateCategory
<1> QED BY <1>1, <1>2, <1>3 DEF CInv

\* Seats come, finitely many of them, and no seat map changes.
LEMMA BulkCreateSeatsKeepsCInv ==
  ASSUME CInv, NEW v \in Venues, NEW rows \in RowRequests,
         BulkCreateSeats(v, rows)
  PROVE  CInv'
<1> DEFINE new == Expanded(v, rows)
           added == {new[p] : p \in DOMAIN new}
<1>1. seats' = seats \cup added
  BY DEF BulkCreateSeats
<1>2. UNCHANGED <<venues, category, event, show, prices, showSeats, publication>>
  BY DEF BulkCreateSeats
<1>3. added \subseteq SeatRow /\ IsFiniteSet(added) BY ExpandedSeats
<1> HIDE DEF new, added
<1>4. TypeOK' BY <1>1, <1>2, <1>3 DEF CInv, TypeOK
<1>5. SeatsAreFinite' BY <1>1, <1>3, FS_Union DEF CInv, SeatsAreFinite
<1>6. SeatMapsAreOfTheirVenue' /\ AnswersStayTrue'
  BY <1>1, <1>2, SeatMapsStayTheirs, AnswersUntouched DEF CInv
<1> QED BY <1>4, <1>5, <1>6 DEF CInv

LEMMA EventsKeepCInv ==
  ASSUME CInv, event' \in [Events -> {"none", "draft", "published"}],
         UNCHANGED <<venues, category, seats, show, prices, showSeats, publication>>
  PROVE  CInv'
<1>1. TypeOK' BY DEF CInv, TypeOK
<1>2. SeatsAreFinite' BY DEF CInv, SeatsAreFinite
<1>3. SeatMapsAreOfTheirVenue' /\ AnswersStayTrue'
  BY SeatMapsStayTheirs, AnswersUntouched DEF CInv
<1> QED BY <1>1, <1>2, <1>3 DEF CInv

\* A new show, or new prices, or both.
LEMMA ShowsKeepCInv ==
  ASSUME CInv, NEW s \in Shows, NEW e \in Events, NEW v \in Venues,
         \/ show[s] = NULL /\ show' = [show EXCEPT ![s] = ShowRow(e, v)]
         \/ UNCHANGED show,
         prices' \subseteq Shows \X Categories,
         UNCHANGED <<venues, category, seats, event, showSeats, publication>>
  PROVE  CInv'
<1>1. ShowRow(e, v) \in [event: Events, venue: Venues] BY DEF ShowRow
<1>2. TypeOK' BY <1>1 DEF CInv, TypeOK
<1>3. SeatsAreFinite' BY DEF CInv, SeatsAreFinite
<1>4. \A z \in Shows : show[z] # NULL => show'[z] = show[z]
  BY DEF CInv, TypeOK
<1>5. SeatMapsAreOfTheirVenue' /\ AnswersStayTrue'
  BY <1>4, SeatMapsStayTheirs, AnswersUntouched DEF CInv
<1> QED BY <1>2, <1>3, <1>5 DEF CInv

-----------------------------------------------------------------------------
\* A publication answers, or goes on, without touching a seat map.
LEMMA AnswerKeepsCInv ==
  ASSUME CInv, NEW p \in Publications, NEW s \in Shows, show[s] # NULL,
         NEW pc \in {"checked", "conflict"},
         pc = "conflict" => showSeats[s] # {},
         publication' = [publication EXCEPT ![p] = [pc |-> pc, show |-> s]],
         UNCHANGED <<venues, category, seats, event, show, prices, showSeats>>
  PROVE  CInv'
<1>1. \A q \in Publications :
        publication'[q] = IF q = p THEN [pc |-> pc, show |-> s] ELSE publication[q]
  BY DEF CInv, TypeOK
<1>2. TypeOK'
  <2>1. [pc |-> pc, show |-> s] \in PublicationStates BY DEF PublicationStates
  <2> QED BY <2>1 DEF CInv, TypeOK
<1>3. SeatsAreFinite' BY DEF CInv, SeatsAreFinite
<1>4. SeatMapsAreOfTheirVenue'
  BY <1>1 DEF CInv, SeatMapsAreOfTheirVenue, VenueSeats
<1>5. AnswersStayTrue' BY <1>1 DEF CInv, AnswersStayTrue
<1> QED BY <1>2, <1>3, <1>4, <1>5 DEF CInv

LEMMA BeginPublishKeepsCInv ==
  ASSUME CInv, NEW p \in Publications, BeginPublish(p)
  PROVE  CInv'
<1>1. PICK s \in Shows :
        /\ show[s] # NULL
        /\ publication' = [publication EXCEPT ![p] =
             [pc |-> IF showSeats[s] = {} THEN "checked" ELSE "conflict", show |-> s]]
  BY DEF BeginPublish, NoSeatsYet
<1>2. UNCHANGED <<venues, category, seats, event, show, prices, showSeats>>
  BY DEF BeginPublish
<1> DEFINE pc == IF showSeats[s] = {} THEN "checked" ELSE "conflict"
<1>3. pc \in {"checked", "conflict"} /\ (pc = "conflict" => showSeats[s] # {})
  OBVIOUS
<1>4. publication' = [publication EXCEPT ![p] = [pc |-> pc, show |-> s]] BY <1>1
<1> HIDE DEF pc
<1> QED BY <1>1, <1>2, <1>3, <1>4, AnswerKeepsCInv

\* What a publication that has not answered knows of its show.
LEMMA CheckedShow ==
  ASSUME CInv, NEW p \in Publications, publication[p].pc = "checked"
  PROVE  /\ publication[p].show \in Shows
         /\ show[publication[p].show] # NULL
         /\ showSeats[publication[p].show] \subseteq VenueSeats(publication[p].show)
<1>1. publication[p].show \in Shows /\ publication[p].pc # "idle"
  BY DEF CInv, TypeOK, PublicationStates
<1> QED BY <1>1 DEF CInv, SeatMapsAreOfTheirVenue, VenueSeats

LEMMA LosePublicationKeepsCInv ==
  ASSUME CInv, NEW p \in Publications, LosePublication(p)
  PROVE  CInv'
<1> DEFINE s == publication[p].show
<1>1. s \in Shows /\ show[s] # NULL BY CheckedShow DEF LosePublication
<1>2. /\ showSeats[s] # {}
      /\ publication' = [publication EXCEPT ![p] = [pc |-> "conflict", show |-> s]]
      /\ UNCHANGED <<venues, category, seats, event, show, prices, showSeats>>
  BY DEF LosePublication
<1> HIDE DEF s
<1> QED BY <1>1, <1>2, AnswerKeepsCInv

\* The winner's show had no seats: else one of them would be selected again.
LEMMA WinnerWasFirst ==
  ASSUME CInv, NEW p \in Publications, Materialise(p)
  PROVE  LET s == publication[p].show
         IN  /\ showSeats[s] = {}
             /\ showSeats' = [showSeats EXCEPT ![s] = VenueSeats(s)]
<1>1. showSeats[publication[p].show] \subseteq VenueSeats(publication[p].show)
  BY CheckedShow DEF Materialise
<1>2. showSeats[publication[p].show] = {} BY <1>1 DEF Materialise
<1> QED BY <1>2 DEF Materialise

LEMMA MaterialiseKeepsCInv ==
  ASSUME CInv, NEW p \in Publications, Materialise(p)
  PROVE  CInv'
<1> DEFINE s == publication[p].show
           new == VenueSeats(s)
           answer == [pc |-> "ok", show |-> s, seatCount |-> Cardinality(new)]
<1>1. s \in Shows /\ show[s] # NULL BY CheckedShow DEF Materialise
<1>2. showSeats[s] = {} /\ showSeats' = [showSeats EXCEPT ![s] = new]
  BY WinnerWasFirst
<1>3. /\ publication' = [publication EXCEPT ![p] = answer]
      /\ publication[p].pc = "checked"
      /\ UNCHANGED <<venues, category, seats, event, show, prices>>
  BY DEF Materialise
<1>4. new \subseteq SeatRow /\ IsFiniteSet(new)
  <2>1. new \in SUBSET seats BY DEF VenueSeats
  <2> QED BY <2>1, FS_Subset DEF CInv, TypeOK, SeatsAreFinite
<1>5. Cardinality(new) \in Nat BY <1>4, FS_CardinalityType
<1>6. answer \in PublicationStates BY <1>1, <1>5 DEF PublicationStates
<1>7. /\ answer.pc = "ok" /\ answer.show = s /\ answer.seatCount = Cardinality(new)
      /\ \A z \in Shows : showSeats'[z] = IF z = s THEN new ELSE showSeats[z]
      /\ \A q \in Publications :
           publication'[q] = IF q = p THEN answer ELSE publication[q]
      /\ VenueSeats(s)' = VenueSeats(s)
  BY <1>1, <1>2, <1>3 DEF CInv, TypeOK, VenueSeats
<1>8. TypeOK' BY <1>2, <1>3, <1>4, <1>6 DEF CInv, TypeOK
<1>9. SeatsAreFinite' BY <1>3 DEF CInv, SeatsAreFinite
<1>10. SeatMapsAreOfTheirVenue'
  <2>1. \A x \in new : x \in seats /\ x.venue = show[s].venue BY DEF VenueSeats
  <2> HIDE DEF new, answer
  <2>2. ASSUME NEW z \in Shows, showSeats'[z] # {}
        PROVE  /\ show'[z] # NULL
               /\ \A x \in showSeats'[z] : x \in seats' /\ x.venue = show'[z].venue
    <3>1. CASE z = s BY <1>1, <1>3, <1>7, <2>1, <3>1
    <3>2. CASE z # s BY <1>3, <1>7, <2>2, <3>2 DEF CInv, SeatMapsAreOfTheirVenue
    <3> QED BY <3>1, <3>2
  <2>3. ASSUME NEW q \in Publications, publication'[q].pc # "idle"
        PROVE  show'[publication'[q].show] # NULL
    <3>1. CASE q = p BY <1>1, <1>3, <1>7, <3>1
    <3>2. CASE q # p BY <1>3, <1>7, <2>3, <3>2 DEF CInv, SeatMapsAreOfTheirVenue
    <3> QED BY <3>1, <3>2
  <2> QED BY <2>2, <2>3 DEF SeatMapsAreOfTheirVenue
<1>11. AnswersStayTrue'
  <2> DEFINE Counts(q) == publication[q].pc = "ok" /\ publication[q].seatCount > 0
  <2>1. ASSUME NEW q \in Publications, Counts(q) PROVE publication[q].show # s
    <3>1. publication[q].seatCount = Cardinality(showSeats[publication[q].show])
      BY <2>1 DEF CInv, AnswersStayTrue
    <3>2. publication[q].seatCount > 0 BY <2>1
    <3> HIDE DEF s, Counts
    <3>3. CASE publication[q].show = s
      <4>1. publication[q].seatCount = 0 BY <1>2, <3>1, <3>3, FS_EmptySet
      <4> QED BY <3>2, <4>1
    <3> QED BY <3>3
  <2>2. ASSUME NEW q \in Publications, publication'[q].pc = "conflict"
        PROVE  showSeats'[publication'[q].show] # {}
    <3>1. q # p /\ publication[q].pc = "conflict" BY <1>7, <2>2
    <3>2. publication[q].show \in Shows BY <3>1 DEF CInv, TypeOK, PublicationStates
    <3> QED BY <1>2, <1>7, <3>1, <3>2 DEF CInv, AnswersStayTrue
  <2>3. ASSUME NEW q \in Publications, publication'[q].pc = "ok",
               publication'[q].seatCount > 0
        PROVE  publication'[q].seatCount = Cardinality(showSeats'[publication'[q].show])
    <3>1. CASE q = p BY <1>1, <1>7, <3>1
    <3>2. CASE q # p
      <4>1. publication'[q] = publication[q] BY <1>7, <3>2
      <4>2. publication[q].show \in Shows
        BY <2>3, <4>1 DEF CInv, TypeOK, PublicationStates
      <4>3. showSeats'[publication[q].show] = showSeats[publication[q].show]
        BY <1>7, <2>1, <2>3, <4>1, <4>2
      <4> QED BY <2>3, <4>1, <4>3 DEF CInv, AnswersStayTrue
    <3> QED BY <3>1, <3>2
  <2>4. ASSUME NEW q \in Publications, NEW r \in Publications,
               publication'[q].pc = "ok", publication'[q].seatCount > 0,
               publication'[r].pc = "ok", publication'[r].seatCount > 0,
               publication'[q].show = publication'[r].show
        PROVE  q = r
    BY <1>7, <2>1, <2>4 DEF CInv, AnswersStayTrue
  <2> QED BY <2>2, <2>3, <2>4 DEF AnswersStayTrue
<1> QED BY <1>8, <1>9, <1>10, <1>11 DEF CInv

-----------------------------------------------------------------------------
LEMMA NextCInv == CInv /\ [Next]_vars => CInv'
<1> SUFFICES ASSUME CInv, [Next]_vars PROVE CInv'
  OBVIOUS
<1>1. ASSUME NEW v \in Venues, CreateVenue(v) PROVE CInv'
  BY <1>1, VenuesKeepCInv
<1>2. ASSUME NEW c \in Categories, NEW v \in Venues, NEW name \in Names,
             CreateCategory(c, v, name)
      PROVE  CInv'
  BY <1>2, CategoriesKeepCInv
<1>3. ASSUME NEW v \in Venues, NEW rows \in RowRequests, BulkCreateSeats(v, rows)
      PROVE  CInv'
  BY <1>3, BulkCreateSeatsKeepsCInv
<1>4. ASSUME NEW e \in Events, CreateEvent(e) \/ UpdateEvent(e) PROVE CInv'
  BY <1>4, EventsKeepCInv DEF CInv, TypeOK, CreateEvent, UpdateEvent
<1>5. ASSUME NEW s \in Shows, NEW e \in Events, NEW v \in Venues,
             NEW priced \in SUBSET Categories, CreateShow(s, e, v, priced)
      PROVE  CInv'
  <2>1. prices' \subseteq Shows \X Categories
    BY <1>5 DEF CreateShow, PriceRows, CInv, TypeOK
  <2> QED BY <1>5, <2>1, ShowsKeepCInv DEF CreateShow
<1>6. ASSUME NEW p \in Publications,
             BeginPublish(p) \/ Materialise(p) \/ LosePublication(p)
      PROVE  CInv'
  BY <1>6, BeginPublishKeepsCInv, MaterialiseKeepsCInv, LosePublicationKeepsCInv
<1>7. CASE UNCHANGED vars
  <2>1. TypeOK' BY <1>7 DEF vars, CInv, TypeOK
  <2>2. SeatsAreFinite' BY <1>7 DEF vars, CInv, SeatsAreFinite
  <2>3. SeatMapsAreOfTheirVenue' /\ AnswersStayTrue'
    BY <1>7, SeatMapsStayTheirs, AnswersUntouched DEF vars, CInv
  <2> QED BY <2>1, <2>2, <2>3 DEF CInv
<1> QED BY <1>1, <1>2, <1>3, <1>4, <1>5, <1>6, <1>7
        DEF Next, VenuesRouter, EventsRouter, ShowsRouter

\* A show comes with its prices, whatever was without some before.
LEMMA PricesStayWhole ==
  ASSUME TypeOK, [Next]_vars, NEW unpriced, PricesBut(unpriced)
  PROVE  PricesBut(unpriced)'
<1>1. CASE UNCHANGED <<category, show, prices>> BY <1>1 DEF PricesBut
<1>2. ASSUME NEW c \in Categories, NEW v, NEW name, CreateCategory(c, v, name)
      PROVE  PricesBut(unpriced)'
  BY <1>2 DEF TypeOK, PricesBut, CreateCategory
<1>3. ASSUME NEW s \in Shows, NEW e, NEW v, NEW priced \in SUBSET Categories,
             CreateShow(s, e, v, priced), e \in Events, v \in Venues
      PROVE  PricesBut(unpriced)'
  <2>1. /\ show[s] = NULL
        /\ priced # {} /\ \A c \in priced : category[c] # NULL
        /\ prices' = prices \cup ({s} \X priced)
        /\ category' = category
    BY <1>3 DEF CreateShow, PriceRows
  <2>2. ShowRow(e, v) # NULL BY <1>3, NullIsNoRow DEF ShowRow
  <2>3. \A z \in Shows : show'[z] = IF z = s THEN ShowRow(e, v) ELSE show[z]
    BY <1>3 DEF CreateShow, TypeOK
  <2>4. ASSUME NEW z \in Shows \ unpriced, show'[z] # NULL
        PROVE  \E c \in Categories : <<z, c>> \in prices'
    BY <2>1, <2>3, <2>4 DEF PricesBut
  <2>5. ASSUME NEW price \in prices'
        PROVE  show'[price[1]] # NULL /\ category'[price[2]] # NULL
    <3>1. CASE price \in prices
      BY <2>1, <2>2, <2>3, <3>1 DEF TypeOK, PricesBut
    <3>2. CASE price \in {s} \X priced BY <2>1, <2>2, <2>3, <3>2
    <3> QED BY <2>1, <2>5, <3>1, <3>2
  <2> QED BY <2>4, <2>5 DEF PricesBut
<1>4. \/ UNCHANGED <<category, show, prices>>
      \/ \E c \in Categories, v \in Venues, name \in Names : CreateCategory(c, v, name)
      \/ \E s \in Shows, e \in Events, v \in Venues, priced \in SUBSET Categories :
           CreateShow(s, e, v, priced)
  BY DEF Next, VenuesRouter, EventsRouter, ShowsRouter, vars, CreateVenue, BulkCreateSeats,
         CreateEvent, UpdateEvent, BeginPublish, Materialise, LosePublication
<1> QED BY <1>1, <1>2, <1>3, <1>4

LEMMA AlwaysCInv == Spec => []CInv
BY InitCInv, NextCInv, PTL DEF Spec

\* Of all the steps only a publication writes show_seats, and it finds none.
LEMMA SeatMapStep ==
  ASSUME CInv, [Next]_vars, NEW s \in Shows, showSeats[s] # {}
  PROVE  showSeats'[s] = showSeats[s]
<1>1. CASE UNCHANGED showSeats BY <1>1
<1>2. ASSUME NEW p \in Publications, Materialise(p)
      PROVE  showSeats'[s] = showSeats[s]
  BY <1>2, WinnerWasFirst DEF CInv, TypeOK
<1>3. UNCHANGED showSeats \/ \E p \in Publications : Materialise(p)
  BY DEF Next, VenuesRouter, EventsRouter, ShowsRouter, vars, CreateVenue,
         CreateCategory, BulkCreateSeats, CreateEvent, UpdateEvent,
         CreateShow, BeginPublish, LosePublication
<1> QED BY <1>1, <1>2, <1>3

\* A publication takes the whole venue, which holds the seats of all the venue's
\* other shows; a show that is only now there has none.
LEMMA SeatMapsKeepNesting ==
  ASSUME CInv, [Next]_vars, NEW shows \in SUBSET Shows, SeatMapsNest(shows)
  PROVE  SeatMapsNest(shows)'
<1>1. \A s \in Shows : show[s] # NULL => show'[s] = show[s]
  <2>1. \/ UNCHANGED show
        \/ \E s \in Shows, e \in Events, v \in Venues, priced \in SUBSET Categories :
             CreateShow(s, e, v, priced)
    BY DEF Next, VenuesRouter, EventsRouter, ShowsRouter, vars, CreateVenue,
           CreateCategory, BulkCreateSeats, CreateEvent, UpdateEvent, BeginPublish,
           Materialise, LosePublication
  <2> QED BY <2>1 DEF CreateShow, CInv, TypeOK
<1>2. CASE UNCHANGED showSeats
  <2>1. \A s \in Shows : show[s] = NULL => showSeats[s] = {}
    BY DEF CInv, SeatMapsAreOfTheirVenue
  <2> QED BY <1>1, <1>2, <2>1 DEF SeatMapsNest
<1>3. ASSUME NEW p \in Publications, Materialise(p) PROVE SeatMapsNest(shows)'
  <2>1. PICK q : q = publication[p].show OBVIOUS
  <2>2. q \in Shows /\ show[q] # NULL BY <1>3, <2>1, CheckedShow DEF Materialise
  <2>3. showSeats' = [showSeats EXCEPT ![q] = VenueSeats(q)]
    BY <1>3, <2>1, WinnerWasFirst
  <2>4. /\ showSeats'[q] = VenueSeats(q)
        /\ \A s \in Shows : s # q => showSeats'[s] = showSeats[s]
    BY <2>2, <2>3 DEF CInv, TypeOK
  <2>5. UNCHANGED show BY <1>3 DEF Materialise
  <2>6. \A s \in Shows :
          show[s] # NULL /\ show[s].venue = show[q].venue => showSeats[s] \subseteq VenueSeats(q)
    BY DEF CInv, SeatMapsAreOfTheirVenue, VenueSeats
  <2>7. ASSUME NEW s \in shows, NEW t \in shows, show'[s] # NULL, show'[t] # NULL,
               show'[s].venue = show'[t].venue
        PROVE  showSeats'[s] \subseteq showSeats'[t] \/ showSeats'[t] \subseteq showSeats'[s]
    <3>1. CASE s = q BY <2>4, <2>5, <2>6, <2>7, <3>1
    <3>2. CASE t = q BY <2>4, <2>5, <2>6, <2>7, <3>2
    <3>3. CASE s # q /\ t # q BY <2>4, <2>5, <2>7, <3>3 DEF SeatMapsNest
    <3> QED BY <3>1, <3>2, <3>3
  <2> QED BY <2>7 DEF SeatMapsNest
<1>4. UNCHANGED showSeats \/ \E p \in Publications : Materialise(p)
  BY DEF Next, VenuesRouter, EventsRouter, ShowsRouter, vars, CreateVenue, CreateCategory,
         BulkCreateSeats, CreateEvent, UpdateEvent, CreateShow, BeginPublish,
         LosePublication
<1> QED BY <1>2, <1>3, <1>4

-----------------------------------------------------------------------------
\* Every row and every publication keeps its shape.
THEOREM TypeCorrect == Spec => []TypeOK
BY AlwaysCInv, PTL DEF CInv

\* Of any number of racing publications at most one gives a show its seats, and
\* each answers what is and stays true (publishShow, UNIQUE (show_id, seat_id)).
THEOREM PublicationsAnswerTheTruth == Spec => []AnswersStayTrue
BY AlwaysCInv, PTL DEF CInv

\* The seats a show sells are seats of its venue (materialiseShowSeats).
THEOREM SeatMapsAreTheVenues == Spec => []SeatMapsAreOfTheirVenue
BY AlwaysCInv, PTL DEF CInv

\* Whatever was added to a venue between its publications, and whatever they price,
\* of two shows there one sells all the seats the other does (materialiseShowSeats).
THEOREM SeatMapsAreWholeVenues == Spec => []SeatMapsNest(Shows)
<1>1. Init => SeatMapsNest(Shows) BY DEF Init, SeatMapsNest
<1>2. CInv /\ SeatMapsNest(Shows) /\ [Next]_vars => SeatMapsNest(Shows)'
  <2> SUFFICES ASSUME CInv, SeatMapsNest(Shows), [Next]_vars PROVE SeatMapsNest(Shows)'
    OBVIOUS
  <2>1. \A shows \in SUBSET Shows : SeatMapsNest(shows) => SeatMapsNest(shows)'
    BY SeatMapsKeepNesting
  <2> QED BY <2>1 DEF SeatMapsNest
<1> QED BY <1>1, <1>2, AlwaysCInv, PTL DEF Spec

\* A show and its prices commit together (createShow).
THEOREM PricesCommitWithTheirShow == Spec => []ShowsComeWithPrices
<1>1. ShowsComeWithPrices <=> PricesBut({}) BY DEF ShowsComeWithPrices, PricesBut
<1>2. Init => ShowsComeWithPrices BY DEF Init, ShowsComeWithPrices
<1>3. CInv /\ ShowsComeWithPrices /\ [Next]_vars => ShowsComeWithPrices'
  <2> SUFFICES ASSUME CInv, PricesBut({}), [Next]_vars PROVE PricesBut({})'
    BY <1>1 DEF ShowsComeWithPrices, PricesBut
  <2> QED BY PricesStayWhole DEF CInv
<1> QED BY <1>2, <1>3, AlwaysCInv, PTL DEF Spec

\* Once a show has seats, no publication and no change of its venue touches its
\* seat map (materialiseShowSeats).
THEOREM SeatMapsAreSnapshots == Spec => SeatMapNeverChanges
<1>1. CInv /\ [Next]_vars =>
        [\A s \in Shows : showSeats[s] # {} => showSeats'[s] = showSeats[s]]_vars
  BY SeatMapStep
<1> QED BY <1>1, AlwaysCInv, PTL DEF Spec, SeatMapNeverChanges

-----------------------------------------------------------------------------
(* The people.                                                             *)

\* An event that is not there was written for nobody.
NothingBeforeTheEvent ==
  \A e \in Events : event[e] = "none" => hands[e] = {}

\* A publication belongs to the owner of the event of its show.
PublishedByTheOwner ==
  \A p \in Publications : publication[p].pc # "idle" =>
    LET s == publication[p].show
    IN  /\ s \in Shows /\ show[s] # NULL
        /\ event[show[s].event] # "none"
        /\ caller[p] = organiser[show[s].event]

\* A show is a show of an event that is there.
ShowsHaveEvents == \A s \in Shows : show[s] # NULL => event[show[s].event] # "none"

\* An event that is there has an owner.
OwnedOnceThere == \A e \in Events : event[e] # "none" => organiser[e] \in People

OInv ==
  /\ CInv
  /\ organiser \in [Events -> People \cup {NULL}]
  /\ description \in [Events -> Texts]
  /\ given \in [Events -> Texts]
  /\ caller \in [Publications -> People \cup {NULL}]
  /\ hands \in [Events -> SUBSET People]
  /\ NothingBeforeTheEvent
  /\ OwnedOnceThere
  /\ ShowsHaveEvents
  /\ PublishedByTheOwner
  /\ OnlyOwnersWrite
  /\ PatchesKeepTheRest

-----------------------------------------------------------------------------
LEMMA StepIsCatalogueStep ==
  ASSUME [OrganisersNext]_organisersVars PROVE [Next]_vars
<1>1. ASSUME NEW p \in People, AdminWrites(p) PROVE [Next]_vars
  BY <1>1 DEF AdminWrites, PostVenue, PostCategory, PostSeats, Next, VenuesRouter
<1>2. ASSUME NEW p \in People, OrganiserWrites(p) PROVE [Next]_vars
  <2>1. ASSUME NEW e \in Events, NEW text \in Texts, PostEvent(p, e, text)
        PROVE  [Next]_vars
    BY <2>1 DEF PostEvent, Next, EventsRouter
  <2>2. ASSUME NEW e \in Events, NEW body \in Bodies, PatchEvent(p, e, body)
        PROVE  [Next]_vars
    BY <2>2 DEF PatchEvent, Next, EventsRouter
  <2>3. ASSUME NEW s \in Shows, NEW e \in Events, NEW v \in Venues,
               NEW priced \in SUBSET Categories, PostShow(p, s, e, v, priced)
        PROVE  [Next]_vars
    BY <2>3 DEF PostShow, Next, ShowsRouter
  <2>4. ASSUME NEW pub \in Publications, PostPublish(p, pub) PROVE [Next]_vars
    BY <2>4 DEF PostPublish, Next, ShowsRouter
  <2> QED BY <1>2, <2>1, <2>2, <2>3, <2>4 DEF OrganiserWrites
<1>3. ASSUME NEW pub \in Publications, ServePublish(pub) PROVE [Next]_vars
  BY <1>3 DEF ServePublish, Next, ShowsRouter
<1>4. ASSUME NEW venue, OpenListing(venue) PROVE [Next]_vars
  BY <1>4 DEF OpenListing
<1>5. CASE BrowseEvents BY <1>5 DEF BrowseEvents
<1>6. CASE UNCHANGED organisersVars BY <1>6 DEF organisersVars
<1> QED BY <1>1, <1>2, <1>3, <1>4, <1>5, <1>6 DEF OrganisersNext

LEMMA InitOInv == OrganisersInit => OInv
BY InitCInv, OrganisersAssumption
DEF OrganisersInit, OInv, Init, NothingBeforeTheEvent, OwnedOnceThere, ShowsHaveEvents,
    PublishedByTheOwner, OnlyOwnersWrite, PatchesKeepTheRest

-----------------------------------------------------------------------------
(* The steps.                                                              *)

\* What a step that adds no event and publishes nothing leaves as it was.
LEMMA EventsUntouched ==
  ASSUME OInv, CInv',
         UNCHANGED <<event, show, publication, organiser, description, given,
                     caller, hands>>
  PROVE  OInv'
BY DEF OInv, NothingBeforeTheEvent, OwnedOnceThere, ShowsHaveEvents,
       PublishedByTheOwner, OnlyOwnersWrite, PatchesKeepTheRest

LEMMA AdminsKeepOInv ==
  ASSUME OInv, CInv', NEW p \in People, AdminWrites(p)
  PROVE  OInv'
<1>1. ASSUME NEW v \in Venues, PostVenue(p, v) PROVE OInv'
  BY <1>1, EventsUntouched DEF PostVenue, CreateVenue, EventsAlone
<1>2. ASSUME NEW c \in Categories, NEW v \in Venues, NEW name \in Names,
             PostCategory(p, c, v, name)
      PROVE  OInv'
  BY <1>2, EventsUntouched DEF PostCategory, CreateCategory, EventsAlone
<1>3. ASSUME NEW v \in Venues, NEW rows \in RowRequests, PostSeats(p, v, rows)
      PROVE  OInv'
  BY <1>3, EventsUntouched DEF PostSeats, BulkCreateSeats, EventsAlone
<1> QED BY <1>1, <1>2, <1>3 DEF AdminWrites

LEMMA NewEventsKeepOInv ==
  ASSUME OInv, CInv', NEW p \in People, NEW e \in Events, NEW text \in Texts,
         NEW is \in {"draft", "published"},
         event[e] = "none", event' = [event EXCEPT ![e] = is],
         EventRow(p, e, text), For(p, e), UNCHANGED <<show, publication, caller>>
  PROVE  OInv'
<1> USE DEF EventRow, For
<1>1. event \in [Events -> {"none", "draft", "published"}]
  BY DEF OInv, CInv, TypeOK
<1>2. /\ organiser' \in [Events -> People \cup {NULL}]
      /\ description' \in [Events -> Texts]
      /\ given' \in [Events -> Texts]
      /\ caller' \in [Publications -> People \cup {NULL}]
      /\ hands' \in [Events -> SUBSET People]
  BY DEF OInv
<1>3. NothingBeforeTheEvent' BY <1>1 DEF OInv, NothingBeforeTheEvent
<1>4. ASSUME NEW s \in Shows, show[s] # NULL
      PROVE  show[s].event \in Events /\ show[s].event # e
  BY <1>1, <1>4 DEF OInv, CInv, TypeOK, ShowsHaveEvents
<1>5. ShowsHaveEvents' BY <1>1, <1>4 DEF OInv, ShowsHaveEvents
<1>6. PublishedByTheOwner'
  BY <1>1, <1>4 DEF OInv, PublishedByTheOwner
<1>7. OnlyOwnersWrite' BY <1>1 DEF OInv, NothingBeforeTheEvent, OnlyOwnersWrite
<1>8. PatchesKeepTheRest' BY DEF OInv, PatchesKeepTheRest
<1>9. OwnedOnceThere' BY <1>1 DEF OInv, OwnedOnceThere
<1> QED BY <1>2, <1>3, <1>5, <1>6, <1>7, <1>8, <1>9 DEF OInv

LEMMA PatchEventKeepsOInv ==
  ASSUME OInv, CInv', NEW p \in People, NEW e \in Events, NEW body \in Bodies,
         PatchEvent(p, e, body)
  PROVE  OInv'
<1> USE DEF PatchEvent, UpdateEvent, For
<1>1. /\ event \in [Events -> {"none", "draft", "published"}]
      /\ event[e] # "none" /\ organiser[e] = p
  BY DEF OInv, CInv, TypeOK, Owns, EventOwner
<1>2. \A f \in Events : event'[f] = "none" <=> event[f] = "none"
  BY <1>1
<1>3. Parsed(body).description = body.description
      /\ body.description \in Texts \cup {NULL}
  BY DEF Parsed, Bodies
<1>4. /\ organiser' \in [Events -> People \cup {NULL}]
      /\ description' \in [Events -> Texts]
      /\ given' \in [Events -> Texts]
      /\ caller' \in [Publications -> People \cup {NULL}]
      /\ hands' \in [Events -> SUBSET People]
  BY <1>3 DEF OInv, Patched
<1>5. NothingBeforeTheEvent' BY <1>1, <1>2 DEF OInv, NothingBeforeTheEvent
<1>6. ASSUME NEW s \in Shows, show[s] # NULL PROVE show[s].event \in Events
  BY <1>6 DEF OInv, CInv, TypeOK
<1>7. ShowsHaveEvents' BY <1>2, <1>6 DEF OInv, ShowsHaveEvents
<1>8. PublishedByTheOwner' BY <1>2, <1>6 DEF OInv, PublishedByTheOwner
<1>9. OnlyOwnersWrite' BY <1>1 DEF OInv, OnlyOwnersWrite
<1>10. PatchesKeepTheRest' BY <1>3 DEF OInv, PatchesKeepTheRest
<1>11. OwnedOnceThere' BY <1>2 DEF OInv, OwnedOnceThere
<1> QED BY <1>4, <1>5, <1>7, <1>8, <1>9, <1>10, <1>11 DEF OInv

LEMMA NewShowsKeepOInv ==
  ASSUME OInv, CInv', NEW s \in Shows, NEW e \in Events, NEW v \in Venues,
         event[e] # "none", show[s] = NULL, show' = [show EXCEPT ![s] = ShowRow(e, v)],
         \/ UNCHANGED hands
         \/ For(organiser[e], e),
         UNCHANGED <<event, publication, organiser, description, given, caller>>
  PROVE  OInv'
<1> USE DEF For
<1>1. /\ show \in [Shows -> [event: Events, venue: Venues] \cup {NULL}]
      /\ organiser[e] \in People
  BY DEF OInv, CInv, TypeOK, OwnedOnceThere
<1>2. hands' \in [Events -> SUBSET People] BY <1>1 DEF OInv
<1>3. NothingBeforeTheEvent' BY <1>1 DEF OInv, NothingBeforeTheEvent
<1>4. ShowsHaveEvents' BY <1>1 DEF OInv, ShowsHaveEvents, ShowRow
<1>5. PublishedByTheOwner' BY <1>1 DEF OInv, PublishedByTheOwner
<1>6. OnlyOwnersWrite' BY <1>1 DEF OInv, OnlyOwnersWrite
<1> QED
  BY <1>2, <1>3, <1>4, <1>5, <1>6 DEF OInv, OwnedOnceThere, PatchesKeepTheRest

LEMMA PostPublishKeepsOInv ==
  ASSUME OInv, CInv', NEW p \in People, NEW pub \in Publications,
         PostPublish(p, pub)
  PROVE  OInv'
<1> USE DEF PostPublish
<1>1. PICK s \in Shows :
        /\ show[s] # NULL
        /\ publication' = [publication EXCEPT ![pub] =
             [pc |-> IF NoSeatsYet(s) THEN "checked" ELSE "conflict", show |-> s]]
        /\ UNCHANGED <<event, show>>
  BY DEF BeginPublish
<1>2. publication'[pub].show = s
      /\ \A q \in Publications : q # pub => publication'[q] = publication[q]
  BY <1>1 DEF OInv, CInv, TypeOK
<1>3. p = organiser[show[s].event] /\ event[show[s].event] # "none"
  BY <1>1, <1>2 DEF Owns, ShowOwner, OInv, ShowsHaveEvents
<1>4. caller' \in [Publications -> People \cup {NULL}] BY DEF OInv
<1>5. PublishedByTheOwner'
  BY <1>1, <1>2, <1>3 DEF OInv, PublishedByTheOwner
<1> QED
  BY <1>1, <1>4, <1>5
  DEF OInv, NothingBeforeTheEvent, OwnedOnceThere, ShowsHaveEvents,
      OnlyOwnersWrite, PatchesKeepTheRest

LEMMA ServePublishKeepsOInv ==
  ASSUME OInv, CInv', NEW pub \in Publications, ServePublish(pub)
  PROVE  OInv'
<1> DEFINE s == publication[pub].show
<1>1. /\ publication[pub].pc # "idle"
      /\ publication'[pub].show = s
      /\ \A q \in Publications : q # pub => publication'[q] = publication[q]
      /\ UNCHANGED <<event, show, organiser, description, given, caller>>
  BY DEF ServePublish, Materialise, LosePublication, OInv, CInv, TypeOK
<1>2. /\ s \in Shows /\ show[s] # NULL
      /\ event[show[s].event] # "none"
      /\ caller[pub] = organiser[show[s].event]
  BY <1>1 DEF OInv, PublishedByTheOwner
<1>3. show[s].event \in Events BY <1>2 DEF OInv, CInv, TypeOK
<1>4. PublishedByTheOwner' BY <1>1, <1>2 DEF OInv, PublishedByTheOwner
<1>5. OwnedOnceThere' /\ ShowsHaveEvents' /\ PatchesKeepTheRest'
  BY <1>1 DEF OInv, OwnedOnceThere, ShowsHaveEvents, PatchesKeepTheRest
<1>6. CASE UNCHANGED hands
  BY <1>1, <1>4, <1>5, <1>6 DEF OInv, NothingBeforeTheEvent, OnlyOwnersWrite
<1>7. CASE For(caller[pub], show[s].event)
  <2>1. hands' \in [Events -> SUBSET (People \cup {NULL})]
        /\ hands' = [hands EXCEPT ![show[s].event] = @ \cup {caller[pub]}]
    BY <1>7, <1>2, <1>3 DEF For, OInv
  <2>2. caller[pub] \in People
    BY <1>1, <1>2, <1>3 DEF OInv, OwnedOnceThere
  <2>3. hands' \in [Events -> SUBSET People]
    BY <2>1, <2>2, <1>3 DEF OInv
  <2>4. NothingBeforeTheEvent' BY <2>1, <1>1, <1>2 DEF OInv, NothingBeforeTheEvent
  <2>5. OnlyOwnersWrite' BY <2>1, <1>1, <1>2, <1>3 DEF OInv, OnlyOwnersWrite
  <2> QED BY <2>3, <2>4, <2>5, <1>1, <1>4, <1>5 DEF OInv
<1> QED BY <1>6, <1>7 DEF ServePublish

LEMMA NextOInv ==
  ASSUME OInv, [OrganisersNext]_organisersVars
  PROVE  OInv'
<1>1. CInv' BY StepIsCatalogueStep, NextCInv DEF OInv
<1>2. ASSUME NEW p \in People, AdminWrites(p) PROVE OInv'
  BY <1>1, <1>2, AdminsKeepOInv
<1>3. ASSUME NEW p \in People, OrganiserWrites(p) PROVE OInv'
  <2>1. ASSUME NEW e \in Events, NEW text \in Texts, PostEvent(p, e, text) PROVE OInv'
    BY <1>1, <2>1, NewEventsKeepOInv DEF PostEvent, CreateEvent
  <2>2. ASSUME NEW s \in Shows, NEW e \in Events, NEW v \in Venues,
               NEW priced \in SUBSET Categories, PostShow(p, s, e, v, priced)
        PROVE  OInv'
    <3>1. organiser[e] = p BY <2>2 DEF PostShow, Owns, EventOwner
    <3> QED BY <1>1, <2>2, <3>1, NewShowsKeepOInv DEF PostShow, CreateShow
  <2> QED BY <1>1, <1>3, <2>1, <2>2, PatchEventKeepsOInv, PostPublishKeepsOInv
          DEF OrganiserWrites
<1>4. ASSUME NEW pub \in Publications, ServePublish(pub) PROVE OInv'
  BY <1>1, <1>4, ServePublishKeepsOInv
<1>5. ASSUME NEW venue, OpenListing(venue) PROVE OInv'
  BY <1>1, <1>5, EventsUntouched DEF OpenListing, vars
<1>6. CASE BrowseEvents
  BY <1>1, <1>6, EventsUntouched DEF BrowseEvents, vars
<1>7. CASE UNCHANGED organisersVars
  BY <1>1, <1>7, EventsUntouched DEF organisersVars, peopleVars, vars
<1> QED BY <1>2, <1>3, <1>4, <1>5, <1>6, <1>7 DEF OrganisersNext

-----------------------------------------------------------------------------
(* Places in a list.                                                       *)

\* Of those in places up to the next one, one at most is new.
LEMMA OneMorePlace ==
  ASSUME NEW S, IsFiniteSet(S), NEW R \in [S -> Nat], NEW n \in Nat,
         \A e, f \in S : R[e] = R[f] => e = f
  PROVE  Cardinality({e \in S : R[e] <= n + 1}) <= Cardinality({e \in S : R[e] <= n}) + 1
<1> DEFINE T == {e \in S : R[e] <= n}
           U == {e \in S : R[e] <= n + 1}
<1>1. IsFiniteSet(T) /\ Cardinality(T) \in Nat BY FS_Subset, FS_CardinalityType
<1>2. CASE \E z \in S : R[z] = n + 1
  <2>1. PICK z \in S : R[z] = n + 1 BY <1>2
  <2>2. U = T \cup {z} BY <2>1
  <2> HIDE DEF T, U
  <2>3. Cardinality(U) \in {Cardinality(T), Cardinality(T) + 1}
    BY <1>1, <2>2, FS_AddElement
  <2> QED BY <1>1, <2>3 DEF T, U
<1>3. CASE ~ \E z \in S : R[z] = n + 1
  <2>1. U = T BY <1>3
  <2> QED BY <1>1, <2>1
<1> QED BY <1>2, <1>3

\* As many places as members, and no two in one: every place is taken.
LEMMA EveryPlaceIsTaken ==
  ASSUME NEW S, IsFiniteSet(S), NEW R \in [S -> 1..Cardinality(S)],
         \A e, f \in S : R[e] = R[f] => e = f,
         NEW k \in 1..Cardinality(S)
  PROVE  \E e \in S : R[e] = k
<1> DEFINE T == 1..Cardinality(S)
<1>1. Cardinality(S) \in Nat BY FS_CardinalityType
<1>2. IsFiniteSet(T) /\ Cardinality(T) = Cardinality(S) BY <1>1, FS_Interval
<1> HIDE DEF T
<1>3. R \in Injection(S, T) BY DEF T, Injection, IsInjective
<1>4. R \in Surjection(S, T) BY <1>2, <1>3, FS_Injection
<1> QED BY <1>4 DEF T, Surjection

\* Without one of its members a set fits into another: it has one member more at most.
LEMMA PlacesMoveByOne ==
  ASSUME NEW A, NEW B, IsFiniteSet(A), IsFiniteSet(B), NEW x, A \ {x} \subseteq B
  PROVE  /\ Cardinality(A) <= Cardinality(B) + 1
         /\ A \subseteq B => Cardinality(A) <= Cardinality(B)
<1>1. Cardinality(A) \in Nat /\ Cardinality(B) \in Nat BY FS_CardinalityType
<1>2. IsFiniteSet(A \ {x})
      /\ Cardinality(A \ {x}) = IF x \in A THEN Cardinality(A) - 1 ELSE Cardinality(A)
  BY FS_RemoveElement
<1>3. Cardinality(A \ {x}) <= Cardinality(B) BY FS_Subset
<1>4. A \subseteq B => Cardinality(A) <= Cardinality(B) BY FS_Subset
<1> QED BY <1>1, <1>2, <1>3, <1>4

-----------------------------------------------------------------------------
(* GET /events.                                                            *)

\* No two rows have one created_at, and the next one's is later than theirs.
CreatedInOrder ==
  /\ created \in [Events -> Nat]
  /\ \A e \in EventRows : created[e] <= Cardinality(EventRows)
  /\ \A e, f \in EventRows : created[e] = created[f] => e = f

\* What a visitor has missed: it was listed throughout, and the pages are past it.
Passed(v) ==
  {e \in visit.steady \ visit.seen : Rank(e, v) <= Offset(visit.page)}

NothingPassedBy ==
  visit # NULL => \A v \in {visit.venue} :
    /\ visit.page >= 1
    /\ visit.steady \subseteq Matching(v)
    /\ ~ visit.done => Cardinality(Passed(v)) <= visit.withdrawn

LInv ==
  /\ visit \in Visits \cup {NULL}
  /\ CreatedInOrder
  /\ NothingPassedBy
  /\ BrowsingMissesNothing

LEMMA InitLInv == OrganisersInit => LInv
<1> SUFFICES ASSUME OrganisersInit PROVE LInv
  OBVIOUS
<1>1. EventRows = {} BY DEF OrganisersInit, Init, EventRows
<1> QED BY <1>1
        DEF OrganisersInit, LInv, CreatedInOrder, NothingPassedBy, BrowsingMissesNothing

\* A row that is listed is one of the table, and each has a place of its own.
LEMMA ListedRows ==
  ASSUME CreatedInOrder, NEW v
  PROVE  /\ IsFiniteSet(Matching(v)) /\ Cardinality(Matching(v)) \in Nat
         /\ Matching(v) \subseteq EventRows
         /\ \A e \in Matching(v) : Rank(e, v) \in 1..Cardinality(Matching(v))
         /\ \A e, f \in Matching(v) : Rank(e, v) = Rank(f, v) => e = f
<1>1. Matching(v) \in SUBSET Events /\ Matching(v) \subseteq EventRows
  BY DEF Matching, Matches, EventRows
<1>2. IsFiniteSet(Matching(v)) /\ Cardinality(Matching(v)) \in Nat
  BY <1>1, OrganisersAssumption, FS_Subset, FS_CardinalityType
<1> DEFINE Up(e) == {f \in Matching(v) : created[f] >= created[e]}
<1>3. \A e \in Matching(v) : created[e] \in Nat BY <1>1 DEF CreatedInOrder
<1>4. ASSUME NEW e \in Matching(v)
      PROVE  /\ IsFiniteSet(Up(e)) /\ e \in Up(e)
             /\ Cardinality(Up(e)) \in 1..Cardinality(Matching(v))
  <2>1. Up(e) \in SUBSET Matching(v) /\ e \in Up(e) BY <1>3
  <2> HIDE DEF Up
  <2>2. IsFiniteSet(Up(e)) /\ Cardinality(Up(e)) <= Cardinality(Matching(v))
        /\ Cardinality(Up(e)) \in Nat
    BY <1>2, <2>1, FS_Subset, FS_CardinalityType
  <2>3. Cardinality(Up(e)) # 0 BY <2>1, <2>2, FS_EmptySet
  <2> QED BY <1>2, <2>1, <2>2, <2>3
<1>5. ASSUME NEW e \in Matching(v), NEW f \in Matching(v), created[f] > created[e]
      PROVE  Cardinality(Up(f)) < Cardinality(Up(e))
  <2>1. Up(f) \subseteq Up(e) \ {e} BY <1>3, <1>5
  <2>2. IsFiniteSet(Up(e)) /\ e \in Up(e) /\ Cardinality(Up(e)) \in Nat
        /\ Cardinality(Up(f)) \in Nat
    BY <1>2, <1>4
  <2> HIDE DEF Up
  <2>3. IsFiniteSet(Up(e) \ {e}) /\ Cardinality(Up(e) \ {e}) = Cardinality(Up(e)) - 1
    BY <2>2, FS_RemoveElement
  <2>4. Cardinality(Up(f)) <= Cardinality(Up(e) \ {e}) BY <2>1, <2>3, FS_Subset
  <2> QED BY <2>2, <2>3, <2>4
<1>6. ASSUME NEW e \in Matching(v), NEW f \in Matching(v), Cardinality(Up(e)) = Cardinality(Up(f))
      PROVE  e = f
  <2>1. created[e] \in Nat /\ created[f] \in Nat BY <1>3
  <2>2. Cardinality(Up(e)) \in Nat BY <1>2, <1>4
  <2> HIDE DEF Up
  <2>3. created[e] = created[f] BY <1>5, <1>6, <2>1, <2>2
  <2> QED BY <1>1, <2>3 DEF CreatedInOrder
<1> QED BY <1>1, <1>2, <1>4, <1>6 DEF Rank

\* The next row is younger than all the others.
LEMMA RowsStayInOrder ==
  ASSUME CreatedInOrder,
         \/ UNCHANGED created /\ EventRows' = EventRows
         \/ \E e \in Events \ EventRows :
              /\ EventRows' = EventRows \cup {e}
              /\ created' = [created EXCEPT ![e] = Cardinality(EventRows) + 1]
  PROVE  CreatedInOrder' /\ \A e \in EventRows : created'[e] = created[e]
<1>1. CASE UNCHANGED created /\ EventRows' = EventRows
  BY <1>1 DEF CreatedInOrder
<1>2. ASSUME NEW e \in Events \ EventRows, EventRows' = EventRows \cup {e},
             created' = [created EXCEPT ![e] = Cardinality(EventRows) + 1]
      PROVE  CreatedInOrder' /\ \A f \in EventRows : created'[f] = created[f]
  <2>1. EventRows \in SUBSET Events BY DEF EventRows
  <2>2. IsFiniteSet(EventRows) /\ Cardinality(EventRows) \in Nat
    BY <2>1, OrganisersAssumption, FS_Subset, FS_CardinalityType
  <2>3. Cardinality(EventRows') = Cardinality(EventRows) + 1
    <3>1. Cardinality(EventRows \cup {e}) = Cardinality(EventRows) + 1
      BY <1>2, <2>2, FS_AddElement
    <3> QED BY <1>2, <3>1
  <2>4. /\ created' \in [Events -> Nat] /\ created'[e] = Cardinality(EventRows) + 1
        /\ \A f \in EventRows : created'[f] = created[f] /\ created[f] \in Nat
    BY <1>2, <2>1, <2>2 DEF CreatedInOrder
  <2>5. ASSUME NEW f \in EventRows' PROVE created'[f] <= Cardinality(EventRows')
    BY <1>2, <2>2, <2>3, <2>4, <2>5 DEF CreatedInOrder
  <2>6. ASSUME NEW f \in EventRows', NEW g \in EventRows', created'[f] = created'[g]
        PROVE  f = g
    BY <1>2, <2>2, <2>4, <2>6 DEF CreatedInOrder
  <2> QED BY <2>4, <2>5, <2>6 DEF CreatedInOrder
<1> QED BY <1>1, <1>2

\* A step that is not the visitor's withdraws one event at most.
LEMMA MeanwhileKeepsLInv ==
  ASSUME LInv, Meanwhile, CreatedInOrder', \A e \in EventRows : created'[e] = created[e],
         NEW x, \A v \in Venues \cup {NULL} : Matching(v) \ Matching(v)' \subseteq {x}
  PROVE  LInv'
<1>1. CASE visit = NULL
  BY <1>1 DEF Meanwhile, LInv, NothingPassedBy, BrowsingMissesNothing
<1>2. CASE visit # NULL
  <2>1. PICK v : v = visit.venue OBVIOUS
  <2>2. visit \in Visits /\ v \in Venues \cup {NULL} BY <1>2, <2>1 DEF LInv, Visits
  <2> DEFINE gone == Matching(v) \ Matching(v)'
  <2>3. visit' = [visit EXCEPT
          !.steady = @ \ gone,
          !.withdrawn = IF gone # {} /\ @ < Cardinality(Events) THEN @ + 1 ELSE @]
    <3>1. UNION {Matching(u) \ Matching(u)' : u \in {visit.venue}} = gone BY <2>1
    <3> HIDE DEF gone
    <3> QED BY <1>2, <3>1, Zenon DEF Meanwhile
  <2>4. /\ visit'.venue = v /\ visit'.page = visit.page /\ visit'.seen = visit.seen
        /\ visit'.done = visit.done /\ visit'.steady = visit.steady \ gone
        /\ visit'.withdrawn = IF gone # {} /\ visit.withdrawn < Cardinality(Events)
                              THEN visit.withdrawn + 1 ELSE visit.withdrawn
    BY <2>1, <2>2, <2>3 DEF Visits
  <2>5. /\ IsFiniteSet(Events) /\ Cardinality(Events) \in Nat
        /\ visit.withdrawn \in 0..Cardinality(Events)
    BY <2>2, OrganisersAssumption, FS_CardinalityType DEF Visits
  <2>6. visit' \in Visits
    <3>1. visit'.withdrawn \in 0..Cardinality(Events) BY <2>4, <2>5
    <3> HIDE DEF gone
    <3> QED BY <2>2, <2>3, <3>1, <2>4 DEF Visits
  <2>7. /\ visit.page \in Nat /\ visit.page >= 1 /\ Offset(visit.page) \in Nat
        /\ visit.steady \subseteq Matching(v)
        /\ ~ visit.done => Cardinality(Passed(v)) <= visit.withdrawn
        /\ visit.done => Cardinality(visit.steady \ visit.seen) <= visit.withdrawn
    BY <1>2, <2>1, <2>2, OrganisersAssumption
    DEF LInv, NothingPassedBy, BrowsingMissesNothing, Visits, Offset
  <2>8. /\ IsFiniteSet(Matching(v)) /\ Matching(v) \subseteq EventRows
        /\ \A e \in Matching(v) : Rank(e, v) \in Nat
        /\ \A e, f \in Matching(v) : Rank(e, v) = Rank(f, v) => e = f
    <3>1. CreatedInOrder BY DEF LInv
    <3> QED BY <3>1, ListedRows
  <2>9. IsFiniteSet(Matching(v)')
    <3>1. Matching(v)' \in SUBSET Events BY DEF Matching
    <3> QED BY <2>5, <3>1, FS_Subset
  <2>10. /\ \A f \in Matching(v) : created[f] \in Nat /\ created'[f] = created[f]
         /\ Matching(v) \ Matching(v)' \subseteq {x}
    <3>1. \A f \in EventRows : created[f] \in Nat
      BY DEF LInv, CreatedInOrder, EventRows
    <3> QED BY <2>2, <2>8, <3>1
  <2>11. ASSUME NEW e \in Matching(v), e \in Matching(v)'
         PROVE  /\ Rank(e, v)' \in Nat
                /\ Rank(e, v) <= Rank(e, v)' + 1
                /\ gone = {} => Rank(e, v) <= Rank(e, v)'
    <3> DEFINE here == {f \in Matching(v) : created[f] >= created[e]}
               then == {f \in Matching(v)' : created'[f] >= created'[e]}
    <3>1. here \in SUBSET Matching(v) /\ then \in SUBSET (Matching(v)') OBVIOUS
    <3>2. here \ {x} \subseteq then
      BY <2>10, <2>11
    <3>3. gone = {} => here \subseteq then
      BY <2>10, <2>11
    <3>4. Rank(e, v) = Cardinality(here) /\ Rank(e, v)' = Cardinality(then) BY DEF Rank
    <3> HIDE DEF here, then
    <3>5. IsFiniteSet(here) /\ IsFiniteSet(then) BY <2>8, <2>9, <3>1, FS_Subset
    <3>6. Cardinality(then) \in Nat BY <3>5, FS_CardinalityType
    <3>7. /\ Cardinality(here) <= Cardinality(then) + 1
          /\ here \subseteq then => Cardinality(here) <= Cardinality(then)
      BY <3>2, <3>5, PlacesMoveByOne
    <3> QED BY <3>3, <3>4, <3>6, <3>7
  <2> DEFINE S == visit.steady \ visit.seen
             T == visit'.steady \ visit'.seen
             old == {e \in S : Rank(e, v) <= Offset(visit.page)}
             new == {e \in T : Rank(e, v)' <= Offset(visit.page)}
  <2>12. Passed(v) = old /\ Passed(v)' = new
    BY <2>4 DEF Passed, Offset
  <2>13. /\ S \in SUBSET Events /\ T \subseteq S /\ visit'.steady \subseteq Matching(v)'
         /\ S \subseteq Matching(v) /\ T \subseteq Matching(v)'
    BY <2>2, <2>4, <2>7 DEF Visits
  <2>14. /\ IsFiniteSet(S) /\ Cardinality(T) <= Cardinality(S) /\ Cardinality(T) \in Nat
         /\ Cardinality(S) \in Nat /\ Cardinality(S) <= Cardinality(Events)
    <3> HIDE DEF S, T
    <3> QED BY <2>5, <2>13, FS_Subset, FS_CardinalityType
  <2>15. old \in SUBSET S /\ new \in SUBSET S BY <2>13
  <2>16. /\ IsFiniteSet(old) /\ Cardinality(old) \in Nat /\ Cardinality(new) \in Nat
         /\ Cardinality(new) <= Cardinality(S)
    <3> HIDE DEF S, old, new
    <3> QED BY <2>14, <2>15, FS_Subset, FS_CardinalityType
  <2>17. ASSUME gone = {}
         PROVE  /\ ~ visit.done => Cardinality(new) <= visit'.withdrawn
                /\ visit.done => Cardinality(T) <= visit'.withdrawn
    <3>1. new \subseteq old BY <2>7, <2>8, <2>11, <2>13, <2>17
    <3>2. Cardinality(new) <= Cardinality(old)
      <4> HIDE DEF S, T, old, new
      <4> QED BY <2>16, <3>1, FS_Subset
    <3>3. visit'.withdrawn = visit.withdrawn BY <2>4, <2>17
    <3>4. visit.done => Cardinality(T) <= visit'.withdrawn
      BY <2>5, <2>7, <2>14, <3>3 DEF S, T
    <3> HIDE DEF S, T, old, new
    <3> QED BY <2>4, <2>5, <2>7, <2>12, <2>14, <2>16, <3>2, <3>3, <3>4
  <2>18. ASSUME gone # {}
         PROVE  /\ ~ visit.done => Cardinality(new) <= visit'.withdrawn
                /\ visit.done => Cardinality(T) <= visit'.withdrawn
    <3> DEFINE near == {e \in S : Rank(e, v) <= Offset(visit.page) + 1}
    <3>1. new \subseteq near
      BY <2>7, <2>8, <2>11, <2>13
    <3>2. Cardinality(near) <= Cardinality(old) + 1
      <4> DEFINE R == [e \in S |-> Rank(e, v)]
      <4>1. R \in [S -> Nat] /\ \A e, f \in S : R[e] = R[f] => e = f
        BY <2>8, <2>13
      <4>2. /\ near = {e \in S : R[e] <= Offset(visit.page) + 1}
            /\ old = {e \in S : R[e] <= Offset(visit.page)}
        OBVIOUS
      <4> HIDE DEF S, R, near, old
      <4> QED BY <2>7, <2>14, <4>1, <4>2, OneMorePlace
    <3>3. near \in SUBSET S OBVIOUS
    <3>4. Cardinality(new) <= Cardinality(near) /\ Cardinality(near) \in Nat
      <4> HIDE DEF S, T, old, new, near
      <4> QED BY <2>14, <3>1, <3>3, FS_Subset, FS_CardinalityType
    <3>5. visit'.withdrawn = IF visit.withdrawn < Cardinality(Events)
                             THEN visit.withdrawn + 1 ELSE visit.withdrawn
      BY <2>4, <2>18
    <3> HIDE DEF S, T, old, new, near
    <3>6. ~ visit.done => Cardinality(new) <= visit'.withdrawn
      BY <2>5, <2>7, <2>12, <2>14, <2>16, <3>2, <3>4, <3>5
    <3>7. visit.done => Cardinality(T) <= visit'.withdrawn
      BY <2>5, <2>7, <2>14, <3>5 DEF S, T
    <3> QED BY <2>4, <3>6, <3>7
  <2>19. /\ ~ visit.done => Cardinality(new) <= visit'.withdrawn
         /\ visit.done => Cardinality(T) <= visit'.withdrawn
    BY <2>4, <2>17, <2>18
  <2>20. NothingPassedBy'
    <3>1. \A w \in {visit'.venue} :
            /\ visit'.page >= 1
            /\ visit'.steady \subseteq Matching(w)'
            /\ ~ visit'.done => Cardinality(Passed(w)') <= visit'.withdrawn
      <4> HIDE DEF S, T, old, new, gone
      <4> QED BY <2>4, <2>7, <2>12, <2>13, <2>19
    <3> QED BY <3>1 DEF NothingPassedBy
  <2>21. BrowsingMissesNothing'
    BY <2>4, <2>19 DEF BrowsingMissesNothing
  <2> HIDE DEF S, T, old, new, gone
  <2> QED BY <2>6, <2>20, <2>21 DEF LInv
<1> QED BY <1>1, <1>2

\* Nothing that is listed changes while the visitor looks.
LEMMA ListingUntouched ==
  ASSUME UNCHANGED <<event, show, created>>, NEW v
  PROVE  /\ Matching(v)' = Matching(v) /\ \A e : Rank(e, v)' = Rank(e, v)
         /\ EventRows' = EventRows /\ (CreatedInOrder => CreatedInOrder')
<1>1. Matching(v)' = Matching(v) BY DEF Matching, Matches
<1>2. EventRows' = EventRows BY DEF EventRows
<1> QED BY <1>1, <1>2 DEF Rank, CreatedInOrder

\* Before the first page nothing is passed by.
LEMMA OpenListingKeepsLInv ==
  ASSUME LInv, NEW v \in Venues \cup {NULL}, OpenListing(v)
  PROVE  LInv'
<1>1. /\ UNCHANGED <<event, show, created>>
      /\ visit' = [venue |-> v, page |-> 1, seen |-> {}, steady |-> Matching(v),
                   withdrawn |-> 0, done |-> FALSE]
  BY DEF OpenListing, vars
<1>2. Cardinality(Events) \in Nat /\ Matching(v) \in SUBSET Events
  BY OrganisersAssumption, FS_CardinalityType DEF Matching
<1>3. visit' \in Visits
  <2>1. 0 \in 0..Cardinality(Events) BY <1>2
  <2> QED BY <1>1, <1>2, <2>1 DEF Visits
<1>4. CreatedInOrder /\ CreatedInOrder' BY <1>1, ListingUntouched DEF LInv
<1>5. \A e \in Matching(v) : Rank(e, v) \in Nat \ {0}
  <2>1. Cardinality(Matching(v)) \in Nat
        /\ \A e \in Matching(v) : Rank(e, v) \in 1..Cardinality(Matching(v))
    BY <1>4, ListedRows
  <2> QED BY <2>1
<1>6. Passed(v)' = {}
  <2>1. Offset(visit'.page) = 0 BY <1>1, OrganisersAssumption DEF Offset
  <2>2. visit'.steady \ visit'.seen = Matching(v) BY <1>1
  <2>3. Passed(v)' = {e \in Matching(v) : Rank(e, v)' <= 0}
    BY <2>1, <2>2 DEF Passed, Offset
  <2>4. \A e \in Matching(v) : Rank(e, v)' = Rank(e, v) BY <1>1, ListingUntouched
  <2> QED BY <1>5, <2>3, <2>4
<1>7. Matching(v)' = Matching(v) BY <1>1, ListingUntouched
<1>8. NothingPassedBy'
  <2>1. \A w \in {visit'.venue} :
          /\ visit'.page >= 1
          /\ visit'.steady \subseteq Matching(w)'
          /\ ~ visit'.done => Cardinality(Passed(w)') <= visit'.withdrawn
    BY <1>1, <1>6, <1>7, FS_EmptySet
  <2> QED BY <2>1 DEF NothingPassedBy
<1>9. BrowsingMissesNothing' BY <1>1 DEF BrowsingMissesNothing
<1> QED BY <1>3, <1>4, <1>8, <1>9 DEF LInv

\* A page holds all that its places hold, and after the last page there is none.
LEMMA BrowseEventsKeepsLInv ==
  ASSUME LInv, BrowseEvents
  PROVE  LInv'
<1>1. PICK v : v = visit.venue OBVIOUS
<1>2. PICK page : page = visit.page OBVIOUS
<1>3. /\ visit \in Visits /\ visit # NULL /\ ~ visit.done /\ v \in Venues \cup {NULL}
      /\ UNCHANGED <<event, show, created>>
  BY <1>1 DEF BrowseEvents, LInv, Visits, vars
<1>4. visit' = [visit EXCEPT !.seen = @ \cup Page(v, page), !.page = page + 1,
                  !.done = page * PageSize >= Total(v, page)]
  BY <1>1, <1>2 DEF BrowseEvents
<1>5. /\ page \in Nat /\ page >= 1 /\ PageSize \in Nat \ {0}
      /\ visit.steady \subseteq Matching(v)
      /\ Cardinality(Passed(v)) <= visit.withdrawn
      /\ visit.withdrawn \in 0..Cardinality(Events)
  BY <1>1, <1>2, <1>3, OrganisersAssumption DEF LInv, NothingPassedBy, Visits
<1>6. /\ Offset(page) \in Nat /\ Offset(page + 1) = Offset(page) + PageSize
      /\ page * PageSize = Offset(page) + PageSize
  BY <1>5 DEF Offset
<1>7. Page(v, page) \in SUBSET Events /\ Matching(v) \in SUBSET Events
  BY DEF Page, Matching
<1>8. /\ visit' \in Visits
      /\ visit'.venue = v /\ visit'.page = page + 1 /\ visit'.steady = visit.steady
      /\ visit'.seen = visit.seen \cup Page(v, page)
      /\ visit'.withdrawn = visit.withdrawn
      /\ visit'.done <=> page * PageSize >= Total(v, page)
  <2> DEFINE last == page * PageSize >= Total(v, page)
             more == Page(v, page)
  <2>1. last \in BOOLEAN /\ page + 1 \in Nat BY <1>5
  <2> HIDE DEF last, more
  <2>2. visit' = [visit EXCEPT !.seen = @ \cup more, !.page = page + 1, !.done = last]
    BY <1>4 DEF last, more
  <2>3. /\ visit'.venue = v /\ visit'.page = page + 1 /\ visit'.steady = visit.steady
        /\ visit'.seen = visit.seen \cup more
        /\ visit'.withdrawn = visit.withdrawn
        /\ visit'.done = last
    BY <1>1, <1>3, <2>2 DEF Visits
  <2>4. visit' \in Visits
    <3>1. more \in SUBSET Events BY <1>7 DEF more
    <3> QED BY <1>3, <2>1, <2>2, <3>1 DEF Visits
  <2> QED BY <2>3, <2>4 DEF last, more
<1>9. /\ CreatedInOrder' /\ Matching(v)' = Matching(v)
      /\ \A e : Rank(e, v)' = Rank(e, v)
  BY <1>3, ListingUntouched DEF LInv
<1>10. /\ IsFiniteSet(Matching(v)) /\ Cardinality(Matching(v)) \in Nat
       /\ \A e \in Matching(v) : Rank(e, v) \in 1..Cardinality(Matching(v))
       /\ \A e, f \in Matching(v) : Rank(e, v) = Rank(f, v) => e = f
  BY ListedRows DEF LInv
<1> DEFINE missed == visit.steady \ (visit.seen \cup Page(v, page))
<1>11. ASSUME NEW e \in missed, Rank(e, v) <= Offset(page) + PageSize
       PROVE  e \in Passed(v)
  BY <1>2, <1>5, <1>6, <1>10, <1>11 DEF Passed, Page
<1>12. Passed(v)' \subseteq Passed(v)
  <2>1. Passed(v)' = {e \in missed : Rank(e, v)' <= Offset(page + 1)}
    BY <1>8 DEF Passed, Offset
  <2> HIDE DEF missed
  <2> QED BY <1>6, <1>9, <1>11, <2>1
<1>13. ASSUME page * PageSize >= Total(v, page) PROVE missed \subseteq Passed(v)
  <2>1. CASE Page(v, page) # {}
    <3>1. Cardinality(Matching(v)) <= Offset(page) + PageSize
      BY <1>6, <1>13, <2>1 DEF Total
    <3>2. \A e \in missed : Rank(e, v) <= Offset(page) + PageSize
      BY <1>5, <1>6, <1>10, <3>1
    <3> HIDE DEF missed
    <3> QED BY <1>11, <3>2
  <2>2. CASE Page(v, page) = {}
    <3>1. ASSUME NEW e \in missed, Rank(e, v) > Offset(page) PROVE FALSE
      <4> DEFINE R == [f \in Matching(v) |-> Rank(f, v)]
      <4>1. /\ R \in [Matching(v) -> 1..Cardinality(Matching(v))]
            /\ \A f, g \in Matching(v) : R[f] = R[g] => f = g
        BY <1>10
      <4>2. Offset(page) + 1 \in 1..Cardinality(Matching(v))
        BY <1>5, <1>6, <1>10, <3>1
      <4>3. PICK f \in Matching(v) : R[f] = Offset(page) + 1
        <5> HIDE DEF R
        <5> QED BY <1>10, <4>1, <4>2, EveryPlaceIsTaken
      <4>4. f \in Page(v, page) BY <1>5, <1>6, <4>3 DEF Page
      <4> QED BY <2>2, <4>4
    <3>2. ASSUME NEW e \in missed PROVE e \in Passed(v)
      <4>1. Rank(e, v) \in Nat BY <1>5, <1>10
      <4>2. Rank(e, v) <= Offset(page) + PageSize BY <1>5, <1>6, <3>1, <4>1
      <4> QED BY <1>11, <4>2
    <3> QED BY <3>2
  <2> QED BY <2>1, <2>2
<1>14. IsFiniteSet(Passed(v)) /\ Cardinality(Passed(v)) \in Nat
  <2>1. Passed(v) \in SUBSET Events BY <1>5, <1>7 DEF Passed
  <2> QED BY <2>1, OrganisersAssumption, FS_Subset, FS_CardinalityType
<1>15. Cardinality(Passed(v)') <= visit'.withdrawn
  <2>1. Cardinality(Passed(v)') <= Cardinality(Passed(v)) /\ Cardinality(Passed(v)') \in Nat
    BY <1>12, <1>14, FS_Subset, FS_CardinalityType
  <2> QED BY <1>5, <1>8, <1>14, <2>1
<1>16. NothingPassedBy'
  <2>1. \A w \in {visit'.venue} :
          /\ visit'.page >= 1
          /\ visit'.steady \subseteq Matching(w)'
          /\ ~ visit'.done => Cardinality(Passed(w)') <= visit'.withdrawn
    BY <1>5, <1>8, <1>9, <1>15
  <2> QED BY <2>1 DEF NothingPassedBy
<1>17. BrowsingMissesNothing'
  <2>1. ASSUME page * PageSize >= Total(v, page)
        PROVE  Cardinality(missed) <= visit.withdrawn
    <3>1. missed \subseteq Passed(v) BY <1>13, <2>1
    <3> HIDE DEF missed
    <3>2. Cardinality(missed) <= Cardinality(Passed(v)) /\ Cardinality(missed) \in Nat
      BY <1>14, <3>1, FS_Subset, FS_CardinalityType
    <3> QED BY <1>5, <1>14, <3>2
  <2>2. visit'.steady \ visit'.seen = missed BY <1>8
  <2> QED BY <1>8, <2>1, <2>2 DEF BrowsingMissesNothing
<1> QED BY <1>8, <1>9, <1>16, <1>17 DEF LInv

-----------------------------------------------------------------------------
\* Only the update of an event can withdraw one, and it is of one event.
LEMMA OneEventChanges ==
  ASSUME CInv, NEW x \in Events, \A e \in Events \ {x} : event'[e] = event[e],
         \A s \in Shows : show[s] # NULL => show'[s] = show[s],
         NEW v
  PROVE  Matching(v) \ Matching(v)' \subseteq {x}
BY DEF Matching, Matches, CInv, TypeOK

LEMMA MeanwhileNoEventIsAdded ==
  ASSUME CInv, LInv, Meanwhile, NEW x \in Events,
         \A e \in Events \ {x} : event'[e] = event[e],
         event'[x] = "none" <=> event[x] = "none",
         \A s \in Shows : show[s] # NULL => show'[s] = show[s],
         UNCHANGED created
  PROVE  LInv'
<1>1. EventRows' = EventRows
  BY DEF EventRows
<1>2. CreatedInOrder' /\ \A e \in EventRows : created'[e] = created[e]
  BY <1>1, RowsStayInOrder DEF LInv
<1>3. \A v \in Venues \cup {NULL} : Matching(v) \ Matching(v)' \subseteq {x}
  BY OneEventChanges
<1> QED BY <1>2, <1>3, MeanwhileKeepsLInv

LEMMA MeanwhileNoEventChanges ==
  ASSUME CInv, LInv, Meanwhile, UNCHANGED <<event, created>>,
         \A s \in Shows : show[s] # NULL => show'[s] = show[s]
  PROVE  LInv'
<1>1. CreatedInOrder' /\ \A e \in EventRows : created'[e] = created[e]
  BY RowsStayInOrder DEF LInv, EventRows
<1>2. \A v \in Venues \cup {NULL} : Matching(v) \ Matching(v)' \subseteq {NULL}
  BY DEF Matching, Matches, CInv, TypeOK
<1> QED BY <1>1, <1>2, MeanwhileKeepsLInv

LEMMA MeanwhileAnEventIsAdded ==
  ASSUME CInv, LInv, Meanwhile, UNCHANGED show,
         NEW p, NEW x \in Events, NEW text, NEW is \in {"draft", "published"},
         event[x] = "none", event' = [event EXCEPT ![x] = is], EventRow(p, x, text)
  PROVE  LInv'
<1>1. /\ event \in [Events -> {"none", "draft", "published"}]
      /\ \A e \in Events \ {x} : event'[e] = event[e]
      /\ event'[x] # "none"
  BY DEF CInv, TypeOK
<1>2. x \in Events \ EventRows /\ EventRows' = EventRows \cup {x}
  BY <1>1 DEF EventRows
<1>3. CreatedInOrder' /\ \A e \in EventRows : created'[e] = created[e]
  <2>1. created' = [created EXCEPT ![x] = Cardinality(EventRows) + 1] BY DEF EventRow
  <2> QED BY <1>2, <2>1, RowsStayInOrder DEF LInv
<1>4. \A v \in Venues \cup {NULL} : Matching(v) \ Matching(v)' \subseteq {x}
  BY <1>1, OneEventChanges
<1> QED BY <1>3, <1>4, MeanwhileKeepsLInv

\* Nobody does anything.
LEMMA ListingStands ==
  ASSUME LInv, UNCHANGED <<event, show, created, visit>>
  PROVE  LInv'
<1>1. CreatedInOrder' BY ListingUntouched DEF LInv
<1>2. NothingPassedBy'
  <2>1. ASSUME NEW v PROVE Matching(v)' = Matching(v) /\ Passed(v)' = Passed(v)
    <3>1. Matching(v)' = Matching(v) /\ \A e : Rank(e, v)' = Rank(e, v)
      BY ListingUntouched
    <3>2. Passed(v)' = {e \in visit.steady \ visit.seen : Rank(e, v)' <= Offset(visit.page)}
      BY DEF Passed, Offset
    <3> QED BY <3>1, <3>2 DEF Passed
  <2> QED BY <2>1 DEF LInv, NothingPassedBy
<1> QED BY <1>1, <1>2 DEF LInv, BrowsingMissesNothing

LEMMA NextLInv ==
  ASSUME CInv, LInv, [OrganisersNext]_organisersVars
  PROVE  LInv'
<1>1. ASSUME NEW p \in People, AdminWrites(p) PROVE LInv'
  BY <1>1, MeanwhileNoEventChanges
  DEF AdminWrites, PostVenue, PostCategory, PostSeats, CreateVenue, CreateCategory,
      BulkCreateSeats, EventsAlone
<1>2. ASSUME NEW p \in People, OrganiserWrites(p) PROVE LInv'
  <2>1. ASSUME NEW e \in Events, NEW text \in Texts, PostEvent(p, e, text) PROVE LInv'
    BY <2>1, MeanwhileAnEventIsAdded DEF PostEvent, CreateEvent
  <2>2. ASSUME NEW e \in Events, NEW body \in Bodies, PatchEvent(p, e, body) PROVE LInv'
    <3>1. /\ \A f \in Events \ {e} : event'[f] = event[f]
          /\ event'[e] = "none" <=> event[e] = "none"
          /\ UNCHANGED <<show, created>> /\ Meanwhile
      BY <2>2 DEF PatchEvent, UpdateEvent, CInv, TypeOK
    <3> QED BY <3>1, MeanwhileNoEventIsAdded
  <2>3. ASSUME NEW s \in Shows, NEW e \in Events, NEW v \in Venues,
               NEW priced \in SUBSET Categories, PostShow(p, s, e, v, priced)
        PROVE  LInv'
    <3>1. \A z \in Shows : show[z] # NULL => show'[z] = show[z]
      BY <2>3 DEF PostShow, CreateShow, CInv, TypeOK
    <3> QED BY <2>3, <3>1, MeanwhileNoEventChanges DEF PostShow, CreateShow
  <2>4. ASSUME NEW pub \in Publications, PostPublish(p, pub) PROVE LInv'
    BY <2>4, MeanwhileNoEventChanges DEF PostPublish, BeginPublish
  <2> QED BY <1>2, <2>1, <2>2, <2>3, <2>4 DEF OrganiserWrites
<1>3. ASSUME NEW pub \in Publications, ServePublish(pub) PROVE LInv'
  BY <1>3, MeanwhileNoEventChanges DEF ServePublish, Materialise, LosePublication
<1>4. ASSUME NEW v \in Venues \cup {NULL}, OpenListing(v) PROVE LInv'
  BY <1>4, OpenListingKeepsLInv
<1>5. CASE BrowseEvents BY <1>5, BrowseEventsKeepsLInv
<1>6. CASE UNCHANGED organisersVars BY <1>6, ListingStands DEF organisersVars, peopleVars, vars
<1> QED BY <1>1, <1>2, <1>3, <1>4, <1>5, <1>6 DEF OrganisersNext
-----------------------------------------------------------------------------
(* The theorems.                                                           *)

\* The routes do to the catalogue what its handlers do, so that all that is true
\* of the handlers is true behind the middleware (OrganisersSpec).
THEOREM RoutesAreHandlers == OrganisersSpec => Spec
<1>1. OrganisersInit => Init BY DEF OrganisersInit
<1> QED BY <1>1, StepIsCatalogueStep, PTL DEF OrganisersSpec, Spec

\* The invariants of the whole.
LEMMA AlwaysOInv == OrganisersSpec => [](OInv /\ LInv)
<1>1. OrganisersInit => OInv /\ LInv BY InitOInv, InitLInv
<1>2. OInv /\ LInv /\ [OrganisersNext]_organisersVars => OInv' /\ LInv'
  <2>1. OInv => CInv BY DEF OInv
  <2> QED BY <2>1, NextOInv, NextLInv
<1> QED BY <1>1, <1>2, PTL DEF OrganisersSpec

\* Every row of the catalogue, owner, description and visit keeps its shape.
THEOREM OrganisersTypeCorrect == OrganisersSpec => []OrganisersTypeOK
<1>1. OInv /\ LInv => OrganisersTypeOK
  BY DEF OInv, LInv, CInv, CreatedInOrder, OrganisersTypeOK
<1> QED BY <1>1, AlwaysOInv, PTL

\* Nothing of an event is ever written for somebody else, a publication that
\* ends long after its check included (requireOwnership, publishShow).
THEOREM OwnersAlone == OrganisersSpec => []OnlyOwnersWrite
<1>1. OInv => OnlyOwnersWrite BY DEF OInv
<1> QED BY <1>1, AlwaysOInv, PTL

\* No sequence of patches loses a column that one of them left out (updateEvent).
THEOREM PatchesCompose == OrganisersSpec => []PatchesKeepTheRest
<1>1. OInv => PatchesKeepTheRest BY DEF OInv
<1> QED BY <1>1, AlwaysOInv, PTL

\* Paging by OFFSET loses a visitor no more events than were withdrawn while he
\* looked, however many organisers publish and whatever the size of a page
\* (listPublishedEvents).
THEOREM VisitorsMissNothing == OrganisersSpec => []BrowsingMissesNothing
<1>1. LInv => BrowsingMissesNothing BY DEF LInv
<1> QED BY <1>1, AlwaysOInv, PTL
=============================================================================
