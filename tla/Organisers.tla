----------------------------- MODULE Organisers -----------------------------
(***************************************************************************)
(* The catalogue as people write and read it: requireRole() and            *)
(* requireOwnership() in front of the handlers of ShowCatalogue, the       *)
(* columns of an event, and GET /events, which a visitor goes through page *)
(* by page while organisers publish and withdraw events.                   *)
(*                                                                         *)
(* A request that is turned away changes nothing and has no action.  Roles *)
(* and owners never change, so that what the middleware read still holds   *)
(* when the handler runs.  Of an event's columns its description stands    *)
(* for all that a PATCH may leave out.                                     *)
(***************************************************************************)
EXTENDS ShowCatalogue

CONSTANTS
  People,     \* rows of users
  RoleOf,     \* users.role
  Texts,      \* descriptions of events
  NoText,     \* the default of createEventSchema, ''
  PageSize    \* PAGE_SIZE of events.queries.js

ASSUME OrganisersAssumption ==
  /\ RoleOf \in [People -> {"ADMIN", "ORGANISER", "CUSTOMER"}]
  /\ NULL \notin People \cup Texts \cup Venues
  /\ NoText \in Texts
  /\ PageSize \in Nat \ {0}
  /\ IsFiniteSet(Events)

VARIABLES
  organiser,    \* events.organiser_id
  created,      \* events.created_at, counted in rows: 1 is the oldest
  description,  \* events.description
  given,        \* history: the description that was last asked for
  caller,       \* who asked for a publication
  hands,        \* history: for whom an event, its shows and their seat maps were written
  visit         \* a visitor's way through GET /events

peopleVars == <<organiser, created, description, given, caller, hands, visit>>
organisersVars == <<vars, peopleVars>>

\* steady: what matched at every moment of the visit; withdrawn: how often an
\* event stopped matching, counted up to the number of events.
Visits ==
  [venue : Venues \cup {NULL}, page : Nat, seen : SUBSET Events,
   steady : SUBSET Events, withdrawn : 0..Cardinality(Events), done : BOOLEAN]

OrganisersTypeOK ==
  /\ TypeOK
  /\ organiser \in [Events -> People \cup {NULL}]
  /\ created \in [Events -> Nat]
  /\ description \in [Events -> Texts]
  /\ given \in [Events -> Texts]
  /\ caller \in [Publications -> People \cup {NULL}]
  /\ hands \in [Events -> SUBSET People]
  /\ visit \in Visits \cup {NULL}

OrganisersInit ==
  /\ Init
  /\ organiser = [e \in Events |-> NULL]
  /\ created = [e \in Events |-> 0]
  /\ description = [e \in Events |-> NoText]
  /\ given = [e \in Events |-> NoText]
  /\ caller = [p \in Publications |-> NULL]
  /\ hands = [e \in Events |-> {}]
  /\ visit = NULL

-----------------------------------------------------------------------------
(* Middleware.                                                             *)

\* requireRole()
May(p, roles) == RoleOf[p] \in roles

\* The loaders of requireOwnership(): whose the event is, and whose the event of
\* the show.
EventOwner(e) == IF event[e] = "none" THEN NULL ELSE organiser[e]
ShowOwner(s) == IF show[s] = NULL THEN NULL ELSE organiser[show[s].event]

\* The role taken for the ownership.
OwnsAsOrganiser(p, owner) == owner # NULL /\ May(p, {"ORGANISER"})

\* requireOwnership(): 404 without a resource, 403 if it is somebody else's.
Owns(p, owner) == owner # NULL /\ owner = p

-----------------------------------------------------------------------------
(* GET /events.                                                            *)

\* The WHERE clause, with and without a city: EXISTS a show there.
Matches(e, venue) ==
  /\ event[e] = "published"
  /\ venue # NULL =>
       \E s \in Shows : show[s] # NULL /\ show[s].event = e /\ show[s].venue = venue

Matching(venue) == {e \in Events : Matches(e, venue)}

\* ORDER BY created_at DESC: the place of a row, the youngest one's is 1.
Rank(e, venue) == Cardinality({f \in Matching(venue) : created[f] >= created[e]})

Offset(page) == (page - 1) * PageSize

\* LIMIT ... OFFSET ...
Page(venue, page) ==
  {e \in Matching(venue) :
     Rank(e, venue) \in (Offset(page) + 1)..(Offset(page) + PageSize)}

\* The rows of the page for the rows of all.
RowsOfPage(venue, page) == Cardinality(Page(venue, page))

\* COUNT(*) OVER (), read from the first row of the page if it has one.
Total(venue, page) ==
  IF Page(venue, page) = {} THEN 0 ELSE Cardinality(Matching(venue))

OpenListing(venue) ==
  /\ visit = NULL
  /\ visit' = [venue |-> venue, page |-> 1, seen |-> {},
               steady |-> Matching(venue),
               withdrawn |-> 0, done |-> FALSE]
  /\ UNCHANGED <<vars, organiser, created, description, given, caller, hands>>

\* The next page, until the total says that there is none.
BrowseEvents ==
  /\ visit # NULL /\ ~ visit.done
  /\ visit' = [visit EXCEPT
       !.seen = @ \cup Page(visit.venue, visit.page),
       !.page = @ + 1,
       !.done = visit.page * PageSize >= Total(visit.venue, visit.page)]
  /\ UNCHANGED <<vars, organiser, created, description, given, caller, hands>>

\* What a visitor misses of a step that is not his own.
Meanwhile ==
  IF visit = NULL THEN UNCHANGED visit
  ELSE LET gone == UNION {Matching(v) \ Matching(v)' : v \in {visit.venue}}
       IN  visit' = [visit EXCEPT
             !.steady = @ \ gone,
             !.withdrawn = IF gone # {} /\ @ < Cardinality(Events) THEN @ + 1 ELSE @]

-----------------------------------------------------------------------------
(* /venues.                                                                *)

EventsAlone == UNCHANGED <<organiser, created, description, given, caller, hands>>

PostVenue(p, v) ==
  May(p, {"ADMIN"}) /\ CreateVenue(v) /\ EventsAlone /\ Meanwhile

PostCategory(p, c, v, name) ==
  May(p, {"ADMIN"}) /\ CreateCategory(c, v, name) /\ EventsAlone /\ Meanwhile

PostSeats(p, v, rows) ==
  May(p, {"ADMIN"}) /\ BulkCreateSeats(v, rows) /\ EventsAlone /\ Meanwhile

-----------------------------------------------------------------------------
(* /events and /shows.                                                     *)

For(p, e) == hands' = [hands EXCEPT ![e] = @ \cup {p}]

EventRows == {e \in Events : event[e] # "none"}

\* The row insertEvent() inserts: the caller is the owner.
EventRow(p, e, text) ==
  /\ organiser' = [organiser EXCEPT ![e] = p]
  /\ created' = [created EXCEPT ![e] = Cardinality(EventRows) + 1]
  /\ description' = [description EXCEPT ![e] = text]
  /\ given' = [given EXCEPT ![e] = text]

PostEvent(p, e, text) ==
  /\ May(p, {"ORGANISER"})
  /\ CreateEvent(e)
  /\ EventRow(p, e, text)
  /\ For(p, e) /\ UNCHANGED caller /\ Meanwhile

\* The body of a PATCH; NULL is a key that is not there.
Bodies == [isPublished : {"draft", "published", NULL}, description : Texts \cup {NULL}]

\* createEventSchema.partial(), whose default fills the key in.
ParsedPartial(body) ==
  [body EXCEPT !.description = IF @ = NULL THEN NoText ELSE @]

\* updateEventSchema: a key that is left out stays out.
Parsed(body) == body

\* The SET clause, from the keys that are there.
Patched(value, patch) == IF patch = NULL THEN value ELSE patch

PatchEvent(p, e, body) ==
  /\ May(p, {"ORGANISER"})
  /\ Owns(p, EventOwner(e))
  /\ UpdateEvent(e)
  /\ event'[e] = Patched(event[e], Parsed(body).isPublished)
  /\ description' = [description EXCEPT ![e] = Patched(@, Parsed(body).description)]
  /\ given' = [given EXCEPT ![e] = Patched(@, body.description)]
  /\ For(p, e) /\ UNCHANGED <<organiser, created, caller>> /\ Meanwhile

PostShow(p, s, e, v, priced) ==
  /\ May(p, {"ORGANISER"})
  /\ Owns(p, EventOwner(e))
  /\ CreateShow(s, e, v, priced)
  /\ For(p, e) /\ UNCHANGED <<organiser, created, description, given, caller>>
  /\ Meanwhile

PostPublish(p, pub) ==
  /\ May(p, {"ORGANISER"})
  /\ BeginPublish(pub)
  /\ Owns(p, ShowOwner(publication'[pub].show))
  /\ caller' = [caller EXCEPT ![pub] = p]
  /\ UNCHANGED <<organiser, created, description, given, hands>> /\ Meanwhile

\* The transaction of publishShow(), or its 409.
ServePublish(pub) ==
  /\ \/ Materialise(pub) /\ For(caller[pub], show[publication[pub].show].event)
     \/ LosePublication(pub) /\ UNCHANGED hands
  /\ UNCHANGED <<organiser, created, description, given, caller>> /\ Meanwhile

-----------------------------------------------------------------------------
AdminWrites(p) ==
  \/ \E v \in Venues : PostVenue(p, v)
  \/ \E c \in Categories, v \in Venues, name \in Names : PostCategory(p, c, v, name)
  \/ \E v \in Venues, rows \in RowRequests : PostSeats(p, v, rows)

OrganiserWrites(p) ==
  \/ \E e \in Events, text \in Texts : PostEvent(p, e, text)
  \/ \E e \in Events, body \in Bodies : PatchEvent(p, e, body)
  \/ \E s \in Shows, e \in Events, v \in Venues, priced \in SUBSET Categories :
       PostShow(p, s, e, v, priced)
  \/ \E pub \in Publications : PostPublish(p, pub)

OrganisersNext ==
  \/ \E p \in People : AdminWrites(p) \/ OrganiserWrites(p)
  \/ \E pub \in Publications : ServePublish(pub)
  \/ \E venue \in Venues \cup {NULL} : OpenListing(venue)
  \/ BrowseEvents

OrganisersSpec == OrganisersInit /\ [][OrganisersNext]_organisersVars

-----------------------------------------------------------------------------
(* Safety.                                                                 *)

\* "Having the ORGANISER role proves nothing about owning THIS event"
\* (requireOwnership.js): an event, its shows, and the seat maps their
\* publications make are written for nobody but the organiser who created it,
\* although a publication ends long after the check.
OnlyOwnersWrite == \A e \in Events : hands[e] \subseteq {organiser[e]}

\* A PATCH writes the columns it names and no other: patches that come one after
\* the other, in whatever order, lose nothing of each other
\* (updateEventSchema's comment, updateEvent).
PatchesKeepTheRest == \A e \in Events : description[e] = given[e]

\* Who goes through the pages until the total says it was the last has seen every
\* event that was listed throughout, but for one at most for each event that was
\* withdrawn meanwhile; publications and new shows never hide one
\* (listPublishedEvents pages by OFFSET).
BrowsingMissesNothing ==
  visit # NULL /\ visit.done =>
    Cardinality(visit.steady \ visit.seen) <= visit.withdrawn
=============================================================================
