---------------------------- MODULE MCCatalogue ----------------------------
(***************************************************************************)
(* A small instance of Seed, with everything below it, for TLC.  All of it *)
(* at once is too much for one run: a step is taken when it ends in one of *)
(* five scenes.                                                            *)
(***************************************************************************)
EXTENDS Seed, TLC

CONSTANTS e1, e2, e3, adm, o1, o2

Roles == (adm :> "ADMIN") @@ (o1 :> "ORGANISER") @@ (o2 :> "ORGANISER")
Demo  == <<"admin", "organiser", "customer">>
Rows  == <<"A", "B">>

Row(label, count, first, gridRow, gridCol) ==
  [label |-> label, count |-> count, startSeatNumber |-> first,
   gridRow |-> gridRow, startGridCol |-> gridCol]

\* The second row takes a grid cell of the first, the third a number of it; the
\* second and the third go together.
Shapes == {Row("A", 2, 1, 0, 0), Row("B", 1, 1, 0, 1), Row("A", 1, 2, 1, 0)}

Symmetry == UNION {Permutations(ids) :
    ids \in {Shows, Categories, Venues, Publications, Seeds}}

-----------------------------------------------------------------------------
Made      == {e \in Events : event[e] # "none"}
Planned   == {s \in Shows : show[s] # NULL}
Published == {p \in Publications : publication[p].pc # "idle"}
NoSeeding == \A q \in Seeds : seed[q].pc = "idle"
Untouched == \A e \in Events : given[e] = NoText

\* Which ids events get, and who makes the first, is all the same.
InOrder ==
  /\ Made \in {{}, {e1}, {e1, e2}, Events}
  /\ organiser[e1] \in {NULL, o1}

\* Venues are furnished while the show of an event is published, twice.
Furnish ==
  /\ Made \subseteq {e1} /\ Cardinality(Planned) <= 1
  /\ event[e1] # "published" /\ Untouched
  /\ visit = NULL /\ NoSeeding /\ demoVenues = {}

\* Two shows of one venue are published while it gets seats.
Program ==
  /\ Cardinality(venues) <= 1 /\ Made \subseteq {e1} /\ event[e1] # "published"
  /\ Untouched /\ visit = NULL /\ NoSeeding /\ demoVenues = {}

\* Events are browsed while organisers publish and withdraw them.
Browse ==
  /\ Cardinality(venues) <= 1 /\ seats = {} /\ demoVenues = {}
  /\ \A c \in Categories : category[c] # NULL => category[c].name = Premium
  /\ Cardinality(Planned) <= 1 /\ \A e \in Made : organiser[e] = o1
  /\ Untouched /\ Published = {} /\ NoSeeding

\* Two organisers edit their events and publish a show.
Edit ==
  /\ Cardinality(Made) <= 2 /\ Cardinality(Planned) <= 1
  /\ Cardinality(venues) <= 1 /\ seats = {} /\ demoVenues = {}
  /\ \A c \in Categories : category[c] # NULL => category[c].name = Premium
  /\ Cardinality(Published) <= 1
  /\ visit = NULL /\ NoSeeding

\* The demo data is seeded into the empty tables, while an administrator adds a
\* seat and categories to the new venue and the organiser publishes a show of it.
Seeded(field) == {seed[q][field] : q \in Seeds}
Seeding ==
  /\ ~ NoSeeding
  /\ venues = demoVenues
  /\ Cardinality(seats \ UNION Seeded("seats")) <= 2
  /\ Made \subseteq Seeded("event") \cup {show[s].event : s \in Demos}
  /\ Planned \subseteq Demos
  /\ Cardinality(Published) <= 1 /\ visit = NULL /\ Untouched

OneScene == InOrder /\ (Furnish \/ Program \/ Browse \/ Edit \/ Seeding)

CatalogueSpec == SeedInit /\ [][SeedNext /\ OneScene']_catalogueVars
=============================================================================
