------------------------------ MODULE Records ------------------------------
(***************************************************************************)
(* Identifiers of ARCs (payload/identifiers and the mappers' precedence).  *)
(* The identifier is what the API stores an ARC under: two ARCs that share *)
(* one overwrite each other, and an ARC that gets another one the next     *)
(* night is stored twice.  Records are read again as the sources change.   *)
(***************************************************************************)
EXTENDS Integers, FiniteSets, Sequences, SequencesExt

CONSTANTS Keys,           \* URLs, DOIs, catalog ids and slugs, as numbers in the order min() takes
          Units,          \* the harvest units: the keys they are discovered under
          CatalogIds,     \* those whose key is a catalog id, not the page's URL
          Addresses,      \* the keys that look like a URL
          Titles,
          Sanitise,       \* sanitize_identifier: it maps different keys to one
          Slug,           \* to_identifier_slug: none for a title without a letter of a-z0-9
          Landing,        \* the PhenoRoam landing page of a catalog id
          LastSegment,    \* of a URL
          Datasets,       \* the records the sources may publish
          MaxReadings

None == 0
Vocabularies == {"schema_org", "regal", "ckanext", "mods", "phenoroam", "inspire"}
SeveralAPage == {"schema_org", "regal", "ckanext"}
Named == {"ckanext", "inspire"}   \* dcat_ap discovers IRIs, and records without a fileIdentifier are refused

(* own: the record's IRI, Regal id, object id, itemUUID or fileIdentifier. *)
Dataset == [own : Keys \cup {None}, links : SUBSET Keys, sameAs : SUBSET Keys,
            doi : Keys \cup {None}, title : Titles \cup {None}]

ASSUME RecordsAssumption ==
  /\ Keys \subseteq Nat \ {None} /\ None \notin Titles
  /\ CatalogIds \subseteq Units /\ Units \cup Addresses \subseteq Keys
  /\ Sanitise \in [Keys -> Keys] /\ \A k \in Keys : Sanitise[Sanitise[k]] = Sanitise[k]
  /\ Slug \in [Titles -> Keys \cup {None}]
  /\ Landing \in [Units -> Keys] /\ LastSegment \in [Addresses -> Keys]
  /\ Datasets \subseteq Dataset /\ MaxReadings \in Nat

VARIABLES vocabulary,   \* the repository's mapper
          arcs,         \* what was handed over: [unit, of, alone, id]
          readings

rvars == <<vocabulary, arcs, readings>>

RecordsInit == vocabulary \in Vocabularies /\ arcs = {} /\ readings = 0

-----------------------------------------------------------------------------
Clean(k) == IF k = None THEN None ELSE Sanitise[k]
SlugOf(t) == IF t = None THEN None ELSE Slug[t]
Least(ks) == IF ks = {} THEN None ELSE CHOOSE k \in ks : \A j \in ks : k <= j
FirstOf(ks) == LET named == {i \in DOMAIN ks : ks[i] # None}
               IN  IF named = {} THEN None ELSE ks[Least(named)]

PageKey(u) == IF u \in CatalogIds THEN u ELSE Clean(u)

OfGraph(d, u, alone) ==
  <<IF alone THEN PageKey(u) ELSE None, Clean(Least(d.links)), Clean(Least(d.sameAs)), Clean(d.own), d.doi>>

OfRegal(d) == <<Clean(d.own), Clean(d.doi), SlugOf(d.title)>>
OfCatalog(d) == <<Clean(d.own), SlugOf(d.title)>>

\* Bug: the DOI is the better name.
OfMods_Doi(d, u) == <<Clean(d.doi), IF u \in CatalogIds THEN Clean(u) ELSE None, Clean(d.own), Clean(u)>>
OfMods(d, u) == <<IF u \in CatalogIds THEN Clean(u) ELSE None, Clean(d.own), Clean(d.doi), Clean(u)>>

OfPhenoroam(d, u) == <<Clean(d.own), Clean(Landing[u])>>

OfInspire(d) ==
  IF d.own \in Addresses
  THEN <<FirstOf(<<SlugOf(d.title), Clean(LastSegment[d.own])>>)>>
  ELSE <<Clean(d.own)>>

Identifier(d, u, alone) ==
  FirstOf(CASE vocabulary = "schema_org" -> OfGraph(d, u, alone)
            [] vocabulary = "regal" -> OfRegal(d)
            [] vocabulary = "ckanext" -> OfCatalog(d)
            [] vocabulary = "mods" -> OfMods(d, u)
            [] vocabulary = "phenoroam" -> OfPhenoroam(d, u)
            [] vocabulary = "inspire" -> OfInspire(d))

(* No mapper invents a title; schema_org also makes the Study and Assay    *)
(* identifiers of it, and may take the HTML page's.                        *)
Usable(d, htmlTitle) ==
  /\ IF vocabulary = "schema_org" THEN SlugOf(d.title) # None \/ (d.title = None /\ htmlTitle)
                                  ELSE d.title # None
  /\ vocabulary = "regal" => d.own # None \/ d.doi # None

\* Regal maps the first research data of its document, the others all of them.
Taken(page, ds) == IF vocabulary = "regal" THEN \E d \in page : ds = {d} ELSE ds = page

\* DataMapper.map on one harvest unit: every dataset gets its identifier, or the unit is an error.
Read(u, page, htmlTitle) ==
  LET alone == Cardinality(page) = 1
      Arc(d) == [unit |-> u, of |-> d, alone |-> alone, id |-> Identifier(d, u, alone)]
  IN  /\ readings < MaxReadings /\ readings' = readings + 1
      /\ vocabulary \in SeveralAPage \/ alone
      /\ vocabulary \in Named => \A d \in page : d.own # None
      /\ \E ds \in SUBSET page :
           /\ Taken(page, ds)
           /\ arcs' = IF \A d \in ds : Usable(d, htmlTitle) /\ Identifier(d, u, alone) # None
                      THEN arcs \cup {Arc(d) : d \in ds} ELSE arcs
      /\ UNCHANGED vocabulary

Pages == {page \in SUBSET Datasets : Cardinality(page) \in 1..2}

RecordsNext == \E u \in Units, page \in Pages, htmlTitle \in BOOLEAN : Read(u, page, htmlTitle)

NoRecords == vocabulary = "none" /\ arcs = {} /\ readings = MaxReadings

-----------------------------------------------------------------------------
(* What a record says it is.  INSPIRE records with a URL for an identifier  *)
(* are only told apart by their titles.                                    *)
Stated(a) == {a.of.own, a.of.doi} \cup a.of.links \cup a.of.sameAs
             \cup (IF a.alone THEN {a.unit} ELSE {})
             \cup (IF vocabulary = "phenoroam" THEN {Landing[a.unit]} ELSE {})
             \cup (IF vocabulary = "inspire" /\ a.of.own \in Addresses
                 THEN {SlugOf(a.of.title), LastSegment[a.of.own]} ELSE {})

(* Two ARCs with one identifier are of records that both state it, as it   *)
(* is or up to sanitising: no page, catalog or fallback makes them one.    *)
IdsApart ==
  \A a, b \in arcs : a.id = b.id =>
    \E k \in Stated(a) \ {None}, l \in Stated(b) \ {None} : a.id \in {k, Sanitise[k]} \cap {l, Sanitise[l]}

(* A record that is alone in its unit and keeps the name it has there      *)
(* keeps its identifier, whatever DOI, link or title it gains or loses.    *)
IdsLast ==
  \A a, b \in arcs :
    /\ a.unit = b.unit /\ a.alone /\ b.alone
    /\ a.of.own = b.of.own
    /\ a.of.own # None \/ vocabulary = "schema_org"
    /\ vocabulary = "inspire" => a.of.own \notin Addresses
    => a.id = b.id

(* Identifiers keep ARCs apart and last from one harvest to the next.      *)
IdsSound == IdsApart /\ IdsLast

(* The inductive invariant behind it: an ARC is of a record that could be  *)
(* mapped, and has the identifier its mapper gave it.                      *)
RecordsInv ==
  /\ vocabulary \in Vocabularies \/ (arcs = {} /\ readings = MaxReadings)
  /\ \A a \in arcs :
       /\ a.unit \in Units /\ a.of \in Datasets /\ a.alone \in BOOLEAN
       /\ a.id = Identifier(a.of, a.unit, a.alone) /\ a.id # None
       /\ vocabulary \notin SeveralAPage => a.alone
       /\ vocabulary \in Named => a.of.own # None
       /\ vocabulary = "regal" => a.of.own # None \/ a.of.doi # None
=============================================================================
