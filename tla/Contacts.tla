------------------------------ MODULE Contacts ------------------------------
(***************************************************************************)
(* The persons of a record as contacts of the Investigation                *)
(* (payload/person_contacts and each mapper's _add_contacts).  Sources     *)
(* list a person several times: as creator and contributor, with an ORCID  *)
(* here and without one there.  ARCtrl uses the ORCID as the identifier of *)
(* the Person node, so two contacts with one ORCID collapse in the crate.  *)
(* Names stand for pairs of given and family name, case folded.            *)
(***************************************************************************)
EXTENDS Integers, FiniteSets, Sequences

CONSTANTS Names, Orcids, Organisations, MaxListed

NoOrcid == "no orcid"
NoRole == "no role"
Roles == {"author", "contributor"}
Mappers == {"schema_org", "regal", "mods", "phenoroam", "inspire"}
NameMatching == {"schema_org", "mods"}        \* add_contact(match_name=True)
Merging == {"regal"} \cup NameMatching        \* the others append what is listed

ASSUME ContactsAssumption ==
  /\ NoOrcid \notin Orcids /\ NoRole \notin Roles
  /\ MaxListed \in Nat /\ Names \cap Organisations = {}

VARIABLES mapper, field,    \* whose record it is, and the field being read
          contacts,         \* Investigation.Contacts
          organisations,    \* comments on organisations that had a role
          listed,           \* persons read so far
          outcome           \* "mapping", "mapped", or "refused": the mapper raised

cvars == <<mapper, field, contacts, organisations, listed, outcome>>

(* The fields are read one after the other; those of schema_org are creator, author and contributor. *)
Fields == [m \in Mappers |->
  CASE m = "schema_org" -> <<{"author"}, {"author"}, {"contributor"}>>
    [] m = "regal" -> <<{"author"}, {"contributor"}>>
    [] m = "mods" -> <<Roles>>
    [] m = "phenoroam" -> <<{NoRole}>>
    [] m = "inspire" -> <<Roles \cup {NoRole}, {"author"}, Roles>>]

Person == [name : Names, orcid : Orcids \cup {NoOrcid}, role : Roles \cup {NoRole}]
Contact == [name : Names, orcid : Orcids \cup {NoOrcid}, roles : SUBSET Roles]

ContactsInit ==
  /\ mapper \in Mappers /\ field = 1 /\ contacts = <<>>
  /\ organisations = {} /\ listed = {} /\ outcome = "mapping"

-----------------------------------------------------------------------------
Reading == outcome = "mapping" /\ field \in DOMAIN Fields[mapper]
Bounded(p) == p \notin listed /\ Cardinality(listed) < MaxListed   \* so that sequences stay short

HasOrcid(c) == c.orcid # NoOrcid

\* Bug: of two persons with one name, an ORCID on either side tells them apart.
SameName_Either(p) == {k \in DOMAIN contacts : contacts[k].name = p.name /\ ~(HasOrcid(contacts[k]) \/ HasOrcid(p))}
SameName(p) == {k \in DOMAIN contacts : contacts[k].name = p.name /\ ~(HasOrcid(contacts[k]) /\ HasOrcid(p))}
SameOrcid(p) == {k \in DOMAIN contacts : HasOrcid(p) /\ contacts[k].orcid = p.orcid}

Matching(p) ==
  IF SameOrcid(p) # {} THEN SameOrcid(p)
  ELSE IF mapper \in NameMatching THEN SameName(p) ELSE {}

RolesOf(p) == {p.role} \ {NoRole}
AsContact(p) == [name |-> p.name, orcid |-> p.orcid, roles |-> RolesOf(p)]

Merged(c, p) == [name |-> c.name, orcid |-> IF HasOrcid(c) THEN c.orcid ELSE p.orcid,
                 roles |-> c.roles \cup RolesOf(p)]

\* A person nobody listed before, or one whose mapper does not look for the same person.
Append1(p) ==
  /\ mapper \notin Merging \/ Matching(p) = {}
  /\ contacts' = Append(contacts, AsContact(p))

\* add_contact on a person that is there: the first match takes the role, and the ORCID it lacks.
Merge(p) ==
  /\ mapper \in Merging
  /\ \E k \in Matching(p) : /\ \A j \in Matching(p) : k <= j
                            /\ contacts' = [contacts EXCEPT ![k] = Merged(contacts[k], p)]

\* A person with a given name; only schema_org, mods and regal read ORCIDs.
ListPerson(p) ==
  /\ Reading /\ Bounded(p)
  /\ p.role \in Fields[mapper][field]
  /\ mapper \notin Merging => p.orcid = NoOrcid
  /\ Append1(p) \/ Merge(p)
  /\ listed' = listed \cup {p}
  /\ UNCHANGED <<mapper, field, organisations, outcome>>

\* An entry without a given name: refused where it must be a person, else a comment.
ListGivenless(orcid, organisation, typed) ==
  LET refused == \/ mapper \in {"mods", "phenoroam"}
                 \/ mapper = "schema_org" /\ ~typed
                 \/ mapper = "regal" /\ orcid # NoOrcid
  IN  /\ Reading
      /\ outcome' = IF refused THEN "refused" ELSE outcome
      /\ organisations' = IF refused THEN organisations ELSE organisations \cup {organisation}
      /\ UNCHANGED <<mapper, field, contacts, listed>>

NextField == Reading /\ field' = field + 1 /\ UNCHANGED <<mapper, contacts, organisations, listed, outcome>>

\* require_nonempty_person_given_names finds nothing: nobody without a given name was appended.
Complete ==
  /\ outcome = "mapping" /\ ~Reading
  /\ outcome' = "mapped" /\ UNCHANGED <<mapper, field, contacts, organisations, listed>>

ContactsNext ==
  \/ \E p \in Person : ListPerson(p)
  \/ \E o \in Orcids \cup {NoOrcid}, n \in Organisations, typed \in BOOLEAN : ListGivenless(o, n, typed)
  \/ NextField
  \/ Complete

ContactsSpec == ContactsInit /\ [][ContactsNext]_cvars

NoContacts == /\ mapper = "none" /\ field = 0 /\ contacts = <<>>
              /\ organisations = {} /\ listed = {} /\ outcome = "mapped"

-----------------------------------------------------------------------------
ContactsTypeOK ==
  /\ mapper \in Mappers /\ field \in Nat \ {0} /\ contacts \in Seq(Contact)
  /\ organisations \subseteq Organisations /\ listed \subseteq Person
  /\ outcome \in {"mapping", "mapped", "refused"}

(* Two contacts never have the same ORCID; where mappers match names, two  *)
(* of one name both have an ORCID, so that a person listed with and        *)
(* without one, in whatever order, is one contact.                         *)
OnePersonOnce ==
  \A i, j \in DOMAIN contacts : i # j =>
    /\ HasOrcid(contacts[i]) => contacts[i].orcid # contacts[j].orcid
    /\ mapper \in NameMatching /\ contacts[i].name = contacts[j].name => HasOrcid(contacts[i])

(* Every person listed is found again with the role it was listed in: by   *)
(* its ORCID when it has one, else by its name.                            *)
RolesKept ==
  \A p \in listed : \E k \in DOMAIN contacts :
    /\ RolesOf(p) \subseteq contacts[k].roles
    /\ IF HasOrcid(p) THEN contacts[k].orcid = p.orcid ELSE contacts[k].name = p.name

(* The contacts of an ARC are the persons its record lists, each once.     *)
ContactsSound == OnePersonOnce /\ RolesKept
=============================================================================
