----------------------------- MODULE Parts_proofs -----------------------------
(***************************************************************************)
(* What holds of the small parts of the system, those that Algorithms and  *)
(* Automation put side by side, whatever the names, keys, titles, ORCIDs,  *)
(* entries and bounds are.  Contacts: no person becomes two contacts of    *)
(* one ORCID and nobody's role is lost.  The heartbeat: its file grows no  *)
(* older than the longest gap.  Configuration: what passes the validation  *)
(* can be built.  Records: an identifier comes from something its record   *)
(* states.  Comments: none is lost or written twice.  Tables: columns pair *)
(* up and tables chain.  StableGraph: what a graph says does not depend on *)
(* the order it says it in.  FollowUps: open issues are reused.            *)
(* ReviewRounds: no finding is closed unseen.  Of each part an invariant   *)
(* is inductive, and the parts share nothing, so that it holds in every    *)
(* behaviour.                                                              *)
(***************************************************************************)
EXTENDS Algorithms, Automation, Lemmas

CInv == ContactsTypeOK /\ OnePersonOnce /\ RolesKept

\* A person as a contact,
LEMMA AsContactType == ASSUME NEW p \in Person PROVE AsContact(p) \in Contact
  BY DEF AsContact, Person, Contact, RolesOf, Roles

\* and a contact with a person merged into it, are contacts.
LEMMA MergedType == ASSUME NEW p \in Person, NEW c \in Contact PROVE Merged(c, p) \in Contact
  BY DEF Merged, Person, Contact, RolesOf, Roles, HasOrcid

(* What a merge leaves of the contact: its name, an ORCID it has, its roles. *)
LEMMA MergedKeeps ==
  ASSUME NEW p \in Person, NEW c \in Contact
  PROVE  /\ Merged(c, p).name = c.name
         /\ HasOrcid(c) => Merged(c, p).orcid = c.orcid
         /\ ~HasOrcid(c) => Merged(c, p).orcid = p.orcid
         /\ c.roles \cup RolesOf(p) = Merged(c, p).roles
  BY DEF Merged

-----------------------------------------------------------------------------
(* Appending: nobody who matches is there. *)
LEMMA AppendKeeps ==
  ASSUME CInv, NEW p \in Person, mapper \notin Merging => p.orcid = NoOrcid, Append1(p),
         UNCHANGED <<mapper, field, organisations, outcome>>, listed' = listed \cup {p}
  PROVE  CInv'
<1> USE DEF CInv
<1> DEFINE n == Len(contacts)
<1>1. /\ contacts \in Seq(Contact) /\ AsContact(p) \in Contact
      /\ contacts' = Append(contacts, AsContact(p))
  BY AsContactType DEF ContactsTypeOK, Append1
<1>2. /\ n \in Nat /\ DOMAIN contacts = 1..n /\ DOMAIN contacts' = 1..(n + 1)
      /\ \A k \in DOMAIN contacts : contacts'[k] = contacts[k] /\ contacts[k] \in Contact
      /\ contacts'[n + 1] = AsContact(p)
  BY <1>1
<1>3. /\ AsContact(p).name = p.name /\ AsContact(p).orcid = p.orcid /\ AsContact(p).roles = RolesOf(p)
  BY DEF AsContact
<1>4. ContactsTypeOK'
  BY <1>1, AsContactType DEF ContactsTypeOK
<1>5. HasOrcid(p) => \A k \in DOMAIN contacts : contacts[k].orcid # p.orcid
  <2>1. CASE mapper \in Merging
    <3>1. SameOrcid(p) = {}
      BY <2>1 DEF Append1, Matching
    <3> QED BY <3>1 DEF SameOrcid
  <2>2. CASE mapper \notin Merging
    BY <2>2 DEF HasOrcid
  <2> QED BY <2>1, <2>2
<1>6. mapper \in NameMatching =>
        \A k \in DOMAIN contacts : contacts[k].name = p.name => HasOrcid(contacts[k]) /\ HasOrcid(p)
  <2> SUFFICES ASSUME mapper \in NameMatching
               PROVE  \A k \in DOMAIN contacts : contacts[k].name = p.name => HasOrcid(contacts[k]) /\ HasOrcid(p)
    OBVIOUS
  <2>1. SameName(p) = {}
    BY DEF Append1, Matching, Merging
  <2> QED BY <2>1 DEF SameName
<1>7. OnePersonOnce'
  <2> SUFFICES ASSUME NEW i \in DOMAIN contacts', NEW j \in DOMAIN contacts', i # j
               PROVE  /\ HasOrcid(contacts'[i]) => contacts'[i].orcid # contacts'[j].orcid
                      /\ mapper \in NameMatching /\ contacts'[i].name = contacts'[j].name => HasOrcid(contacts'[i])
    BY DEF OnePersonOnce, HasOrcid, Append1
  <2>1. CASE i \in DOMAIN contacts /\ j \in DOMAIN contacts
    BY <2>1, <1>2 DEF OnePersonOnce
  <2>2. CASE i \in DOMAIN contacts /\ j = n + 1
    BY <2>2, <1>2, <1>3, <1>5, <1>6 DEF HasOrcid
  <2>3. CASE i = n + 1 /\ j \in DOMAIN contacts
    BY <2>3, <1>2, <1>3, <1>5, <1>6 DEF HasOrcid
  <2> QED BY <1>2, <2>1, <2>2, <2>3
<1>8. RolesKept'
  <2> SUFFICES ASSUME NEW q \in listed \cup {p}
               PROVE  \E k \in DOMAIN contacts' :
                        /\ RolesOf(q) \subseteq contacts'[k].roles
                        /\ IF HasOrcid(q) THEN contacts'[k].orcid = q.orcid ELSE contacts'[k].name = q.name
    BY DEF RolesKept, RolesOf, HasOrcid
  <2>1. CASE q \in listed
    <3>1. PICK k \in DOMAIN contacts : /\ RolesOf(q) \subseteq contacts[k].roles
                                       /\ IF HasOrcid(q) THEN contacts[k].orcid = q.orcid ELSE contacts[k].name = q.name
      BY <2>1 DEF RolesKept
    <3>2. k \in DOMAIN contacts' /\ contacts'[k] = contacts[k]
      BY <1>2
    <3> QED BY <3>1, <3>2
  <2>2. CASE q = p
    <3>1. n + 1 \in DOMAIN contacts' /\ contacts'[n + 1] = AsContact(p)
      BY <1>2
    <3> QED BY <2>2, <3>1, <1>3
  <2> QED BY <2>1, <2>2
<1> QED BY <1>4, <1>7, <1>8

-----------------------------------------------------------------------------
(* Merging: the contact that matches first takes what it lacks. *)
LEMMA MergeKeeps ==
  ASSUME CInv, NEW p \in Person, Merge(p),
         UNCHANGED <<mapper, field, organisations, outcome>>, listed' = listed \cup {p}
  PROVE  CInv'
<1> USE DEF CInv
<1>1. PICK m \in Matching(p) : contacts' = [contacts EXCEPT ![m] = Merged(contacts[m], p)]
  BY DEF Merge
<1>2. /\ contacts \in Seq(Contact) /\ m \in DOMAIN contacts
      /\ \A k \in DOMAIN contacts : contacts[k] \in Contact
  BY <1>1 DEF ContactsTypeOK, Matching, SameOrcid, SameName
<1>3. /\ DOMAIN contacts' = DOMAIN contacts /\ contacts'[m] = Merged(contacts[m], p)
      /\ \A k \in DOMAIN contacts : k # m => contacts'[k] = contacts[k]
  BY <1>1, <1>2
<1>4. ContactsTypeOK'
  <2>1. Merged(contacts[m], p) \in Contact
    BY <1>2, MergedType
  <2>2. contacts' \in Seq(Contact)
    BY <1>1, <1>2, <2>1
  <2> QED BY <2>2 DEF ContactsTypeOK
<1>5. /\ contacts'[m].name = contacts[m].name
      /\ HasOrcid(contacts[m]) => contacts'[m].orcid = contacts[m].orcid
      /\ ~HasOrcid(contacts[m]) => contacts'[m].orcid = p.orcid
      /\ contacts'[m].roles = contacts[m].roles \cup RolesOf(p)
  BY <1>2, <1>3, MergedKeeps
<1>6. \/ HasOrcid(p) /\ contacts[m].orcid = p.orcid
      \/ /\ contacts[m].name = p.name /\ ~(HasOrcid(contacts[m]) /\ HasOrcid(p))
         /\ HasOrcid(p) => \A k \in DOMAIN contacts : contacts[k].orcid # p.orcid
  <2>1. CASE SameOrcid(p) # {}
    BY <2>1, <1>1 DEF Matching, SameOrcid
  <2>2. CASE SameOrcid(p) = {}
    <3>1. m \in SameName(p)
      BY <2>2, <1>1 DEF Matching
    <3> QED BY <2>2, <3>1 DEF SameName, SameOrcid
  <2> QED BY <2>1, <2>2
<1>7. OnePersonOnce'
  <2> SUFFICES ASSUME NEW i \in DOMAIN contacts, NEW j \in DOMAIN contacts, i # j
               PROVE  /\ HasOrcid(contacts'[i]) => contacts'[i].orcid # contacts'[j].orcid
                      /\ mapper \in NameMatching /\ contacts'[i].name = contacts'[j].name => HasOrcid(contacts'[i])
    BY <1>3 DEF OnePersonOnce, HasOrcid
  <2>1. CASE i # m /\ j # m
    BY <2>1, <1>3 DEF OnePersonOnce
  <2>2. CASE i = m
    BY <2>2, <1>3, <1>5, <1>6 DEF OnePersonOnce, HasOrcid
  <2>3. CASE j = m
    BY <2>3, <1>3, <1>5, <1>6 DEF OnePersonOnce, HasOrcid
  <2> QED BY <2>1, <2>2, <2>3
<1>8. RolesKept'
  <2> SUFFICES ASSUME NEW q \in listed \cup {p}
               PROVE  \E k \in DOMAIN contacts :
                        /\ RolesOf(q) \subseteq contacts'[k].roles
                        /\ IF HasOrcid(q) THEN contacts'[k].orcid = q.orcid ELSE contacts'[k].name = q.name
    BY <1>3 DEF RolesKept, RolesOf, HasOrcid
  <2>1. CASE q \in listed
    <3>1. PICK k \in DOMAIN contacts : /\ RolesOf(q) \subseteq contacts[k].roles
                                       /\ IF HasOrcid(q) THEN contacts[k].orcid = q.orcid ELSE contacts[k].name = q.name
      BY <2>1 DEF RolesKept
    <3>2. CASE k # m
      BY <3>1, <3>2, <1>3
    <3>3. CASE k = m
      BY <3>1, <3>3, <1>5 DEF HasOrcid
    <3> QED BY <3>2, <3>3
  <2>2. CASE q = p
    BY <2>2, <1>2, <1>5, <1>6 DEF HasOrcid
  <2> QED BY <2>1, <2>2
<1> QED BY <1>4, <1>7, <1>8

-----------------------------------------------------------------------------
\* Before the first creator nothing is collected.
LEMMA ContactsInitially == ContactsInit => CInv
  BY DEF ContactsInit, CInv, ContactsTypeOK, OnePersonOnce, RolesKept

(* The steps that leave the contacts and what was listed alone. *)
LEMMA SameContacts ==
  ASSUME OnePersonOnce, RolesKept, UNCHANGED <<mapper, contacts, listed>>
  PROVE  OnePersonOnce' /\ RolesKept'
  BY DEF OnePersonOnce, RolesKept, HasOrcid, RolesOf

\* CInv is inductive.
LEMMA ContactsStep == CInv /\ [ContactsNext]_cvars => CInv'
<1> SUFFICES ASSUME CInv, [ContactsNext]_cvars PROVE CInv'
  OBVIOUS
<1>1. ASSUME NEW p \in Person, ListPerson(p) PROVE CInv'
  BY <1>1, AppendKeeps, MergeKeeps DEF ListPerson
<1>2. ASSUME NEW o \in Orcids \cup {NoOrcid}, NEW n \in Organisations, NEW typed \in BOOLEAN, ListGivenless(o, n, typed)
      PROVE  CInv'
  <2>1. ContactsTypeOK'
    BY <1>2 DEF CInv, ContactsTypeOK, ListGivenless
  <2> QED BY <1>2, <2>1, SameContacts DEF CInv, ListGivenless
<1>3. CASE NextField
  <2>1. ContactsTypeOK'
    BY <1>3 DEF CInv, ContactsTypeOK, NextField
  <2> QED BY <1>3, <2>1, SameContacts DEF CInv, NextField
<1>4. CASE Complete
  <2>1. ContactsTypeOK'
    BY <1>4 DEF CInv, ContactsTypeOK, Complete
  <2> QED BY <1>4, <2>1, SameContacts DEF CInv, Complete
<1>5. CASE UNCHANGED cvars
  <2>1. ContactsTypeOK'
    BY <1>5 DEF CInv, ContactsTypeOK, cvars
  <2> QED BY <1>5, <2>1, SameContacts DEF CInv, cvars
<1> QED BY <1>1, <1>2, <1>3, <1>4, <1>5 DEF ContactsNext

(* A person who is listed again, with or without an ORCID, is one contact: *)
(* two contacts have distinct ORCIDs, and with name matching one name      *)
(* stands twice only for two ORCIDs (add_contact, _matching_contact).      *)
THEOREM PersonsDistinct == ContactsSpec => []OnePersonOnce
  BY ContactsInitially, ContactsStep, PTL DEF ContactsSpec, CInv

(* No person that a record lists, and no role of one, is lost (add_contact). *)
THEOREM RolesAreKept == ContactsSpec => []RolesKept
  BY ContactsInitially, ContactsStep, PTL DEF ContactsSpec, CInv

(* Both at once: the contacts are the persons listed, each once, with all  *)
(* its roles (add_contact, _matching_contact).                             *)
THEOREM ContactsAreSound == ContactsSpec => []ContactsSound
  BY ContactsInitially, ContactsStep, PTL DEF ContactsSpec, CInv, ContactsSound

-----------------------------------------------------------------------------
(* The heartbeat.                                                          *)

\* No touch is refused more often than may be, so that the gap is not longer.
LEMMA GapBound ==
  ASSUME NEW g \in Nat, NEW m \in Nat, NEW n \in Nat, m <= n
  PROVE  /\ m * g \in Nat /\ m * g <= n * g
         /\ (m + 1) * g = m * g + g
OBVIOUS

\* HeartbeatInv is inductive, also for a heartbeat that is not there.
LEMMA HeartbeatInitially == HeartbeatInit \/ NoHeartbeat => HeartbeatInv
BY HeartbeatAssumption DEF HeartbeatInit, NoHeartbeat, HeartbeatInv, Absent

\* Touches, refusals, time and checks keep it.
LEMMA HeartbeatStep == HeartbeatInv /\ [HeartbeatNext]_hvars => HeartbeatInv'
<1> SUFFICES ASSUME HeartbeatInv, [HeartbeatNext]_hvars PROVE HeartbeatInv'
  OBVIOUS
<1>1. Interval \in Nat /\ MaxDelay \in Nat /\ MaxMisses \in Nat /\ MaxAge \in Nat
  BY HeartbeatAssumption
<1>2. PICK g \in Nat : g = Interval + MaxDelay
  BY <1>1
<1>3. misses \in Nat /\ misses * g \in Nat /\ (misses + 1) * g = misses * g + g
  BY <1>1, GapBound DEF HeartbeatInv
<1>4. CASE Touch
  BY <1>1, <1>4 DEF Touch, Due, HeartbeatInv, Absent
<1>5. CASE TouchRefused
  <2>1. /\ sleeping = 0 /\ misses < MaxMisses /\ misses' = misses + 1
        /\ sleeping' = Interval /\ late' = 0 /\ UNCHANGED <<age, loop>>
    BY <1>5 DEF TouchRefused, Due
  <2>2. age # Absent => age <= misses' * g + (Interval - sleeping') + late'
    <3>1. age # Absent => age \in Nat /\ age <= misses * g + Interval + late
      BY <1>1, <1>2, <2>1 DEF HeartbeatInv
    <3>2. late \in Nat /\ late <= MaxDelay
      BY <1>1 DEF HeartbeatInv
    <3>3. misses' * g = misses * g + g
      BY <1>3, <2>1
    <3> QED BY <1>1, <1>2, <1>3, <2>1, <3>1, <3>2, <3>3
  <2> QED BY <1>1, <1>2, <2>1, <2>2 DEF HeartbeatInv
<1>6. CASE TimePasses
  <2>1. /\ loop = "running" /\ (sleeping = 0 => late < MaxDelay)
        /\ UNCHANGED <<misses, loop>>
    BY <1>6 DEF TimePasses, Due, HeartbeatInv
  <2>2. age' = (IF age \in {Absent, MaxAge} THEN age ELSE age + 1)
    BY <1>6 DEF TimePasses
  <2>3. sleeping' \in 0 .. Interval /\ late' \in 0 .. MaxDelay
    BY <1>1, <1>6 DEF TimePasses, HeartbeatInv
  <2>4. (Interval - sleeping') + late' >= (Interval - sleeping) + late + 1
    BY <1>1, <1>6, <2>1 DEF TimePasses, HeartbeatInv
  <2>5. age' # Absent => age # Absent /\ age' \in Nat /\ age' <= age + 1
    BY <2>2 DEF HeartbeatInv, Absent
  <2>6. age' \in Nat \cup {Absent}
    BY <2>2 DEF HeartbeatInv, Absent
  <2>7. age' # Absent => age' <= misses * g + (Interval - sleeping') + late'
    <3>1. age # Absent => age \in Nat /\ age <= misses * g + (Interval - sleeping) + late
      BY <1>2 DEF HeartbeatInv
    <3>2. {sleeping, sleeping', late, late'} \subseteq Nat
      BY <1>1, <2>3 DEF HeartbeatInv
    <3> QED BY <1>1, <1>3, <2>4, <2>5, <3>1, <3>2
  <2> QED BY <1>2, <2>1, <2>3, <2>6, <2>7 DEF HeartbeatInv
<1>7. CASE HarvestEnds
  BY <1>7 DEF HarvestEnds, HeartbeatInv
<1>8. CASE UNCHANGED hvars
  BY <1>8 DEF hvars, HeartbeatInv
<1> QED BY <1>4, <1>5, <1>6, <1>7, <1>8 DEF HeartbeatNext

\* No gap is longer than the one between two touches with all refusals between them.
LEMMA HeartbeatGap == HeartbeatInv => HealthyUnlessBlocked
<1> SUFFICES ASSUME HeartbeatInv, age # Absent, MaxAge > (MaxMisses + 1) * (Interval + MaxDelay)
             PROVE  age < MaxAge
  BY DEF HealthyUnlessBlocked, Healthy
<1>1. Interval \in Nat /\ MaxDelay \in Nat /\ MaxMisses \in Nat /\ MaxAge \in Nat
  BY HeartbeatAssumption
<1>2. PICK g \in Nat : g = Interval + MaxDelay
  BY <1>1
<1>3. /\ misses \in Nat /\ misses * g \in Nat /\ MaxMisses * g \in Nat /\ misses * g <= MaxMisses * g
      /\ (MaxMisses + 1) * g = MaxMisses * g + g
  BY <1>1, GapBound DEF HeartbeatInv
<1>4. age \in Nat /\ age <= misses * g + (Interval - sleeping) + late
  BY <1>2 DEF HeartbeatInv
<1>5. sleeping \in Nat /\ late \in Nat /\ late <= MaxDelay
  BY <1>1 DEF HeartbeatInv
<1>6. MaxAge > (MaxMisses + 1) * g
  BY <1>2
<1> QED BY <1>1, <1>2, <1>3, <1>4, <1>5, <1>6

-----------------------------------------------------------------------------
(* Configuration.                                                          *)

\* What has one member is told by choosing it.
LEMMA OnlyMember ==
  ASSUME NEW S, Cardinality(S) = 1, IsFiniteSet(S)
  PROVE  S = {Only(S)}
<1>1. PICK x : S = {x}
  BY FS_Singleton
<1>2. Only(S) = x
  BY <1>1 DEF Only
<1> QED BY <1>1, <1>2

\* A set that is written down with six members or fewer is finite.
LEMMA FiniteSix ==
  ASSUME NEW a, NEW b, NEW c, NEW d, NEW e, NEW f
  PROVE  IsFiniteSet({a, b, c, d, e, f})
<1>0. IsFiniteSet({}) BY FS_EmptySet
<1>1. IsFiniteSet({} \cup {a}) BY <1>0, FS_AddElement
<1>2. IsFiniteSet(({} \cup {a}) \cup {b}) BY <1>1, FS_AddElement
<1>3. IsFiniteSet((({} \cup {a}) \cup {b}) \cup {c}) BY <1>2, FS_AddElement
<1>4. IsFiniteSet(((({} \cup {a}) \cup {b}) \cup {c}) \cup {d}) BY <1>3, FS_AddElement
<1>5. IsFiniteSet((((({} \cup {a}) \cup {b}) \cup {c}) \cup {d}) \cup {e}) BY <1>4, FS_AddElement
<1>6. IsFiniteSet(((((({} \cup {a}) \cup {b}) \cup {c}) \cup {d}) \cup {e}) \cup {f}) BY <1>5, FS_AddElement
<1>7. {a, b, c, d, e, f} = ((((({} \cup {a}) \cup {b}) \cup {c}) \cup {d}) \cup {e}) \cup {f} OBVIOUS
<1> QED BY <1>6, <1>7

\* The blocks of an entry, and their keys, can be counted.
LEMMA FiniteKeys ==
  ASSUME RepoOK
  PROVE  /\ IsFiniteSet(repo.plugins)
         /\ repo.mapper # Omitted => IsFiniteSet(repo.mapper)
         /\ repo.parser # Omitted => IsFiniteSet(repo.parser)
<1>1. IsFiniteSet(Plugins)
  <2>1. Plugins = {"generic", "oai_pmh", "inspire", "inspire", "inspire", "inspire"} BY DEF Plugins
  <2> QED BY <2>1, FiniteSix
<1>2. IsFiniteSet(DOMAIN Accepts)
  <2>1. PICK D : D = DOMAIN Accepts OBVIOUS
  <2>2. D = {"schema_org_general", "regal_general", "ckanext_dcat", "inspire_general", "phenoroam_general",
             "mods_general"}
    BY <2>1 DEF Accepts
  <2>3. IsFiniteSet(D) BY <2>2, FiniteSix
  <2> QED BY <2>1, <2>3
<1>3. IsFiniteSet(DOMAIN Produces)
  <2>1. PICK D : D = DOMAIN Produces OBVIOUS
  <2>2. D = {"html_jsonld", "jsonld", "rdf_xml", "phenoroam_xml", "mods_xml", "mods_xml"}
    BY <2>1 DEF Produces
  <2>3. IsFiniteSet(D) BY <2>2, FiniteSix
  <2> QED BY <2>1, <2>3
<1> QED BY <1>1, <1>2, <1>3, FS_Subset DEF RepoOK

\* An accepted entry has one plugin, one mapper that takes what its parser makes, and bases that agree.
LEMMA AcceptedFits ==
  ASSUME RepoOK, Accepted
  PROVE  /\ repo.plugins = {PluginType} /\ PluginType \in Plugins
         /\ repo.mapper = {MapperType} /\ MapperType \in DOMAIN Accepts
         /\ PluginType = "inspire" => Accepts[MapperType] = "inspire"
         /\ PluginType # "inspire" => Accepts[MapperType] = Produces[ParserType]
         /\ PluginType = "generic" /\ repo.base # Unset /\ repo.mapperBase # Unset => repo.base = repo.mapperBase
         /\ PluginType # "generic" => repo.base = Unset
<1>1. repo.plugins = {PluginType}
  BY FiniteKeys, OnlyMember DEF Accepted, OnePlugin, PluginType
<1>2. repo.mapper # Omitted /\ repo.mapper = {MapperType}
  BY FiniteKeys, OnlyMember DEF Accepted, OneMapperType, MapperType
<1>3. PluginType \in Plugins /\ MapperType \in DOMAIN Accepts
  BY <1>1, <1>2, Zenon DEF RepoOK
<1>4. PluginType = "inspire" => Accepts[MapperType] = "inspire"
  BY <1>1 DEF Accepted, FitsInspire, MapperType
<1>5. PluginType # "inspire" => Fitting
  BY <1>1, <1>3 DEF Accepted, FitsGeneric, FitsOaiPmh, Plugins
<1>6. PluginType # "inspire" => Accepts[MapperType] = Produces[ParserType]
  BY <1>5 DEF Fitting, MapperType, ParserType
<1> QED BY <1>1, <1>2, <1>3, <1>4, <1>6 DEF Accepted, FitsGeneric, RepoOK

\* ConfigurationInv is inductive, also where there is no configuration.
LEMMA ConfigurationInitially == ConfigurationInit \/ NoConfiguration => ConfigurationInv
<1>1. ASSUME NoConfiguration PROVE ConfigurationInv
  BY <1>1 DEF NoConfiguration, ConfigurationInv, RepoOK
<1>2. ASSUME ConfigurationInit PROVE ConfigurationInv
  <2>1. PICK e \in Entries, url \in BOOLEAN :
          \E b \in IF "generic" \in e.plugins THEN Bases \cup {Unset} ELSE {Unset},
             mb \in IF "regal_general" \in e.mapper THEN Bases \cup {Unset} ELSE {Unset} :
            repo = [plugins |-> e.plugins, mapper |-> e.mapper, parser |-> e.parser, protocol |-> e.protocol,
                    base |-> b, mapperBase |-> mb, entryUrl |-> url]
    BY <1>2 DEF ConfigurationInit
  <2>2. PICK b \in IF "generic" \in e.plugins THEN Bases \cup {Unset} ELSE {Unset},
             mb \in IF "regal_general" \in e.mapper THEN Bases \cup {Unset} ELSE {Unset} :
            repo = [plugins |-> e.plugins, mapper |-> e.mapper, parser |-> e.parser, protocol |-> e.protocol,
                    base |-> b, mapperBase |-> mb, entryUrl |-> url]
    BY <2>1
  <2>3. {b, mb} \subseteq Bases \cup {Unset} /\ ("generic" \notin e.plugins => b = Unset)
    BY <2>2
  <2>4. /\ e.plugins \subseteq Plugins
        /\ e.mapper = Omitted \/ e.mapper \subseteq DOMAIN Accepts
        /\ e.parser = Omitted \/ e.parser \subseteq DOMAIN Produces
    BY DEF Entries, AtMostTwo
  <2>5. RepoOK
    BY <2>2, <2>3, <2>4 DEF RepoOK
  <2> QED BY <1>2, <2>5 DEF ConfigurationInit, ConfigurationInv
<1> QED BY <1>1, <1>2

\* Every stage of an entry keeps it.
LEMMA ConfigurationStep == ConfigurationInv /\ [ConfigurationNext]_configvars => ConfigurationInv'
<1> SUFFICES ASSUME ConfigurationInv, [ConfigurationNext]_configvars PROVE ConfigurationInv'
  OBVIOUS
<1>1. CASE LiftOmittedMapper
  <2>1. RepoOK'
    <3>1. repo.mapper = Omitted /\ "inspire" \in repo.plugins => "inspire_general" \in DOMAIN Accepts
      BY DEF Accepts
    <3> QED BY <1>1, <3>1 DEF ConfigurationInv, RepoOK, LiftOmittedMapper
  <2> QED BY <1>1, <2>1 DEF ConfigurationInv, LiftOmittedMapper
<1>2. repo' = repo => /\ RepoOK' <=> RepoOK
                      /\ Accepted' <=> Accepted
                      /\ Buildable' <=> Buildable
                      /\ MapperType' = MapperType /\ RegalBase' = RegalBase
  BY DEF RepoOK, Accepted, OneMapperType, OneParserType, OneProtocolType, OnePlugin, FitsGeneric, FitsOaiPmh,
         FitsInspire, Fitting, Buildable, MapperType, ParserType, PluginType, RegalBase, EffectiveBase, Fallback
<1>3. CASE Validate
  BY <1>2, <1>3 DEF ConfigurationInv, Validate
<1>4. CASE CreatePlugin
  BY <1>2, <1>4 DEF ConfigurationInv, CreatePlugin
<1>5. CASE ProcessUnit
  <2>1. PluginType # "inspire" => Produces[ParserType] = Accepts[MapperType]
    BY <1>5, AcceptedFits DEF ConfigurationInv, ProcessUnit
  <2>2. unit' # "incompatible"
    BY <1>5, <2>1 DEF ProcessUnit
  <2> QED BY <1>2, <1>5, <2>2 DEF ConfigurationInv, ProcessUnit
<1>6. CASE UNCHANGED configvars
  BY <1>2, <1>6 DEF ConfigurationInv, configvars
<1> QED BY <1>1, <1>3, <1>4, <1>5, <1>6 DEF ConfigurationNext

\* The entry fails to build for want of a base URL only, and is built with every base there is.
LEMMA BuiltAsAccepted == ConfigurationInv => AcceptedBuilds
<1> SUFFICES ASSUME ConfigurationInv PROVE AcceptedBuilds
  OBVIOUS
<1>1. Unset # Derived BY DEF Unset, Derived
<1>2. ASSUME phase = "failed"
      PROVE  /\ MapperType = "regal_general"
             /\ repo.mapperBase = Unset \/ ~repo.entryUrl
             /\ repo.base = Unset
  <2>1. Accepted /\ ~Buildable /\ RepoOK
    BY <1>2 DEF ConfigurationInv
  <2>2. Accepts[MapperType] = IF PluginType = "inspire" THEN "inspire" ELSE Produces[ParserType]
    BY <2>1, AcceptedFits
  <2>3. MapperType = "regal_general" /\ (RegalBase = Unset \/ (PluginType = "generic" /\ EffectiveBase = Unset))
    BY <2>1, <2>2 DEF Buildable
  <2>4. PluginType # "generic" => repo.base = Unset
    BY <2>1, AcceptedFits
  <2> QED BY <1>1, <2>3, <2>4 DEF RegalBase, Fallback, EffectiveBase
<1>3. ASSUME base # Unset, NEW b \in {repo.base, repo.mapperBase} PROVE b \in {Unset, base}
  <2>1. /\ Accepted /\ RepoOK /\ base = RegalBase
    BY <1>3 DEF ConfigurationInv
  <2>2. /\ PluginType # "generic" => repo.base = Unset
        /\ PluginType = "generic" /\ repo.base # Unset /\ repo.mapperBase # Unset => repo.base = repo.mapperBase
    BY <2>1, AcceptedFits
  <2> QED BY <1>1, <1>3, <2>1, <2>2 DEF RegalBase, Fallback, EffectiveBase
<1> QED BY <1>2, <1>3 DEF AcceptedBuilds, ConfigurationInv

-----------------------------------------------------------------------------
(* Identifiers.                                                            *)

\* The least of some keys is one of them.
LEMMA LeastIs ==
  ASSUME NEW ks \in SUBSET Nat, ks # {}
  PROVE  Least(ks) \in ks /\ \A j \in ks : Least(ks) <= j
<1>1. \E k \in ks : \A j \in ks : k <= j BY LeastNumber
<1> QED BY <1>1 DEF Least

\* FirstOf takes the first name there is.
LEMMA FirstIs ==
  ASSUME NEW ks \in Seq(Nat), FirstOf(ks) # None
  PROVE  \E i \in DOMAIN ks : /\ ks[i] # None /\ FirstOf(ks) = ks[i]
                              /\ \A j \in DOMAIN ks : j < i => ks[j] = None
<1> DEFINE named == {i \in DOMAIN ks : ks[i] # None}
<1>1. FirstOf(ks) = IF named = {} THEN None ELSE ks[Least(named)] BY DEF FirstOf
<1>2. named # {} /\ FirstOf(ks) = ks[Least(named)] BY <1>1
<1>3. named \in SUBSET Nat OBVIOUS
<1>4. Least(named) \in named /\ \A j \in named : Least(named) <= j
  <2> HIDE DEF named
  <2> QED BY <1>2, <1>3, LeastIs
<1>5. Least(named) \in DOMAIN ks /\ Least(named) \in Nat /\ ks[Least(named)] # None BY <1>3, <1>4
<1>6. ASSUME NEW j \in DOMAIN ks, j < Least(named) PROVE ks[j] = None
  <2>1. j \in Nat /\ ~(Least(named) <= j) BY <1>5, <1>6
  <2>2. j \notin named BY <1>4, <2>1
  <2> QED BY <1>6, <2>2
<1> QED BY <1>2, <1>5, <1>6

\* A name that comes first is taken.
LEMMA FirstName ==
  ASSUME NEW ks \in Seq(Nat), ks # <<>>, ks[1] # None
  PROVE  FirstOf(ks) = ks[1]
<1> DEFINE named == {i \in DOMAIN ks : ks[i] # None}
<1>1. 1 \in named BY EmptySeq
<1>2. FirstOf(ks) = ks[Least(named)] BY <1>1 DEF FirstOf
<1>3. named \in SUBSET Nat /\ \A i \in named : 1 <= i OBVIOUS
<1>4. Least(named) \in named /\ Least(named) <= 1
  <2> HIDE DEF named
  <2> QED BY <1>1, <1>3, LeastIs
<1>5. Least(named) = 1 BY <1>3, <1>4
<1> QED BY <1>2, <1>5

\* Sanitising makes a key of a key, and nothing of nothing.
LEMMA CleanIs ==
  ASSUME NEW k \in Keys \cup {None}
  PROVE  /\ Clean(k) \in Nat /\ (k = None <=> Clean(k) = None)
         /\ k # None => k \in Keys /\ Clean(k) = Sanitise[k]
BY RecordsAssumption DEF Clean, None

\* Slugs of titles are keys or nothing.
LEMMA SlugIs == ASSUME NEW t \in Titles \cup {None} PROVE SlugOf(t) \in Keys \cup {None}
BY RecordsAssumption DEF SlugOf

\* What a record is named by: keys, or nothing.
LEMMA RecordNames ==
  ASSUME NEW d \in Datasets
  PROVE  /\ d.own \in Keys \cup {None} /\ d.doi \in Keys \cup {None} /\ d.title \in Titles \cup {None}
         /\ Least(d.links) \in d.links \cup {None} /\ Least(d.sameAs) \in d.sameAs \cup {None}
         /\ {Least(d.links), Least(d.sameAs)} \subseteq Keys \cup {None}
<1>1. d \in Dataset /\ Keys \subseteq Nat BY RecordsAssumption
<1>2. d.links \in SUBSET Nat /\ d.sameAs \in SUBSET Nat /\ d.links \subseteq Keys /\ d.sameAs \subseteq Keys
  BY <1>1 DEF Dataset
<1>3. Least(d.links) \in d.links \cup {None} BY <1>2, LeastIs DEF Least
<1>4. Least(d.sameAs) \in d.sameAs \cup {None} BY <1>2, LeastIs DEF Least
<1> QED BY <1>1, <1>2, <1>3, <1>4 DEF Dataset

\* An ARC is known by an identifier if its record states it, as it is or up to sanitising.
KnownBy(a) == \E k \in Stated(a) \ {None} : a.id \in {k, Sanitise[k]}

\* The records in the list are named by keys, and so is their unit.
LEMMA ArcNames ==
  ASSUME RecordsInv, NEW a \in arcs
  PROVE  /\ a.unit \in Keys /\ a.of \in Datasets /\ Keys \subseteq Nat \ {None}
         /\ \A k \in Keys : Sanitise[k] \in Keys
         /\ Clean(a.unit) = Sanitise[a.unit]
BY RecordsAssumption, CleanIs DEF RecordsInv, Clean

\* Every identifier comes from something its record states: from the page or a
\* link for schema.org,
LEMMA GraphKnown ==
  ASSUME RecordsInv, NEW a \in arcs, vocabulary = "schema_org" PROVE KnownBy(a)
<1> DEFINE d == a.of
           ks == OfGraph(a.of, a.unit, a.alone)
<1>0. /\ a.unit \in Keys /\ a.of \in Datasets /\ Keys \subseteq Nat \ {None}
      /\ \A k \in Keys : Sanitise[k] \in Keys
      /\ Clean(a.unit) = Sanitise[a.unit]
  BY ArcNames
<1>1. a.id = FirstOf(ks) /\ a.id # None BY DEF RecordsInv, Identifier
<1>2. /\ d.own \in Keys \cup {None} /\ d.doi \in Keys \cup {None}
      /\ Least(d.links) \in d.links \cup {None} /\ Least(d.sameAs) \in d.sameAs \cup {None}
      /\ {Least(d.links), Least(d.sameAs)} \subseteq Keys \cup {None}
  BY <1>0, RecordNames
<1>3. PageKey(a.unit) \in {a.unit, Sanitise[a.unit]} BY <1>0 DEF PageKey
<1>4. ks \in Seq(Nat) /\ DOMAIN ks = 1..5
  <2>1. /\ PageKey(a.unit) \in Nat /\ Clean(Least(d.links)) \in Nat /\ Clean(Least(d.sameAs)) \in Nat
        /\ Clean(d.own) \in Nat /\ d.doi \in Nat /\ None \in Nat
    BY <1>0, <1>2, <1>3, CleanIs DEF None
  <2> QED BY <2>1 DEF OfGraph
<1>5. PICK i \in DOMAIN ks : ks[i] # None /\ a.id = ks[i]
  <2> HIDE DEF ks
  <2> QED BY <1>1, <1>4, FirstIs
<1>6. CASE i = 1
  <2>1. a.alone /\ a.id = PageKey(a.unit) BY <1>5, <1>6 DEF OfGraph
  <2>2. a.unit \in Stated(a) \ {None} BY <1>0, <2>1 DEF Stated
  <2> QED BY <1>3, <2>1, <2>2 DEF KnownBy
<1>7. CASE i = 2
  <2>1. a.id = Clean(Least(d.links)) BY <1>5, <1>7 DEF OfGraph
  <2>2. Least(d.links) # None /\ a.id = Sanitise[Least(d.links)] BY <1>1, <1>2, <2>1, CleanIs
  <2>3. Least(d.links) \in Stated(a) \ {None} BY <1>2, <2>2 DEF Stated
  <2> QED BY <2>2, <2>3 DEF KnownBy
<1>8. CASE i = 3
  <2>1. a.id = Clean(Least(d.sameAs)) BY <1>5, <1>8 DEF OfGraph
  <2>2. Least(d.sameAs) # None /\ a.id = Sanitise[Least(d.sameAs)] BY <1>1, <1>2, <2>1, CleanIs
  <2>3. Least(d.sameAs) \in Stated(a) \ {None} BY <1>2, <2>2 DEF Stated
  <2> QED BY <2>2, <2>3 DEF KnownBy
<1>9. CASE i = 4
  <2>1. a.id = Clean(d.own) BY <1>5, <1>9 DEF OfGraph
  <2>2. d.own # None /\ a.id = Sanitise[d.own] BY <1>1, <1>2, <2>1, CleanIs
  <2> QED BY <2>2 DEF KnownBy, Stated
<1>10. CASE i = 5
  <2>1. a.id = d.doi BY <1>5, <1>10 DEF OfGraph
  <2> QED BY <1>1, <2>1 DEF KnownBy, Stated
<1> QED BY <1>4, <1>5, <1>6, <1>7, <1>8, <1>9, <1>10

\* from the record's own name or its DOI where a title would make it ambiguous,
LEMMA OwnKnown ==
  ASSUME RecordsInv, NEW a \in arcs, a.of.own # None, vocabulary \in {"regal", "ckanext", "phenoroam"}
  PROVE  a.id = Sanitise[a.of.own] /\ KnownBy(a)
<1> DEFINE d == a.of
<1>0. /\ a.unit \in Keys /\ a.of \in Datasets /\ Keys \subseteq Nat \ {None}
  BY ArcNames
<1>1. /\ d.own \in Keys /\ d.doi \in Keys \cup {None} /\ d.title \in Titles \cup {None}
  BY <1>0, RecordNames
<1>2. /\ Clean(d.own) \in Nat /\ Clean(d.own) # None /\ Clean(d.own) = Sanitise[d.own]
      /\ Clean(d.doi) \in Nat
  BY <1>1, CleanIs
<1>3. SlugOf(d.title) \in Nat BY <1>0, <1>1, SlugIs DEF None
<1>4. Clean(Landing[a.unit]) \in Nat
  <2>1. a.unit \in Units BY DEF RecordsInv
  <2> QED BY <2>1, RecordsAssumption, CleanIs
<1>5. PICK ks \in Seq(Nat) : ks # <<>> /\ ks[1] = Clean(d.own) /\ a.id = FirstOf(ks)
  <2>1. CASE vocabulary = "regal"
    <3>1. OfRegal(d) \in Seq(Nat) /\ OfRegal(d) # <<>> /\ OfRegal(d)[1] = Clean(d.own)
      BY <1>2, <1>3 DEF OfRegal
    <3>2. a.id = FirstOf(OfRegal(d)) BY <2>1 DEF RecordsInv, Identifier
    <3> QED BY <3>1, <3>2
  <2>2. CASE vocabulary = "ckanext"
    <3>1. OfCatalog(d) \in Seq(Nat) /\ OfCatalog(d) # <<>> /\ OfCatalog(d)[1] = Clean(d.own)
      BY <1>2, <1>3 DEF OfCatalog
    <3>2. a.id = FirstOf(OfCatalog(d)) BY <2>2 DEF RecordsInv, Identifier
    <3> QED BY <3>1, <3>2
  <2>3. CASE vocabulary = "phenoroam"
    <3>1. /\ OfPhenoroam(d, a.unit) \in Seq(Nat) /\ OfPhenoroam(d, a.unit) # <<>>
          /\ OfPhenoroam(d, a.unit)[1] = Clean(d.own)
      BY <1>2, <1>4 DEF OfPhenoroam
    <3>2. a.id = FirstOf(OfPhenoroam(d, a.unit)) BY <2>3 DEF RecordsInv, Identifier
    <3> QED BY <3>1, <3>2
  <2> QED BY <2>1, <2>2, <2>3
<1>6. a.id = Sanitise[d.own] BY <1>2, <1>5, FirstName
<1> QED BY <1>6 DEF KnownBy, Stated

\* or from what stands in for it: the DOI, or the landing page of the catalog's entry,
LEMMA OtherKnown ==
  ASSUME RecordsInv, NEW a \in arcs, a.of.own = None, vocabulary \in {"regal", "phenoroam"}
  PROVE  KnownBy(a)
<1> DEFINE d == a.of
<1>0. /\ a.unit \in Keys /\ a.of \in Datasets /\ Keys \subseteq Nat \ {None} /\ Clean(d.own) = None
  BY ArcNames DEF Clean
<1>1. d.doi \in Keys \cup {None} /\ d.title \in Titles \cup {None}
  BY <1>0, RecordNames
<1>2. CASE vocabulary = "regal"
  <2> DEFINE ks == OfRegal(d)
  <2>1. d.doi # None BY <1>2 DEF RecordsInv
  <2>2. Clean(d.doi) \in Nat /\ Clean(d.doi) # None /\ Clean(d.doi) = Sanitise[d.doi] BY <1>1, <2>1, CleanIs
  <2>3. SlugOf(d.title) \in Nat BY <1>0, <1>1, SlugIs DEF None
  <2>4. ks \in Seq(Nat) /\ DOMAIN ks = 1..3 /\ ks[1] = None /\ ks[2] = Clean(d.doi)
    BY <1>0, <2>2, <2>3 DEF OfRegal, None
  <2>5. a.id = FirstOf(ks) /\ a.id # None BY <1>2 DEF RecordsInv, Identifier
  <2> HIDE DEF ks
  <2>6. PICK j \in DOMAIN ks : /\ ks[j] # None /\ a.id = ks[j]
                               /\ \A h \in DOMAIN ks : h < j => ks[h] = None
    BY <2>4, <2>5, FirstIs
  <2>7. j = 2 BY <2>2, <2>4, <2>6
  <2>8. a.id = Sanitise[d.doi] BY <2>2, <2>4, <2>6, <2>7
  <2> QED BY <2>1, <2>8 DEF KnownBy, Stated
<1>3. CASE vocabulary = "phenoroam"
  <2> DEFINE ks == OfPhenoroam(d, a.unit)
  <2>1. Landing[a.unit] \in Keys BY RecordsAssumption DEF RecordsInv
  <2>2. Clean(Landing[a.unit]) \in Nat /\ Clean(Landing[a.unit]) = Sanitise[Landing[a.unit]]
    BY <1>0, <2>1, CleanIs
  <2>3. ks \in Seq(Nat) /\ DOMAIN ks = 1..2 /\ ks[1] = None /\ ks[2] = Clean(Landing[a.unit])
    BY <1>0, <2>2 DEF OfPhenoroam, None
  <2>4. a.id = FirstOf(ks) /\ a.id # None BY <1>3 DEF RecordsInv, Identifier
  <2> HIDE DEF ks
  <2>5. PICK j \in DOMAIN ks : ks[j] # None /\ a.id = ks[j]
    BY <2>3, <2>4, FirstIs
  <2>6. a.id = Sanitise[Landing[a.unit]] BY <2>2, <2>3, <2>5
  <2>7. Landing[a.unit] \in Stated(a) \ {None} BY <1>0, <1>3, <2>1 DEF Stated
  <2> QED BY <2>6, <2>7 DEF KnownBy
<1> QED BY <1>2, <1>3

\* from the unit, the record or its DOI for MODS,
LEMMA ModsKnown ==
  ASSUME RecordsInv, NEW a \in arcs, vocabulary = "mods" PROVE KnownBy(a)
<1> DEFINE d == a.of
           ks == OfMods(a.of, a.unit)
<1>0. /\ a.unit \in Keys /\ a.of \in Datasets /\ Keys \subseteq Nat \ {None}
      /\ Clean(a.unit) = Sanitise[a.unit]
  BY ArcNames
<1>1. /\ d.own \in Keys \cup {None} /\ d.doi \in Keys \cup {None}
  BY <1>0, RecordNames
<1>2. a.id = FirstOf(ks) /\ a.id # None BY DEF RecordsInv, Identifier
<1>3. a.unit \in Stated(a) \ {None} BY <1>0 DEF RecordsInv, SeveralAPage, Stated
<1>4. ks \in Seq(Nat) /\ DOMAIN ks = 1..4
  <2>1. /\ Clean(a.unit) \in Nat /\ Clean(d.own) \in Nat /\ Clean(d.doi) \in Nat /\ None \in Nat
    BY <1>0, <1>1, CleanIs DEF None
  <2> QED BY <2>1 DEF OfMods
<1>5. PICK i \in DOMAIN ks : ks[i] # None /\ a.id = ks[i]
  <2> HIDE DEF ks
  <2> QED BY <1>2, <1>4, FirstIs
<1>6. CASE i \in {1, 4}
  <2>1. a.id = Sanitise[a.unit] BY <1>0, <1>5, <1>6 DEF OfMods
  <2> QED BY <1>3, <2>1 DEF KnownBy
<1>7. CASE i = 2
  <2>1. a.id = Clean(d.own) BY <1>5, <1>7 DEF OfMods
  <2>2. d.own # None /\ a.id = Sanitise[d.own] BY <1>1, <1>2, <2>1, CleanIs
  <2> QED BY <2>2 DEF KnownBy, Stated
<1>8. CASE i = 3
  <2>1. a.id = Clean(d.doi) BY <1>5, <1>8 DEF OfMods
  <2>2. d.doi # None /\ a.id = Sanitise[d.doi] BY <1>1, <1>2, <2>1, CleanIs
  <2> QED BY <2>2 DEF KnownBy, Stated
<1> QED BY <1>4, <1>5, <1>6, <1>7, <1>8

\* A name alone is taken or is none.
LEMMA SingleName == ASSUME NEW k \in Nat, FirstOf(<<k>>) # None PROVE FirstOf(<<k>>) = k
<1>1. <<k>> \in Seq(Nat) /\ DOMAIN <<k>> = {1} /\ <<k>>[1] = k OBVIOUS
<1>2. PICK i \in DOMAIN <<k>> : FirstOf(<<k>>) = <<k>>[i] BY <1>1, FirstIs
<1> QED BY <1>1, <1>2

\* and from the file identifier for INSPIRE, or title and address if that is a URL.
LEMMA InspireKnown ==
  ASSUME RecordsInv, NEW a \in arcs, vocabulary = "inspire"
  PROVE  /\ KnownBy(a)
         /\ a.of.own \notin Addresses => a.id = Sanitise[a.of.own]
<1> DEFINE d == a.of
           names == <<SlugOf(d.title), Clean(LastSegment[d.own])>>
<1>0. /\ a.unit \in Keys /\ a.of \in Datasets /\ Keys \subseteq Nat \ {None}
  BY ArcNames
<1>1. d.own \in Keys /\ d.title \in Titles \cup {None}
  <2>1. d.own # None BY DEF RecordsInv, Named
  <2> QED BY <1>0, <2>1, RecordNames
<1>2. a.id = FirstOf(OfInspire(d)) /\ a.id # None BY DEF RecordsInv, Identifier
<1>3. CASE d.own \notin Addresses
  <2>1. a.id = FirstOf(<<Clean(d.own)>>) BY <1>2, <1>3 DEF OfInspire
  <2>2. Clean(d.own) \in Nat /\ Clean(d.own) = Sanitise[d.own] /\ d.own # None BY <1>0, <1>1, CleanIs
  <2>3. a.id = Sanitise[d.own] BY <1>2, <2>1, <2>2, SingleName
  <2> QED BY <2>2, <2>3 DEF KnownBy, Stated
<1>4. CASE d.own \in Addresses
  <2>1. LastSegment[d.own] \in Keys BY <1>4, RecordsAssumption
  <2>2. /\ Clean(LastSegment[d.own]) \in Nat /\ Clean(LastSegment[d.own]) = Sanitise[LastSegment[d.own]]
        /\ SlugOf(d.title) \in Nat
    BY <1>0, <1>1, <2>1, CleanIs, SlugIs DEF None
  <2>3. names \in Seq(Nat) /\ DOMAIN names = 1..2 BY <2>2
  <2>4. a.id = FirstOf(<<FirstOf(names)>>) BY <1>2, <1>4 DEF OfInspire
  <2>5. FirstOf(names) # None => \E i \in DOMAIN names : names[i] # None /\ FirstOf(names) = names[i]
    <3> HIDE DEF names
    <3> QED BY <2>3, FirstIs
  <2>6. FirstOf(names) \in Nat
    <3>1. FirstOf(names) = None \/ FirstOf(names) \in {names[1], names[2]} BY <2>3, <2>5
    <3> QED BY <2>2, <3>1 DEF None
  <2>7. a.id = FirstOf(names)
    <3> HIDE DEF names
    <3> QED BY <1>2, <2>4, <2>6, SingleName
  <2>8. \/ SlugOf(d.title) # None /\ a.id = SlugOf(d.title)
        \/ a.id = Sanitise[LastSegment[d.own]]
    BY <1>2, <2>2, <2>3, <2>5, <2>7
  <2>9. {SlugOf(d.title), LastSegment[d.own]} \subseteq Stated(a) BY <1>4 DEF Stated
  <2>10. LastSegment[d.own] # None BY <1>0, <2>1
  <2> QED BY <1>4, <2>8, <2>9, <2>10 DEF KnownBy
<1> QED BY <1>3, <1>4

\* So every ARC in the list is known by its identifier.
LEMMA AllKnown == ASSUME RecordsInv, NEW a \in arcs PROVE KnownBy(a)
<1>1. vocabulary \in {"schema_org", "regal", "ckanext", "mods", "phenoroam", "inspire"}
  BY DEF RecordsInv, Vocabularies
<1>2. vocabulary = "ckanext" => a.of.own # None BY DEF RecordsInv, Named
<1> QED BY <1>1, <1>2, GraphKnown, OwnKnown, OtherKnown, ModsKnown, InspireKnown

\* Two ARCs of one identifier are known by something each of their records states.
LEMMA KnownApart == RecordsInv => IdsApart
<1> SUFFICES ASSUME RecordsInv, NEW a \in arcs, NEW b \in arcs, a.id = b.id
             PROVE  \E k \in Stated(a) \ {None}, l \in Stated(b) \ {None} :
                      a.id \in {k, Sanitise[k]} \cap {l, Sanitise[l]}
  BY DEF IdsApart
<1>1. PICK k \in Stated(a) \ {None} : a.id \in {k, Sanitise[k]} BY AllKnown DEF KnownBy
<1>2. PICK l \in Stated(b) \ {None} : b.id \in {l, Sanitise[l]} BY AllKnown DEF KnownBy
<1> QED BY <1>1, <1>2

\* The identifier of a record alone in its unit that keeps its name depends on unit and name.
LEMMA NameLasts ==
  ASSUME RecordsInv, NEW a \in arcs, a.alone,
         a.of.own # None \/ vocabulary = "schema_org",
         vocabulary = "inspire" => a.of.own \notin Addresses
  PROVE  a.id = IF vocabulary = "schema_org" THEN PageKey(a.unit)
                ELSE IF vocabulary = "mods" /\ a.unit \in CatalogIds THEN Clean(a.unit)
                ELSE Sanitise[a.of.own]
<1> DEFINE d == a.of
<1>0. /\ a.unit \in Keys /\ a.of \in Datasets /\ Keys \subseteq Nat \ {None}
      /\ \A k \in Keys : Sanitise[k] \in Keys
      /\ Clean(a.unit) = Sanitise[a.unit]
  BY ArcNames
<1>1. /\ d.own \in Keys \cup {None} /\ d.doi \in Keys \cup {None}
      /\ {Least(d.links), Least(d.sameAs)} \subseteq Keys \cup {None}
  BY <1>0, RecordNames
<1>2. /\ Clean(d.own) \in Nat /\ Clean(d.doi) \in Nat /\ d.doi \in Nat /\ None \in Nat
      /\ Clean(Least(d.links)) \in Nat /\ Clean(Least(d.sameAs)) \in Nat
      /\ d.own # None => Clean(d.own) = Sanitise[d.own] /\ Clean(d.own) # None
  BY <1>0, <1>1, CleanIs DEF None
<1>3. CASE vocabulary = "schema_org"
  <2>1. PageKey(a.unit) \in Nat /\ PageKey(a.unit) # None BY <1>0 DEF PageKey
  <2>2. PICK ks : ks = OfGraph(d, a.unit, a.alone) OBVIOUS
  <2>3. ks \in Seq(Nat) /\ ks # <<>> /\ ks[1] = PageKey(a.unit) BY <1>2, <2>1, <2>2 DEF OfGraph
  <2>4. a.id = FirstOf(ks) BY <1>3, <2>2 DEF RecordsInv, Identifier
  <2> QED BY <1>3, <2>1, <2>3, <2>4, FirstName
<1>4. CASE vocabulary = "mods"
  <2>1. PICK ks : ks = OfMods(d, a.unit) OBVIOUS
  <2>2. /\ ks \in Seq(Nat) /\ ks # <<>> /\ DOMAIN ks = 1..4 /\ ks[2] = Clean(d.own)
        /\ ks[1] = IF a.unit \in CatalogIds THEN Clean(a.unit) ELSE None
    <3>1. Clean(a.unit) \in Nat BY <1>0
    <3>2. PICK m \in Nat : m = IF a.unit \in CatalogIds THEN Clean(a.unit) ELSE None BY <1>2, <3>1
    <3>3. ks = <<m, Clean(d.own), Clean(d.doi), Clean(a.unit)>> BY <2>1, <3>2 DEF OfMods
    <3> QED BY <1>2, <3>1, <3>2, <3>3
  <2>3. a.id = FirstOf(ks) /\ a.id # None BY <1>4, <2>1 DEF RecordsInv, Identifier
  <2>4. CASE a.unit \in CatalogIds BY <1>0, <1>4, <2>2, <2>3, <2>4, FirstName
  <2>5. CASE a.unit \notin CatalogIds
    <3>1. PICK j \in DOMAIN ks : /\ ks[j] # None /\ a.id = ks[j]
                                 /\ \A h \in DOMAIN ks : h < j => ks[h] = None
      BY <2>2, <2>3, FirstIs
    <3>2. j = 2 BY <1>2, <1>4, <2>2, <2>5, <3>1
    <3> QED BY <1>2, <1>4, <2>2, <2>5, <3>1, <3>2
  <2> QED BY <2>4, <2>5
<1>5. CASE vocabulary \in {"regal", "ckanext", "phenoroam"} BY <1>5, OwnKnown
<1>6. CASE vocabulary = "inspire" BY <1>6, InspireKnown
<1>7. vocabulary \in {"schema_org", "regal", "ckanext", "mods", "phenoroam", "inspire"}
  BY DEF RecordsInv, Vocabularies
<1> QED BY <1>3, <1>4, <1>5, <1>6, <1>7

\* RecordsInv is inductive, also where no records are read.
LEMMA RecordsInitially == RecordsInit \/ NoRecords => RecordsInv
BY DEF RecordsInit, NoRecords, RecordsInv

\* Handing an ARC over and reading the sources again keep it.
LEMMA RecordsStep == RecordsInv /\ [RecordsNext]_rvars => RecordsInv'
<1> SUFFICES ASSUME RecordsInv, [RecordsNext]_rvars PROVE RecordsInv'
  OBVIOUS
<1>1. CASE UNCHANGED rvars
  BY <1>1 DEF rvars, RecordsInv, Identifier, OfGraph, OfRegal, OfCatalog, OfMods, OfPhenoroam, OfInspire
<1>2. ASSUME NEW u \in Units, NEW page \in Pages, NEW htmlTitle \in BOOLEAN, Read(u, page, htmlTitle)
      PROVE  RecordsInv'
  <2> DEFINE alone == Cardinality(page) = 1
             Arc(d) == [unit |-> u, of |-> d, alone |-> alone, id |-> Identifier(d, u, alone)]
  <2>1. /\ vocabulary' = vocabulary /\ (vocabulary \in SeveralAPage \/ alone)
        /\ vocabulary \in Named => \A d \in page : d.own # None
    BY <1>2 DEF Read
  <2>2. PICK ds \in SUBSET page :
          arcs' = IF \A d \in ds : Usable(d, htmlTitle) /\ Identifier(d, u, alone) # None
                  THEN arcs \cup {Arc(d) : d \in ds} ELSE arcs
    BY <1>2 DEF Read
  <2>3. vocabulary \in Vocabularies BY <1>2, RecordsAssumption DEF Read, RecordsInv
  <2>4. page \in SUBSET Datasets BY DEF Pages
  <2>5. \A d, v, b : Identifier(d, v, b)' = Identifier(d, v, b)
    BY <2>1 DEF Identifier, OfGraph, OfRegal, OfCatalog, OfMods, OfPhenoroam, OfInspire
  <2>6. ASSUME NEW a \in arcs', a \notin arcs
        PROVE  /\ a.unit \in Units /\ a.of \in Datasets /\ a.alone \in BOOLEAN
               /\ a.id = Identifier(a.of, a.unit, a.alone) /\ a.id # None
               /\ vocabulary \notin SeveralAPage => a.alone
               /\ vocabulary \in Named => a.of.own # None
               /\ vocabulary = "regal" => a.of.own # None \/ a.of.doi # None
    <3>1. /\ \A d \in ds : Usable(d, htmlTitle) /\ Identifier(d, u, alone) # None
          /\ arcs' = arcs \cup {Arc(d) : d \in ds}
      BY <2>2, <2>6
    <3>2. PICK d \in ds : a = Arc(d) BY <2>6, <3>1
    <3>3. alone \in BOOLEAN OBVIOUS
    <3> HIDE DEF alone
    <3>4. a.unit = u /\ a.of = d /\ a.alone = alone /\ a.id = Identifier(d, u, alone) BY <3>2
    <3>5. d \in Datasets /\ d \in page /\ Usable(d, htmlTitle) /\ a.id # None BY <2>4, <3>1, <3>4
    <3>6. vocabulary = "regal" => d.own # None \/ d.doi # None BY <3>5 DEF Usable
    <3> QED BY <2>1, <3>3, <3>4, <3>5, <3>6
  <2>7. ASSUME NEW a \in arcs'
        PROVE  /\ a.unit \in Units /\ a.of \in Datasets /\ a.alone \in BOOLEAN
               /\ a.id = Identifier(a.of, a.unit, a.alone) /\ a.id # None
               /\ vocabulary \notin SeveralAPage => a.alone
               /\ vocabulary \in Named => a.of.own # None
               /\ vocabulary = "regal" => a.of.own # None \/ a.of.doi # None
    BY <2>6 DEF RecordsInv
  <2> QED BY <2>1, <2>3, <2>5, <2>7 DEF RecordsInv
<1> QED BY <1>1, <1>2 DEF RecordsNext

\* Sound identifiers follow.
LEMMA KnownSound == RecordsInv => IdsSound
<1> SUFFICES ASSUME RecordsInv PROVE IdsLast
  BY KnownApart DEF IdsSound
<1>1. ASSUME NEW a \in arcs, NEW b \in arcs, a.unit = b.unit, a.alone, b.alone, a.of.own = b.of.own,
             a.of.own # None \/ vocabulary = "schema_org",
             vocabulary = "inspire" => a.of.own \notin Addresses
      PROVE  a.id = b.id
  <2>1. a.id = IF vocabulary = "schema_org" THEN PageKey(a.unit)
               ELSE IF vocabulary = "mods" /\ a.unit \in CatalogIds THEN Clean(a.unit)
               ELSE Sanitise[a.of.own]
    BY <1>1, NameLasts
  <2>2. b.id = IF vocabulary = "schema_org" THEN PageKey(b.unit)
               ELSE IF vocabulary = "mods" /\ b.unit \in CatalogIds THEN Clean(b.unit)
               ELSE Sanitise[b.of.own]
    BY <1>1, NameLasts
  <2> QED BY <1>1, <2>1, <2>2
<1> QED BY <1>1 DEF IdsLast

-----------------------------------------------------------------------------
(* Comments.  A list of comments is merged to one comment a name, which    *)
(* has the values under that name, each once.                              *)
AnyName == KnownNames \cup {"License", "Institution", DateModified, Organization, OrganizationUrl,
                           "Position", "Online Resource"}
Written == {Comment(n, v) : n \in AnyName, v \in Values \cup {Empty}}

LEMMA WrittenIs == \A c, d \in Written : c.name = d.name /\ c.value = d.value => c = d
  BY DEF Written, Comment

\* The first position of a list where something is found.
LEMMA FirstPlace ==
  ASSUME NEW I \in SUBSET Nat, NEW i \in I
  PROVE  \E j \in I : \A k \in I : j <= k
  BY LeastNumber

\* Positions are finitely many.
LEMMA PositionsFinite ==
  ASSUME NEW S, NEW s \in Seq(S), NEW I \in SUBSET DOMAIN s
  PROVE  IsFiniteSet(I) /\ I \in SUBSET Int /\ Cardinality(I) \in Nat
<1>1. PICK n \in Nat : DOMAIN s = 1..n OBVIOUS
<1>2. IsFiniteSet(1..n) BY FirstNumbers
<1>3. IsFiniteSet(I) BY <1>1, <1>2, FS_Subset
<1> QED BY <1>1, <1>3, FS_CardinalityType

\* Of every name the first comment is kept, with the distinct values.
LEMMA MergedIs ==
  ASSUME NEW cs \in Seq(Written)
  PROVE  LET m == MergeDuplicates(cs)
         IN  /\ \E c \in Nat : DOMAIN m = 1..c
             /\ NamesOnce(m)
             /\ \A i \in DOMAIN cs : \E k \in DOMAIN m : m[k].name = cs[i].name
             /\ \A k \in DOMAIN m : m[k].values = DistinctValues(cs, m[k].name)
<1> DEFINE F == {i \in DOMAIN cs : \A j \in 1..i-1 : cs[j].name # cs[i].name}
           f == Ascending(F)
           m == MergeDuplicates(cs)
<1>1. PICK n \in Nat : DOMAIN cs = 1..n OBVIOUS
<1>2. IsFiniteSet(F) /\ F \in SUBSET Int /\ Cardinality(F) \in Nat BY PositionsFinite
<1>3. PICK c \in Nat : c = Cardinality(F) BY <1>2
<1>4. Enumerates(f, F) BY <1>2, Ascent
<1> HIDE DEF f
<1>5. /\ f \in [1..c -> F] /\ (\A i \in F : \E k \in 1..c : f[k] = i)
      /\ \A k, l \in 1..c : f[k] = f[l] => k = l
  BY <1>3, <1>4 DEF Enumerates
<1>6. m = [k \in 1..c |-> [name |-> cs[f[k]].name, values |-> DistinctValues(cs, cs[f[k]].name)]]
  <2>1. DOMAIN f = 1..c BY <1>5
  <2> QED BY <2>1 DEF MergeDuplicates, FirstOfName, f
<1> HIDE DEF m
<1>7. DOMAIN m = 1..c BY <1>6
<1>8. \A k \in 1..c : m[k].name = cs[f[k]].name /\ m[k].values = DistinctValues(cs, cs[f[k]].name)
  BY <1>6
<1>9. \A i, j \in F : cs[i].name = cs[j].name => i = j
  <2>1. ASSUME NEW i \in F, NEW j \in F, cs[i].name = cs[j].name, i < j PROVE FALSE
    <3>1. i \in 1..j-1 BY <1>1, <2>1
    <3> QED BY <2>1, <3>1
  <2>2. \A i, j \in F : i < j \/ j < i \/ i = j BY <1>2
  <2> QED BY <2>1, <2>2
<1>10. NamesOnce(m)
  <2>1. ASSUME NEW k \in 1..c, NEW l \in 1..c, m[k].name = m[l].name PROVE k = l
    <3>1. f[k] \in F /\ f[l] \in F /\ cs[f[k]].name = cs[f[l]].name BY <1>5, <1>8, <2>1
    <3> HIDE DEF F
    <3> QED BY <1>5, <1>9, <3>1
  <2> QED BY <1>7, <2>1 DEF NamesOnce
<1>11. ASSUME NEW i \in DOMAIN cs PROVE \E k \in DOMAIN m : m[k].name = cs[i].name
  <2> DEFINE J == {j \in DOMAIN cs : cs[j].name = cs[i].name}
  <2>1. i \in J /\ J \in SUBSET Nat BY <1>1
  <2>2. PICK j \in J : \A l \in J : j <= l BY <2>1, FirstPlace
  <2>3. ASSUME NEW l \in 1..j-1 PROVE cs[l].name # cs[j].name
    <3>1. l \in DOMAIN cs /\ ~(j <= l) BY <1>1
    <3> QED BY <2>2, <3>1
  <2>4. j \in F BY <2>3
  <2>5. PICK k \in 1..c : f[k] = j BY <1>5, <2>4
  <2>6. m[k].name = cs[i].name BY <1>8, <2>5
  <2> QED BY <1>7, <2>6
<1> QED BY <1>7, <1>8, <1>10, <1>11 DEF m

\* A value that was written is there once.
LEMMA ValueOnce ==
  ASSUME NEW cs \in Seq(Written), NEW i \in DOMAIN cs, cs[i].value # Empty
  PROVE  LET vs == DistinctValues(cs, cs[i].name)
         IN  Cardinality({k \in DOMAIN vs : vs[k] = cs[i].value}) = 1
<1> DEFINE N == NewValues(cs, cs[i].name)
           vs == DistinctValues(cs, cs[i].name)
           K == {k \in DOMAIN vs : vs[k] = cs[i].value}
<1>1. PICK n \in Nat : DOMAIN cs = 1..n OBVIOUS
<1>2. N \subseteq DOMAIN cs BY DEF NewValues
<1>3. IsFiniteSet(N) /\ N \in SUBSET Int /\ Cardinality(N) \in Nat BY <1>2, PositionsFinite
<1> HIDE DEF N
<1>4. PICK a : /\ Enumerates(a, N)
               /\ Selected(cs, N) = [k \in 1..Cardinality(N) |-> cs[a[k]]]
               /\ \A k, l \in 1..Cardinality(N) : k < l => a[k] < a[l]
  BY <1>3, Selection
<1>5. PICK c \in Nat : c = Cardinality(N) BY <1>3
<1>6. /\ a \in [1..c -> N] /\ (\A j \in N : \E k \in 1..c : a[k] = j)
      /\ \A k, l \in 1..c : a[k] = a[l] => k = l
  BY <1>4, <1>5 DEF Enumerates
<1>7. DOMAIN vs = 1..c /\ \A k \in 1..c : vs[k] = cs[a[k]].value
  <2>1. Selected(cs, N) = [k \in 1..c |-> cs[a[k]]] BY <1>4, <1>5
  <2>2. vs = [k \in 1..c |-> cs[a[k]].value] BY <2>1 DEF DistinctValues, N
  <2> QED BY <2>2
<1> HIDE DEF vs
<1>8. \A j \in N : j \in DOMAIN cs /\ cs[j].name = cs[i].name /\ \A l \in 1..j-1 : cs[l] # cs[j]
  BY DEF N, NewValues
<1>9. \A j, l \in N : cs[j] = cs[l] => j = l
  <2>1. ASSUME NEW j \in N, NEW l \in N, cs[j] = cs[l], j < l PROVE FALSE
    <3>1. j \in 1..l-1 BY <1>1, <1>8, <2>1
    <3> QED BY <1>8, <2>1, <3>1
  <2>2. \A j, l \in N : j < l \/ l < j \/ j = l BY <1>3
  <2> QED BY <2>1, <2>2
<1>10. \A k \in K : k \in 1..c /\ a[k] \in N /\ cs[a[k]] = cs[i]
  <2>1. ASSUME NEW k \in K PROVE k \in 1..c /\ a[k] \in N /\ cs[a[k]] = cs[i]
    <3>1. k \in 1..c /\ vs[k] = cs[i].value BY <1>7
    <3>2. a[k] \in N BY <1>6, <3>1
    <3>3. a[k] \in DOMAIN cs /\ cs[a[k]].name = cs[i].name /\ cs[a[k]].value = cs[i].value
      BY <1>7, <1>8, <3>1, <3>2
    <3>4. cs[a[k]] \in Written /\ cs[i] \in Written BY <3>3
    <3> QED BY <3>1, <3>2, <3>3, <3>4, WrittenIs
  <2> QED BY <2>1
<1>11. \E k \in K : TRUE
  <2> DEFINE J == {j \in DOMAIN cs : cs[j] = cs[i]}
  <2>1. i \in J /\ J \in SUBSET Nat BY <1>1
  <2>2. PICK j \in J : \A l \in J : j <= l BY <2>1, FirstPlace
  <2>3. ASSUME NEW l \in 1..j-1 PROVE cs[l] # cs[j]
    <3>1. l \in DOMAIN cs /\ ~(j <= l) BY <1>1
    <3> QED BY <2>2, <3>1
  <2>4. j \in N BY <2>3 DEF N, NewValues
  <2>5. PICK k \in 1..c : a[k] = j BY <1>6, <2>4
  <2>6. k \in K BY <1>7, <2>5
  <2> QED BY <2>6
<1>12. PICK k \in K : K = {k}
  <2>1. PICK k \in K : TRUE BY <1>11
  <2>2. \A l \in K : l = k BY <1>6, <1>9, <1>10
  <2> HIDE DEF K
  <2>3. K = {k} BY <2>2
  <2> QED BY <2>3
<1> HIDE DEF K
<1>13. Cardinality(K) = 1 BY <1>12, FS_Singleton
<1> QED BY <1>13 DEF K, vs

\* Under a name that no other comment has are the values of the comment with it.
LEMMA ValuesFound ==
  ASSUME NEW m, NEW c \in Nat, DOMAIN m = 1..c, NamesOnce(m), NEW k \in DOMAIN m
  PROVE  ValuesOf(m, m[k].name) = m[k].values
<1> DEFINE found == {l \in DOMAIN m : m[l].name = m[k].name}
<1>1. found = {k} BY DEF NamesOnce
<1>2. k <= k OBVIOUS
<1> DEFINE first == CHOOSE l \in found : \A j \in found : l <= j
<1>3. first \in found
  <2>1. \E l \in found : \A j \in found : l <= j BY <1>1, <1>2
  <2> HIDE DEF found
  <2> QED BY <2>1
<1>4. first = k
  <2> HIDE DEF first
  <2> QED BY <1>1, <1>3
<1>5. found # {} BY <1>1
<1>6. ValuesOf(m, m[k].name) = m[first].values
  <2> HIDE DEF first
  <2> QED BY <1>5 DEF ValuesOf, first
<1> QED BY <1>4, <1>6

\* Only the comments with the date of the last change go.
LEMMA DroppedIs ==
  ASSUME NEW m, NEW c \in Nat, DOMAIN m = 1..c, NamesOnce(m)
  PROVE  LET d == DropDateModified(m)
         IN  /\ \E n \in Nat : DOMAIN d = 1..n
             /\ NamesOnce(d)
             /\ \A k \in DOMAIN d : d[k].name # DateModified
             /\ \A k \in DOMAIN m : m[k].name # DateModified => \E l \in DOMAIN d : d[l] = m[k]
<1> DEFINE I == {k \in DOMAIN m : m[k].name # DateModified}
           d == DropDateModified(m)
<1>1. IsFiniteSet(I) /\ I \in SUBSET Int
  <2>1. IsFiniteSet(1..c) BY FirstNumbers
  <2> QED BY <2>1, FS_Subset
<1>2. PICK n \in Nat : n = Cardinality(I) BY <1>1, FS_CardinalityType
<1>3. PICK a : /\ Enumerates(a, I)
               /\ Selected(m, I) = [k \in 1..Cardinality(I) |-> m[a[k]]]
               /\ \A k, l \in 1..Cardinality(I) : k < l => a[k] < a[l]
  <2> HIDE DEF I
  <2> QED BY <1>1, Selection
<1>4. /\ a \in [1..n -> I] /\ (\A i \in I : \E k \in 1..n : a[k] = i)
      /\ \A k, l \in 1..n : a[k] = a[l] => k = l
  BY <1>2, <1>3 DEF Enumerates
<1>5. d = [k \in 1..n |-> m[a[k]]] BY <1>2, <1>3 DEF DropDateModified
<1> HIDE DEF d
<1>6. DOMAIN d = 1..n /\ \A k \in 1..n : d[k] = m[a[k]] /\ a[k] \in I BY <1>4, <1>5
<1>7. NamesOnce(d)
  <2>1. ASSUME NEW k \in 1..n, NEW l \in 1..n, d[k].name = d[l].name PROVE k = l
    <3>1. m[a[k]].name = m[a[l]].name /\ a[k] \in DOMAIN m /\ a[l] \in DOMAIN m BY <1>6, <2>1
    <3>2. a[k] = a[l] BY <3>1 DEF NamesOnce
    <3> QED BY <1>4, <3>2
  <2> QED BY <1>6, <2>1 DEF NamesOnce
<1>8. \A k \in DOMAIN d : d[k].name # DateModified BY <1>6
<1>9. ASSUME NEW k \in DOMAIN m, m[k].name # DateModified PROVE \E l \in DOMAIN d : d[l] = m[k]
  <2>1. k \in I BY <1>9
  <2>2. PICK l \in 1..n : a[l] = k BY <1>4, <2>1
  <2> QED BY <1>6, <2>2
<1> QED BY <1>6, <1>7, <1>8, <1>9 DEF d

(* The comments of one holder as the crate writes them:
   the merge of what was appended (the invariant behind CommentsKept). *)
Merged1(h) == MergeDuplicates(appended[h])

CommentsTypeOK == /\ appended \in [Holders -> Seq(Written)]
                  /\ \A i \in DOMAIN appended["person"] : appended["person"][i].name # DateModified
Serialised == /\ crate = [h \in Holders |-> DropDateModified(Merged1(h))]
              /\ root = ValuesOf(Merged1("investigation"), DateModified)
CommentsInv == CommentsTypeOK /\ (written => Serialised \/ NoComments)

LEMMA CommentsInitially == CommentsInit \/ NoComments => CommentsInv
<1>1. ASSUME CommentsInit \/ NoComments PROVE appended = [h \in Holders |-> <<>>] BY <1>1 DEF CommentsInit, NoComments
<1>2. ASSUME appended = [h \in Holders |-> <<>>] PROVE CommentsTypeOK
  <2>1. <<>> \in Seq(Written) /\ DOMAIN <<>> = {} OBVIOUS
  <2>2. "person" \in Holders BY DEF Holders
  <2> QED BY <1>2, <2>1, <2>2 DEF CommentsTypeOK
<1> QED BY <1>1, <1>2 DEF CommentsInv, CommentsInit

\* What is put on a holder is a comment, and on a person never the date of the last change.
LEMMA PutKeeps ==
  ASSUME CommentsInv, ~written, NEW h \in Holders, NEW added \in Seq(Written), Put(h, added),
         h = "person" => \A i \in DOMAIN added : added[i].name # DateModified
  PROVE  CommentsInv'
<1>1. /\ appended' = [appended EXCEPT ![h] = @ \o added] /\ written' = written
      /\ appended \in [Holders -> Seq(Written)]
  BY DEF Put, CommentsInv, CommentsTypeOK
<1>2. appended[h] \o added \in Seq(Written) BY <1>1
<1>3. appended' \in [Holders -> Seq(Written)] BY <1>1, <1>2
<1>4. \A i \in DOMAIN appended'["person"] : appended'["person"][i].name # DateModified
  <2> DEFINE s == appended["person"]
  <2>0. "person" \in Holders BY DEF Holders
  <2>1. \A i \in DOMAIN s : s[i].name # DateModified BY DEF CommentsInv, CommentsTypeOK
  <2>2. CASE h # "person"
    <3>1. appended'["person"] = s BY <1>1, <2>0, <2>2
    <3> QED BY <2>1, <3>1
  <2>3. CASE h = "person"
    <3>1. appended'["person"] = s \o added BY <1>1, <2>0, <2>3
    <3>2. s \in Seq(Written) BY <1>1, <2>0
    <3> HIDE DEF s
    <3>3. PICK m \in Nat, n \in Nat : Len(s) = m /\ DOMAIN s = 1..m /\ Len(added) = n /\ DOMAIN added = 1..n
      BY <3>2
    <3>4. DOMAIN (s \o added) = 1..m + n BY <3>2, <3>3
    <3>5. \A i \in 1..m + n : (s \o added)[i] = IF i <= m THEN s[i] ELSE added[i - m] BY <3>2, <3>3
    <3>6. ASSUME NEW i \in 1..m + n PROVE (s \o added)[i].name # DateModified
      <4>1. CASE i <= m
        <5>1. i \in DOMAIN s BY <3>3, <4>1
        <5> QED BY <2>1, <3>5, <4>1, <5>1
      <4>2. CASE ~(i <= m)
        <5>1. i - m \in DOMAIN added BY <3>3, <4>2
        <5> QED BY <2>3, <3>5, <4>2, <5>1
      <4> QED BY <4>1, <4>2
    <3> QED BY <3>1, <3>4, <3>6
  <2> QED BY <2>2, <2>3
<1> QED BY <1>1, <1>3, <1>4 DEF CommentsInv, CommentsTypeOK

LEMMA CommentsStep == CommentsInv /\ [CommentsNext]_mvars => CommentsInv'
<1> SUFFICES ASSUME CommentsInv, [CommentsNext]_mvars PROVE CommentsInv' OBVIOUS
<1>a. \A n \in AnyName, v \in Values \cup {Empty} : Comment(n, v) \in Written BY DEF Written
<1>b. \A c \in Written : <<c>> \in Seq(Written) /\ DOMAIN <<c>> = {1} /\ <<c>>[1] = c OBVIOUS
<1>c. \A n, v : Comment(n, v).name = n BY DEF Comment
<1>d. "investigation" \in Holders /\ "person" \in Holders /\ "investigation" # "person" BY DEF Holders
<1>e. KnownNames \subseteq AnyName /\ Organization \in AnyName /\ OrganizationUrl \in AnyName BY DEF AnyName
<1>1. CASE UNCHANGED mvars BY <1>1 DEF mvars, CommentsInv, CommentsTypeOK, Serialised, NoComments, Merged1
<1>2. ASSUME NEW n \in KnownNames, NEW v \in Values, ~written, WriteOnce(n, v) \/ WriteAgain(n, v) PROVE CommentsInv'
  <2>1. Put("investigation", <<Comment(n, v)>>) BY <1>2 DEF WriteOnce, WriteAgain
  <2>2. Comment(n, v) \in Written BY <1>a, <1>e
  <2> QED BY <1>2, <1>b, <1>d, <2>1, <2>2, PutKeeps
<1>3. ASSUME NEW n \in {"License", "Institution", DateModified, Organization}, NEW v \in Values, ~written,
             WriteOpaque(n, v)
      PROVE  CommentsInv'
  <2>1. Put("investigation", <<Comment(n, v)>>) BY <1>3 DEF WriteOpaque
  <2>2. n \in AnyName BY <1>e DEF AnyName
  <2>3. Comment(n, v) \in Written BY <1>a, <2>2
  <2> QED BY <1>3, <1>b, <1>d, <2>1, <2>3, PutKeeps
<1>4. ASSUME NEW v \in Values, NEW url \in Values \cup {Empty}, ~written, WriteOrganization(v, url) PROVE CommentsInv'
  <2> DEFINE a == <<Comment(Organization, v)>>
             b == IF url \in {Empty, v} THEN <<>> ELSE <<Comment(OrganizationUrl, url)>>
  <2>1. Put("investigation", a \o b) BY <1>4 DEF WriteOrganization
  <2>2. a \in Seq(Written) BY <1>a, <1>b, <1>e
  <2>3. b \in Seq(Written)
    <3>1. Comment(OrganizationUrl, url) \in Written BY <1>a, <1>e
    <3>2. <<Comment(OrganizationUrl, url)>> \in Seq(Written) /\ <<>> \in Seq(Written) BY <1>b, <3>1
    <3> QED BY <3>2
  <2> HIDE DEF a, b
  <2>4. a \o b \in Seq(Written) BY <2>2, <2>3
  <2> QED BY <1>4, <1>d, <2>1, <2>4, PutKeeps
<1>5. ASSUME NEW n \in {"Position", "Online Resource"}, NEW v \in Values \cup {Empty}, ~written, WriteOnPerson(n, v)
      PROVE  CommentsInv'
  <2>1. Put("person", <<Comment(n, v)>>) BY <1>5 DEF WriteOnPerson
  <2>2. n \in AnyName /\ n # DateModified BY DEF AnyName, DateModified
  <2>3. Comment(n, v) \in Written /\ Comment(n, v).name # DateModified BY <1>a, <1>c, <2>2
  <2>4. <<Comment(n, v)>> \in Seq(Written) /\ \A i \in DOMAIN <<Comment(n, v)>> : <<Comment(n, v)>>[i].name # DateModified
    BY <1>b, <2>3
  <2> QED BY <1>5, <1>d, <2>1, <2>4, PutKeeps
<1>6. ASSUME Serialise PROVE CommentsInv'
  BY <1>6, <1>d DEF Serialise, CommentsInv, CommentsTypeOK, Serialised, Merged1
<1> QED BY <1>1, <1>2, <1>3, <1>4, <1>5, <1>6 DEF CommentsNext

LEMMA SerialisedKeeps == CommentsInv => CommentsKept
<1> SUFFICES ASSUME CommentsInv, written, NEW h \in Holders
             PROVE  /\ NamesOnce(crate[h])
                    /\ \A i \in DOMAIN appended[h] :
                         appended[h][i].value # Empty =>
                           Cardinality({k \in DOMAIN InCrate(h, appended[h][i].name) :
                                          InCrate(h, appended[h][i].name)[k] = appended[h][i].value}) = 1
                    /\ \A k \in DOMAIN crate[h] : crate[h][k].name # DateModified
  BY DEF CommentsKept
<1>1. CASE NoComments
  <2>1. appended[h] = <<>> /\ crate[h] = <<>> BY <1>1 DEF NoComments
  <2> QED BY <2>1 DEF NamesOnce
<1>2. CASE Serialised
  <2> DEFINE cs == appended[h]
             m == MergeDuplicates(cs)
             d == DropDateModified(m)
  <2>1. cs \in Seq(Written) BY DEF CommentsInv, CommentsTypeOK
  <2>2. crate[h] = d BY <1>2 DEF Serialised, Merged1
  <2> HIDE DEF cs
  <2>3. /\ \E c \in Nat : DOMAIN m = 1..c
        /\ NamesOnce(m)
        /\ \A i \in DOMAIN cs : \E k \in DOMAIN m : m[k].name = cs[i].name
        /\ \A k \in DOMAIN m : m[k].values = DistinctValues(cs, m[k].name)
    BY <2>1, MergedIs
  <2> HIDE DEF m
  <2>4. /\ \E n \in Nat : DOMAIN d = 1..n
        /\ NamesOnce(d)
        /\ \A k \in DOMAIN d : d[k].name # DateModified
        /\ \A k \in DOMAIN m : m[k].name # DateModified => \E l \in DOMAIN d : d[l] = m[k]
    BY <2>3, DroppedIs
  <2> HIDE DEF d
  <2>5. ASSUME NEW i \in DOMAIN cs, cs[i].value # Empty
        PROVE  InCrate(h, cs[i].name) = DistinctValues(cs, cs[i].name)
    <3>1. PICK k \in DOMAIN m : m[k].name = cs[i].name BY <2>3
    <3>2. m[k].values = DistinctValues(cs, cs[i].name) BY <2>3, <3>1
    <3>3. CASE cs[i].name = DateModified
      <4>1. h = "investigation" BY <3>3 DEF CommentsInv, CommentsTypeOK, Holders, cs
      <4>2. root = ValuesOf(m, DateModified) BY <1>2, <4>1 DEF Serialised, Merged1, m, cs
      <4>3. ValuesOf(m, m[k].name) = m[k].values BY <2>3, ValuesFound
      <4> QED BY <3>1, <3>2, <3>3, <4>2, <4>3 DEF InCrate
    <3>4. CASE cs[i].name # DateModified
      <4>1. PICK l \in DOMAIN d : d[l] = m[k] BY <2>4, <3>1, <3>4
      <4>2. ValuesOf(d, d[l].name) = d[l].values BY <2>4, ValuesFound
      <4>3. InCrate(h, cs[i].name) = ValuesOf(d, cs[i].name) BY <2>2, <3>4 DEF InCrate
      <4> QED BY <3>1, <3>2, <4>1, <4>2, <4>3
    <3> QED BY <3>3, <3>4
  <2>6. ASSUME NEW i \in DOMAIN cs, cs[i].value # Empty
        PROVE  Cardinality({k \in DOMAIN InCrate(h, cs[i].name) : InCrate(h, cs[i].name)[k] = cs[i].value}) = 1
    BY <2>1, <2>5, <2>6, ValueOnce
  <2> QED BY <2>2, <2>4, <2>6 DEF cs
<1> QED BY <1>1, <1>2 DEF CommentsInv

-----------------------------------------------------------------------------
(* Tables.  What the tables hold is a function of the record; the columns  *)
(* pair up as far as the entries are complete, and the tables chain.       *)
Mapped == columns = Columns /\ study = StudyTables /\ assay = AssayTables
TablesInv == /\ entries \in Seq(Entry)
             /\ \/ /\ source \in DOMAIN Lists /\ made # "mapped"
                   /\ columns = NoColumns /\ study = <<>> /\ assay = <<>>
                \/ source \in DOMAIN Lists /\ made = "mapped" /\ Mapped
                \/ NoTables

\* As long as the record stays the same its tables do.
LEMMA SameTables ==
  ASSUME UNCHANGED <<source, list, entries, facts>>
  PROVE  Columns' = Columns /\ StudyTables' = StudyTables /\ AssayTables' = AssayTables
BY DEF Columns, StudyTables, AssayTables, IsoConformance, IsoIdentifiers, IsoDistances, Rows, With, Online, NameOf,
       Parts, Funding, Distributions, Files, Single, InspireSpatial, InspireAcquisition, InspireProcessing,
       RegalSpatial, RegalCollection, SchemaOrgCollection, ModsKeywords, PhenoroamKeywords, InspireMeasurement,
       CkanextMeasurement

LEMMA TablesInitially == TablesInit \/ NoTables => TablesInv
<1>1. <<>> \in Seq(Entry) OBVIOUS
<1> QED BY <1>1 DEF TablesInit, NoTables, TablesInv

LEMMA TablesStep == TablesInv /\ [TablesNext]_tvars => TablesInv'
<1> SUFFICES ASSUME TablesInv, [TablesNext]_tvars PROVE TablesInv' OBVIOUS
<1>1. CASE UNCHANGED tvars
  <2>1. UNCHANGED <<source, list, entries, facts>> /\ UNCHANGED <<columns, study, assay, made>> BY <1>1 DEF tvars
  <2>2. Mapped => Mapped' BY <2>1, SameTables DEF Mapped
  <2>3. NoTables => NoTables' BY <2>1 DEF NoTables
  <2> QED BY <2>1, <2>2, <2>3 DEF TablesInv
<1>2. ASSUME NEW e \in Entry, ReadEntry(e) PROVE TablesInv'
  BY <1>2 DEF ReadEntry, TablesInv, NoTables
<1>3. CASE RefuseIso BY <1>3 DEF RefuseIso, TablesInv, NoTables
<1>4. CASE MapTables
  <2>1. UNCHANGED <<source, list, entries, facts>> BY <1>4 DEF MapTables
  <2>2. Mapped' BY <1>4, <2>1, SameTables DEF MapTables, Mapped
  <2> QED BY <1>4, <2>2 DEF MapTables, TablesInv, NoTables
<1> QED BY <1>1, <1>2, <1>3, <1>4 DEF TablesNext

-----------------------------------------------------------------------------
\* Two columns of the numbers of entries, in ascending order: of each entry
\* with all before it complete, both values are in the place of its number.
LEMMA ColumnsPair ==
  ASSUME NEW S, NEW s \in Seq(S), NEW I \in SUBSET DOMAIN s, NEW J \in SUBSET DOMAIN s,
         NEW k \in DOMAIN Ascending(I), 1..Ascending(I)[k] \subseteq I \cap J
  PROVE  k \in DOMAIN Ascending(J) /\ Ascending(J)[k] = Ascending(I)[k]
<1>1. PICK n \in Nat : DOMAIN s = 1..n OBVIOUS
<1>2. I \in SUBSET Nat /\ 0 \notin I /\ J \in SUBSET Nat /\ 0 \notin J BY <1>1
<1>3. IsFiniteSet(I) /\ IsFiniteSet(J) BY PositionsFinite
<1>4. DOMAIN Ascending(I) = 1..Cardinality(I) /\ DOMAIN Ascending(J) = 1..Cardinality(J)
  BY DEF Ascending, Arranged
<1> QED BY <1>2, <1>3, <1>4, AscentsAgree

\* A number in a column is the number of an entry.
LEMMA ColumnOf ==
  ASSUME NEW S, NEW s \in Seq(S), NEW I \in SUBSET DOMAIN s, NEW k \in DOMAIN Ascending(I)
  PROVE  Ascending(I)[k] \in I
<1>1. IsFiniteSet(I) /\ I \in SUBSET Int BY PositionsFinite
<1>2. Enumerates(Ascending(I), I) BY <1>1, Ascent
<1>3. DOMAIN Ascending(I) = 1..Cardinality(I) BY DEF Ascending, Arranged
<1> QED BY <1>2, <1>3 DEF Enumerates

LEMMA PairedHolds ==
  ASSUME entries \in Seq(Entry), columns = Columns
  PROVE  Paired
<1> DEFINE F == {i \in DOMAIN entries : entries[i].first}
           G == {i \in DOMAIN entries : entries[i].second}
           H == {i \in DOMAIN entries : entries[i].first \/ entries[i].second}
           a == columns.first
           b == columns.second
<1> SUFFICES ASSUME NEW k \in DOMAIN a, k \in DOMAIN b,
                    list \in Positional \/ \A i \in 1..a[k] : BothHalves(i)
             PROVE  b[k] \in {a[k], Missing}
  BY DEF Paired
<1>1. With("first") = Ascending(F) /\ With("second") = Ascending(G) BY DEF With
<1>2. PICK n \in Nat : DOMAIN entries = 1..n OBVIOUS
<1>3. ASSUME \A i \in 1..a[k] : BothHalves(i), a = Ascending(F)
      PROVE  1..a[k] \subseteq F \cap G \cap H
  <2>1. a[k] \in F BY <1>3, ColumnOf
  <2>2. \A i \in 1..a[k] : i \in DOMAIN entries BY <1>2, <2>1
  <2> HIDE DEF a
  <2>3. \A i \in 1..a[k] : i \in DOMAIN entries /\ entries[i].first /\ entries[i].second
    BY <1>3, <2>2 DEF BothHalves
  <2> QED BY <2>3
<1> HIDE DEF F, G, H
<1>4. F \in SUBSET DOMAIN entries /\ G \in SUBSET DOMAIN entries /\ H \in SUBSET DOMAIN entries BY DEF F, G, H
<1>5. ASSUME NEW default, columns = Rows(With("second"), default), list \notin Positional PROVE b[k] = a[k]
  <2>1. a = Ascending(F) /\ k \in DOMAIN Ascending(F) /\ b[k] = ValueAt(Ascending(G), k, default)
    BY <1>1, <1>5 DEF Rows
  <2>2. 1..a[k] \subseteq F \cap G BY <1>3, <1>5, <2>1
  <2>3. k \in DOMAIN Ascending(G) /\ Ascending(G)[k] = a[k] BY <1>4, <2>1, <2>2, ColumnsPair
  <2> QED BY <2>1, <2>3 DEF ValueAt
<1>6. ASSUME columns = [first |-> With("first"), second |-> With("second")], list \notin Positional PROVE b[k] = a[k]
  <2>1. a = Ascending(F) /\ k \in DOMAIN Ascending(F) /\ b = Ascending(G) BY <1>1, <1>6
  <2>2. 1..a[k] \subseteq F \cap G BY <1>3, <1>6, <2>1
  <2> QED BY <1>4, <2>1, <2>2, ColumnsPair
<1>7. ASSUME columns = Parts, list \notin Positional PROVE b[k] = a[k]
  <2>1. a = Ascending(F) /\ k \in DOMAIN Ascending(F) /\ b = Ascending(H) BY <1>1, <1>7 DEF Parts, H
  <2>2. 1..a[k] \subseteq F \cap H BY <1>3, <1>7, <2>1
  <2> QED BY <1>4, <2>1, <2>2, ColumnsPair
<1>8. CASE list = "online"
  <2>1. columns = Online BY <1>8 DEF Columns
  <2>2. b[k] = NameOf(a[k]) BY <2>1 DEF Online
  <2> QED BY <2>2 DEF NameOf
<1>9. CASE list = "files"
  <2>1. columns = Files BY <1>9 DEF Columns
  <2>2. b[k] = NameOf(a[k]) BY <2>1 DEF Files
  <2> QED BY <2>2 DEF NameOf
<1>10. CASE list \notin {"online", "files"}
  <2>0. list \notin Positional BY <1>10 DEF Positional
  <2>1. CASE list \in {"conformance", "identifiers", "distances"}
    <3>1. columns = Rows(With("second"), Missing) \/ columns = Rows(With("second"), Metre)
      BY <2>1 DEF Columns, IsoConformance, IsoIdentifiers, IsoDistances
    <3> QED BY <1>5, <2>0, <3>1
  <2>2. CASE list \in {"funding", "distributions"}
    <3>1. columns = [first |-> With("first"), second |-> With("second")] BY <2>2 DEF Columns, Funding, Distributions
    <3> QED BY <1>6, <2>0, <3>1
  <2>3. CASE list = "parts"
    <3>1. columns = Parts BY <2>3 DEF Columns
    <3> QED BY <1>7, <2>0, <3>1
  <2>4. CASE list \notin {"conformance", "identifiers", "distances", "funding", "distributions", "parts"}
    <3>1. columns = Single BY <1>10, <2>4 DEF Columns
    <3>2. b = <<>> BY <3>1 DEF Single
    <3> QED BY <3>2
  <2> QED BY <2>1, <2>2, <2>3, <2>4
<1> QED BY <1>8, <1>9, <1>10

-----------------------------------------------------------------------------
\* Tables one behind the other.
LEMMA Concats ==
  ASSUME NEW a, NEW b, NEW c
  PROVE  /\ <<>> \o <<>> = <<>> /\ <<a>> \o <<>> = <<a>> /\ <<>> \o <<a>> = <<a>>
         /\ <<a>> \o <<b>> = <<a, b>> /\ <<a, b>> \o <<>> = <<a, b>> /\ <<a, b>> \o <<c>> = <<a, b, c>>
<1> DEFINE S == {a, b, c}
<1>1. /\ <<>> \in Seq(S) /\ <<a>> \in Seq(S) /\ <<b>> \in Seq(S) /\ <<c>> \in Seq(S)
      /\ <<a, b>> \in Seq(S) /\ <<a, b, c>> \in Seq(S)
  OBVIOUS
<1>2. \A s \in Seq(S) : s \o <<>> = s /\ <<>> \o s = s BY ConcatEmptySeq
<1>3. <<a>> \o <<b>> = <<a, b>>
  <2> DEFINE r == <<a>> \o <<b>>
  <2>1. Len(<<a>>) = 1 /\ Len(<<b>>) = 1 /\ <<a>>[1] = a /\ <<b>>[1] = b OBVIOUS
  <2>2. /\ r \in Seq(S) /\ Len(r) = 2
        /\ \A i \in 1..2 : r[i] = IF i <= 1 THEN <<a>>[i] ELSE <<b>>[i - 1]
    BY <1>1, <2>1, ConcatProperties
  <2> HIDE DEF r
  <2>3. r[1] = a /\ r[2] = b BY <2>1, <2>2
  <2>4. \A i \in 1..Len(r) : r[i] = <<a, b>>[i] BY <2>2, <2>3
  <2>5. r = <<a, b>> BY <1>1, <2>2, <2>4, SeqEqual
  <2> QED BY <2>5 DEF r
<1>4. <<a, b>> \o <<c>> = <<a, b, c>>
  <2> DEFINE r == <<a, b>> \o <<c>>
  <2>1. Len(<<a, b>>) = 2 /\ Len(<<c>>) = 1 /\ <<a, b>>[1] = a /\ <<a, b>>[2] = b /\ <<c>>[1] = c OBVIOUS
  <2>2. /\ r \in Seq(S) /\ Len(r) = 3
        /\ \A i \in 1..3 : r[i] = IF i <= 2 THEN <<a, b>>[i] ELSE <<c>>[i - 2]
    BY <1>1, <2>1, ConcatProperties
  <2> HIDE DEF r
  <2>3. r[1] = a /\ r[2] = b /\ r[3] = c BY <2>1, <2>2
  <2>4. \A i \in 1..Len(r) : r[i] = <<a, b, c>>[i] BY <2>2, <2>3
  <2>5. r = <<a, b, c>> BY <1>1, <2>2, <2>4, SeqEqual
  <2> QED BY <2>5 DEF r
<1> QED BY <1>1, <1>2, <1>3, <1>4

\* What Chained asks of a table behind others,
Link(before, t) == /\ t.input \in Sources \cup {NoHeader} \cup {u.output : u \in before}
                   /\ \A u \in before : u.output = t.output => t.output = NoHeader
                   /\ t.values \/ t.output # NoHeader

LEMMA LinksChain ==
  ASSUME NEW s, \A k \in DOMAIN s : Link({s[j] : j \in 1..k-1}, s[k])
  PROVE  Chained(s)
<1> SUFFICES ASSUME NEW k \in DOMAIN s
             PROVE  /\ s[k].input \in Sources \cup {NoHeader} \cup {s[j].output : j \in 1..k-1}
                    /\ \A j \in 1..k-1 : s[j].output = s[k].output => s[k].output = NoHeader
                    /\ s[k].values \/ s[k].output # NoHeader
  BY DEF Chained
<1> DEFINE before == {s[j] : j \in 1..k-1}
<1>1. {u.output : u \in before} = {s[j].output : j \in 1..k-1} OBVIOUS
<1>2. \A j \in 1..k-1 : s[j] \in before OBVIOUS
<1>3. Link(before, s[k]) OBVIOUS
<1> HIDE DEF before
<1> QED BY <1>1, <1>2, <1>3 DEF Link

\* and so of up to three.
LEMMA Chains3 ==
  ASSUME NEW s,
         \/ s = <<>>
         \/ \E a : s = <<a>> /\ Link({}, a)
         \/ \E a, b : s = <<a, b>> /\ Link({}, a) /\ Link({a}, b)
         \/ \E a, b, c : s = <<a, b, c>> /\ Link({}, a) /\ Link({a}, b) /\ Link({a, b}, c)
  PROVE  Chained(s)
<1>1. CASE s = <<>> BY <1>1 DEF Chained
<1>2. ASSUME NEW a, s = <<a>>, Link({}, a) PROVE Chained(s)
  <2>1. DOMAIN s = {1} /\ s[1] = a BY <1>2
  <2>2. 1..1-1 = {} OBVIOUS
  <2>3. Link({s[j] : j \in 1..1-1}, s[1]) BY <1>2, <2>1, <2>2
  <2> QED BY <2>1, <2>3, LinksChain
<1>3. ASSUME NEW a, NEW b, s = <<a, b>>, Link({}, a), Link({a}, b) PROVE Chained(s)
  <2>1. DOMAIN s = {1, 2} /\ s[1] = a /\ s[2] = b BY <1>3
  <2>2. 1..1-1 = {} /\ 1..2-1 = {1} OBVIOUS
  <2>3. {s[j] : j \in 1..1-1} = {} /\ {s[j] : j \in 1..2-1} = {a} BY <2>1, <2>2
  <2>4. Link({s[j] : j \in 1..1-1}, s[1]) /\ Link({s[j] : j \in 1..2-1}, s[2]) BY <1>3, <2>1, <2>3
  <2> QED BY <2>1, <2>4, LinksChain
<1>4. ASSUME NEW a, NEW b, NEW c, s = <<a, b, c>>, Link({}, a), Link({a}, b), Link({a, b}, c) PROVE Chained(s)
  <2>1. DOMAIN s = {1, 2, 3} /\ s[1] = a /\ s[2] = b /\ s[3] = c BY <1>4
  <2>2. 1..1-1 = {} /\ 1..2-1 = {1} /\ 1..3-1 = {1, 2} OBVIOUS
  <2>3. {s[j] : j \in 1..1-1} = {} /\ {s[j] : j \in 1..2-1} = {a} /\ {s[j] : j \in 1..3-1} = {a, b}
    BY <2>1, <2>2
  <2>4. /\ Link({s[j] : j \in 1..1-1}, s[1]) /\ Link({s[j] : j \in 1..2-1}, s[2])
        /\ Link({s[j] : j \in 1..3-1}, s[3])
    BY <1>4, <2>1, <2>3
  <2> QED BY <2>1, <2>4, LinksChain
<1> QED BY <1>1, <1>2, <1>3, <1>4

LEMMA PartsChain ==
  ASSUME NEW a, NEW b, NEW c, NEW x \in {<<>>, <<a>>}, NEW y \in {<<>>, <<b>>}, NEW z \in {<<>>, <<c>>},
         Link({}, a), Link({}, c), Link({a}, c), Link({b}, c), Link({a, b}, c),
         x = <<>> => Link({}, b), x # <<>> => Link({a}, b)
  PROVE  Chained(x \o y \o z)
<1>0. x # <<>> => x = <<a>> OBVIOUS
<1>1. CASE x = <<>> /\ y = <<>>
  <2>1. x \o y = <<>> BY <1>1, Concats
  <2>2. x \o y \o z = <<>> \/ x \o y \o z = <<c>> BY <2>1, Concats
  <2> QED BY <2>2, Chains3
<1>2. CASE x = <<>> /\ y = <<b>>
  <2>1. x \o y = <<b>> BY <1>2, Concats
  <2>2. x \o y \o z = <<b>> \/ x \o y \o z = <<b, c>> BY <2>1, Concats
  <2> QED BY <1>2, <2>2, Chains3
<1>3. CASE x = <<a>> /\ y = <<>>
  <2>1. x \o y = <<a>> BY <1>3, Concats
  <2>2. x \o y \o z = <<a>> \/ x \o y \o z = <<a, c>> BY <2>1, Concats
  <2> QED BY <2>2, Chains3
<1>4. CASE x = <<a>> /\ y = <<b>>
  <2>0. x # <<>> BY <1>4
  <2>1. x \o y = <<a, b>> BY <1>4, Concats
  <2>2. x \o y \o z = <<a, b>> \/ x \o y \o z = <<a, b, c>> BY <2>1, Concats
  <2> HIDE DEF Link
  <2>3. Link({a}, b) BY <2>0
  <2> QED BY <2>2, <2>3, Chains3
<1> QED BY <1>0, <1>1, <1>2, <1>3, <1>4

\* What a table gives and takes.
LEMMA TableIs ==
  ASSUME NEW in, NEW out, NEW values
  PROVE  Table(in, out, values).input = in /\ Table(in, out, values).output = out /\ Table(in, out, values).values = values
BY DEF Table

LEMMA Behind ==
  ASSUME NEW t, t.values \/ t.output # NoHeader
  PROVE  /\ t.input \in Sources \cup {NoHeader} => Link({}, t)
         /\ \A a : /\ t.input \in Sources \cup {NoHeader, a.output}
                   /\ a.output = t.output => t.output = NoHeader
                   => Link({a}, t)
         /\ \A a, b : /\ t.input \in Sources \cup {NoHeader, a.output, b.output}
                      /\ a.output = t.output => t.output = NoHeader
                      /\ b.output = t.output => t.output = NoHeader
                      => Link({a, b}, t)
<1>1. {u.output : u \in {}} = {} OBVIOUS
<1>2. \A a : {u.output : u \in {a}} = {a.output} OBVIOUS
<1>3. \A a, b : {u.output : u \in {a, b}} = {a.output, b.output} OBVIOUS
<1>4. t.input \in Sources \cup {NoHeader} => Link({}, t) BY <1>1 DEF Link
<1>5. ASSUME NEW a, t.input \in Sources \cup {NoHeader, a.output}, a.output = t.output => t.output = NoHeader
      PROVE  Link({a}, t)
  BY <1>2, <1>5 DEF Link
<1>6. ASSUME NEW a, NEW b, t.input \in Sources \cup {NoHeader, a.output, b.output},
             a.output = t.output => t.output = NoHeader, b.output = t.output => t.output = NoHeader
      PROVE  Link({a, b}, t)
  BY <1>3, <1>6 DEF Link
<1> QED BY <1>4, <1>5, <1>6

\* The tables of a study chain, whichever of them a record gets,
LEMMA StudyChained ==
  ASSUME source \in DOMAIN Lists
  PROVE  Chained(StudyTables)
<1> DEFINE Sampling == Table("Geographic Region", "Selected Location", TRUE)
           Acquired == Table("Selected Location", NoHeader, TRUE)
           Alone == Table(NoHeader, NoHeader, TRUE)
           Sampled == Table("Geographic Region", "Selected Location(s)", TRUE)
           Collected == Table("Research Subject", "", TRUE)
<1>1. /\ Sampling.input = "Geographic Region" /\ Sampling.output = "Selected Location" /\ Sampling.values = TRUE
      /\ Acquired.input = "Selected Location" /\ Acquired.output = NoHeader /\ Acquired.values = TRUE
      /\ Alone.input = NoHeader /\ Alone.output = NoHeader /\ Alone.values = TRUE
      /\ Sampled.input = "Geographic Region" /\ Sampled.output = "Selected Location(s)" /\ Sampled.values = TRUE
      /\ Collected.input = "Research Subject" /\ Collected.output = "" /\ Collected.values = TRUE
  BY DEF Table
<1>2. /\ InspireSpatial = <<>> \/ InspireSpatial = <<Sampling>>
      /\ InspireProcessing = <<>> \/ InspireProcessing = <<Alone>>
      /\ RegalSpatial = <<>> \/ RegalSpatial = <<Sampled>>
      /\ RegalCollection = <<>> \/ RegalCollection = <<Collected>>
      /\ SchemaOrgCollection = <<>> \/ SchemaOrgCollection = <<Collected>>
      /\ RegalProcessing = <<Alone>> /\ SchemaOrgProcessing = <<Alone>> /\ CkanextProcessing = <<Alone>>
      /\ ModsKeywords = <<>> \/ ModsKeywords = <<Collected>>
      /\ PhenoroamKeywords = <<>> \/ PhenoroamKeywords = <<Collected>>
  BY DEF InspireSpatial, InspireProcessing, RegalSpatial, RegalCollection, SchemaOrgCollection, RegalProcessing,
         SchemaOrgProcessing, CkanextProcessing, ModsKeywords, PhenoroamKeywords, If
<1>3. \/ InspireAcquisition = <<>>
      \/ InspireSpatial = <<>> /\ InspireAcquisition = <<Alone>>
      \/ InspireSpatial # <<>> /\ InspireAcquisition = <<Acquired>>
  BY DEF InspireAcquisition, If
<1> HIDE DEF Sampling, Acquired, Alone, Sampled, Collected
<1>4. /\ "Geographic Region" \in Sources /\ "Research Subject" \in Sources
      /\ NoHeader \notin {"", "Selected Location", "Selected Location(s)"}
      /\ "" \notin {"Selected Location", "Selected Location(s)"}
  BY DEF Sources, NoHeader
<1>5. Link({}, Sampling) /\ Link({}, Sampled) /\ Link({}, Collected) /\ Link({}, Alone) BY <1>1, <1>4, Behind
<1>6. Link({Sampling}, Acquired) /\ Link({Sampled}, Collected) /\ \A t : Link({t}, Alone)
  BY <1>1, <1>4, Behind
<1>7. \A t, u : Link({t, u}, Alone) BY <1>1, <1>4, Behind
<1>8. \A t : Link({}, t) => Chained(<<>>) /\ Chained(<<t>>) BY Chains3
<1>9. CASE source = "inspire"
  <2>1. StudyTables = InspireSpatial \o InspireAcquisition \o InspireProcessing BY <1>9 DEF StudyTables
  <2>2. CASE InspireSpatial = <<>>
    <3>1. InspireAcquisition \in {<<>>, <<Alone>>} BY <1>3, <2>2
    <3> QED BY <1>2, <1>5, <1>6, <1>7, <2>1, <2>2, <3>1, PartsChain
  <2>3. CASE InspireSpatial # <<>>
    <3>1. InspireAcquisition \in {<<>>, <<Acquired>>} BY <1>3, <2>3
    <3>2. InspireSpatial \in {<<>>, <<Sampling>>} /\ InspireProcessing \in {<<>>, <<Alone>>} BY <1>2
    <3>3. Chained(InspireSpatial \o InspireAcquisition \o InspireProcessing)
      BY <1>5, <1>6, <1>7, <2>3, <3>1, <3>2, PartsChain
    <3> QED BY <2>1, <3>3
  <2> QED BY <2>2, <2>3
<1>10. CASE source = "regal"
  <2>1. StudyTables = RegalSpatial \o RegalCollection \o RegalProcessing BY <1>10 DEF StudyTables
  <2>2. /\ RegalSpatial \in {<<>>, <<Sampled>>} /\ RegalCollection \in {<<>>, <<Collected>>}
        /\ RegalProcessing \in {<<>>, <<Alone>>}
    BY <1>2
  <2>3. Chained(RegalSpatial \o RegalCollection \o RegalProcessing) BY <1>5, <1>6, <1>7, <2>2, PartsChain
  <2> QED BY <2>1, <2>3
<1>11. CASE source = "schema_org"
  <2>1. StudyTables = SchemaOrgCollection \o <<Alone>> BY <1>2, <1>11 DEF StudyTables
  <2>2. StudyTables = <<Alone>> \/ StudyTables = <<Collected, Alone>> BY <1>2, <2>1, Concats
  <2> QED BY <1>5, <1>6, <2>2, Chains3
<1>12. CASE source \in {"mods", "phenoroam"}
  <2>1. StudyTables = <<>> \/ StudyTables = <<Collected>> BY <1>2, <1>12 DEF StudyTables
  <2> QED BY <1>5, <1>8, <2>1
<1>13. CASE source = "ckanext"
  <2>1. StudyTables = <<Alone>> BY <1>2, <1>13 DEF StudyTables
  <2> QED BY <1>5, <1>8, <2>1
<1> QED BY <1>9, <1>10, <1>11, <1>12, <1>13 DEF Lists

\* and so does the one of an assay.
LEMMA AssayChained == Chained(AssayTables)
<1>1. ASSUME NEW t, t.values \/ t.output # NoHeader, t.input \in Sources \cup {NoHeader}
      PROVE  Chained(<<t>>) /\ Chained(<<>>)
  BY <1>1, Behind, Chains3
<1>2. CASE source = "inspire"
  <2> DEFINE addressed == "uri" \in facts \/ (list = "online" /\ With("first") # <<>>)
             filled == list = "online" /\ Columns.first # <<>>
             t == Table(NoHeader, IF addressed THEN "URI" ELSE NoHeader, filled)
  <2>0. /\ t.input = NoHeader /\ t.values = filled /\ t.output = IF addressed THEN "URI" ELSE NoHeader
    BY TableIs
  <2>1. AssayTables = IF addressed \/ t.values THEN <<t>> ELSE <<>> BY <1>2 DEF AssayTables, InspireMeasurement, If
  <2> HIDE DEF t, filled, addressed
  <2>2. addressed => t.output # NoHeader BY <2>0 DEF NoHeader
  <2>3. t.input \in Sources \cup {NoHeader} BY <2>0
  <2>4. CASE addressed \/ t.values BY <1>1, <2>1, <2>2, <2>3, <2>4
  <2>5. CASE ~(addressed \/ t.values) BY <2>1, <2>5, Chains3
  <2> QED BY <2>4, <2>5
<1>3. CASE source = "ckanext"
  <2> DEFINE t == Table(NoHeader, IF Columns.first # <<>> THEN "URI" ELSE NoHeader, TRUE)
  <2>1. t.input = NoHeader /\ t.values = TRUE BY DEF Table
  <2>2. AssayTables = <<>> \/ AssayTables = <<t>> BY <1>3 DEF AssayTables, CkanextMeasurement, If
  <2> HIDE DEF t
  <2> QED BY <1>1, <2>1, <2>2
<1>4. CASE source \notin {"inspire", "ckanext"}
  <2> DEFINE t == Table("Dataset Source", "URI", TRUE)
  <2>1. t.input = "Dataset Source" /\ t.values = TRUE BY DEF Table
  <2>2. AssayTables = <<t>> BY <1>4 DEF AssayTables, Measurement
  <2>3. "Dataset Source" \in Sources BY DEF Sources
  <2> HIDE DEF t
  <2> QED BY <1>1, <2>1, <2>2, <2>3
<1> QED BY <1>2, <1>3, <1>4

LEMMA TablesHold == TablesInv => TablesSound
<1> SUFFICES ASSUME TablesInv PROVE TablesSound OBVIOUS
<1>1. Chained(<<>>) BY Chains3
<1>2. CASE columns = NoColumns /\ study = <<>> /\ assay = <<>>
  <2>1. Paired BY <1>2 DEF Paired, NoColumns
  <2> QED BY <1>1, <1>2, <2>1 DEF TablesSound
<1>3. CASE source \in DOMAIN Lists /\ Mapped
  <2>1. Paired BY <1>3, PairedHolds DEF TablesInv, Mapped
  <2> QED BY <1>3, <2>1, StudyChained, AssayChained DEF TablesSound, Mapped
<1> QED BY <1>2, <1>3 DEF TablesInv, NoTables

-----------------------------------------------------------------------------
(* Reading a graph.  A reading lists the same objects in another order; the *)
(* keys the accessors sort by leave apart only what they show alike.        *)
Literal == {Lit(l) : l \in Literals}
Resource == {Iri(i) : i \in Iris}
Node == {Bnode(b, c, asList, d) : b \in {1, 2}, c \in Chains, asList \in BOOLEAN, d \in DoiSets}
Objects == Literal \cup Resource \cup Node

LEMMA LiteralIs == ASSUME NEW o \in Literal PROVE o.is = "lit" /\ o.text \in Nat
BY GraphAssumption DEF Literal, Lit

LEMMA ResourceIs == ASSUME NEW o \in Resource PROVE o.is = "iri" /\ o.text \in Nat \ {0}
BY GraphAssumption DEF Resource, Iri

LEMMA NodeIs ==
  ASSUME NEW o \in Node
  PROVE  o.is = "bnode" /\ o.chain \in Chains /\ o.chain \in Seq(Nat) /\ o.chain # <<>> /\ o.dois \in DoiSets
BY GraphAssumption DEF Node, Bnode

LEMMA ObjectIs ==
  ASSUME NEW o \in Objects
  PROVE  /\ o.is = "lit" => o \in Literal
         /\ o.is = "iri" => o \in Resource
         /\ o.is = "bnode" => o \in Node
         /\ o.is \in {"lit", "iri", "bnode"}
BY LiteralIs, ResourceIs, NodeIs DEF Objects

LEMMA TextIs == ASSUME NEW o \in Objects PROVE TextOf(o) \in Nat
<1>1. CASE o \in Literal BY <1>1, LiteralIs DEF TextOf
<1>2. CASE o \in Resource BY <1>2, ResourceIs DEF TextOf
<1>3. CASE o \in Node
  <2>1. o.is = "bnode" /\ o.chain \in Seq(Nat) /\ o.chain # <<>> BY <1>3, NodeIs
  <2>2. o.chain[1] \in Nat BY <2>1
  <2> QED BY <2>1, <2>2 DEF TextOf
<1> QED BY <1>1, <1>2, <1>3 DEF Objects

-----------------------------------------------------------------------------
\* Lists of numbers by their first difference: of two, one is smaller,
LEMMA SmallerTotal ==
  ASSUME NEW s \in Seq(Nat), NEW t \in Seq(Nat), ~Smaller(s, t), ~Smaller(t, s)
  PROVE  s = t
<1>1. PICK m \in Nat, n \in Nat : Len(s) = m /\ DOMAIN s = 1..m /\ Len(t) = n /\ DOMAIN t = 1..n OBVIOUS
<1> DEFINE D == {k \in Nat \ {0} : (k <= m \/ k <= n) /\ ~(k <= m /\ k <= n /\ s[k] = t[k])}
<1>2. CASE D = {}
  <2>1. m = n
    <3>1. CASE m < n
      <4>1. n \in D BY <1>1, <3>1
      <4> QED BY <1>2, <4>1
    <3>2. CASE n < m
      <4>1. m \in D BY <1>1, <3>2
      <4> QED BY <1>2, <4>1
    <3> QED BY <1>1, <3>1, <3>2
  <2>2. ASSUME NEW i \in 1..m PROVE s[i] = t[i]
    <3>1. i \notin D BY <1>2
    <3> QED BY <1>1, <2>1, <3>1
  <2> QED BY <1>1, <2>1, <2>2, SeqEqual
<1>3. CASE D # {}
  <2>1. D \in SUBSET Nat OBVIOUS
  <2>2. PICK k \in D : \A j \in D : k <= j
    <3> HIDE DEF D
    <3> QED BY <1>3, <2>1, LeastNumber
  <2>3. \A j \in 1..k-1 : j <= m /\ j <= n /\ s[j] = t[j]
    <3>1. ASSUME NEW j \in 1..k-1 PROVE j <= m /\ j <= n /\ s[j] = t[j]
      <4>1. j \in Nat \ {0} /\ j < k BY <1>1
      <4>2. j \notin D BY <2>2, <4>1
      <4> QED BY <1>1, <4>1, <4>2
    <3> QED BY <3>1
  <2>4. k \in Nat \ {0} /\ (k <= m \/ k <= n) /\ ~(k <= m /\ k <= n /\ s[k] = t[k]) OBVIOUS
  <2>5. CASE k <= m /\ k <= n
    <3>1. s[k] \in Nat /\ t[k] \in Nat /\ s[k] # t[k] BY <1>1, <2>4, <2>5
    <3>2. s[k] < t[k] \/ t[k] < s[k] BY <3>1
    <3>3. k \in DOMAIN s /\ k \in DOMAIN t BY <1>1, <2>4, <2>5
    <3>4. s[k] < t[k] => Smaller(s, t) BY <1>1, <2>3, <3>3 DEF Smaller
    <3>5. t[k] < s[k] => Smaller(t, s) BY <1>1, <2>3, <3>3 DEF Smaller
    <3> QED BY <3>2, <3>4, <3>5
  <2>6. CASE k > m
    <3>1. k \in DOMAIN t BY <1>1, <2>4, <2>6
    <3> QED BY <1>1, <2>3, <2>6, <3>1 DEF Smaller
  <2>7. CASE k > n
    <3>1. k \in DOMAIN s BY <1>1, <2>4, <2>7
    <3> QED BY <1>1, <2>3, <2>7, <3>1 DEF Smaller
  <2> QED BY <1>1, <2>4, <2>5, <2>6, <2>7
<1> QED BY <1>2, <1>3

\* and not the other,
LEMMA SmallerOneWay ==
  ASSUME NEW s \in Seq(Nat), NEW t \in Seq(Nat), Smaller(s, t)
  PROVE  ~Smaller(t, s)
<1> SUFFICES ASSUME Smaller(t, s) PROVE FALSE OBVIOUS
<1>1. /\ DOMAIN s = 1..Len(s) /\ Len(s) \in Nat /\ DOMAIN t = 1..Len(t) /\ Len(t) \in Nat
      /\ \A i \in 1..Len(s) : s[i] \in Nat
      /\ \A i \in 1..Len(t) : t[i] \in Nat
  OBVIOUS
<1>2. PICK k \in DOMAIN t : (\A j \in 1..(k - 1) : j <= Len(s) /\ s[j] = t[j]) /\ (k > Len(s) \/ s[k] < t[k])
  BY DEF Smaller
<1>3. PICK m \in DOMAIN s : (\A j \in 1..(m - 1) : j <= Len(t) /\ t[j] = s[j]) /\ (m > Len(t) \/ t[m] < s[m])
  BY DEF Smaller
<1>4. k \in 1..Len(t) /\ m \in 1..Len(s) BY <1>1
<1>5. CASE k < m
  <2>1. k \in 1..(m - 1) /\ k \in 1..Len(s) BY <1>1, <1>4, <1>5
  <2>2. t[k] = s[k] /\ s[k] < t[k] BY <1>1, <1>2, <1>3, <2>1
  <2> QED BY <1>1, <2>1, <2>2
<1>6. CASE m < k
  <2>1. m \in 1..(k - 1) /\ m \in 1..Len(t) BY <1>1, <1>4, <1>6
  <2>2. s[m] = t[m] /\ t[m] < s[m] BY <1>1, <1>2, <1>3, <2>1
  <2> QED BY <1>1, <2>1, <2>2
<1>7. CASE k = m
  <2>1. k \in 1..Len(s) /\ k \in 1..Len(t) BY <1>4, <1>7
  <2>2. s[k] < t[k] /\ t[k] < s[k] BY <1>1, <1>2, <1>3, <1>7, <2>1
  <2> QED BY <1>1, <2>1, <2>2
<1> QED BY <1>1, <1>4, <1>5, <1>6, <1>7

\* and so is what is smaller than the smaller.
LEMMA SmallerThrough ==
  ASSUME NEW s \in Seq(Nat), NEW t \in Seq(Nat), NEW u \in Seq(Nat), Smaller(s, t), Smaller(t, u)
  PROVE  Smaller(s, u)
<1>1. /\ DOMAIN s = 1..Len(s) /\ Len(s) \in Nat /\ DOMAIN t = 1..Len(t) /\ Len(t) \in Nat
      /\ DOMAIN u = 1..Len(u) /\ Len(u) \in Nat
      /\ \A i \in 1..Len(s) : s[i] \in Nat
      /\ \A i \in 1..Len(t) : t[i] \in Nat
      /\ \A i \in 1..Len(u) : u[i] \in Nat
  OBVIOUS
<1>2. PICK k \in DOMAIN t : (\A j \in 1..(k - 1) : j <= Len(s) /\ s[j] = t[j]) /\ (k > Len(s) \/ s[k] < t[k])
  BY DEF Smaller
<1>3. PICK m \in DOMAIN u : (\A j \in 1..(m - 1) : j <= Len(t) /\ t[j] = u[j]) /\ (m > Len(t) \/ t[m] < u[m])
  BY DEF Smaller
<1>4. k \in 1..Len(t) /\ m \in 1..Len(u) BY <1>1
<1>5. CASE k < m
  <2>1. k \in 1..(m - 1) /\ k \in DOMAIN u BY <1>1, <1>4, <1>5
  <2>2. t[k] = u[k] BY <1>3, <2>1
  <2>3. \A j \in 1..(k - 1) : j \in 1..(m - 1) BY <1>4, <1>5
  <2>4. \A j \in 1..(k - 1) : j <= Len(s) /\ s[j] = u[j] BY <1>2, <1>3, <2>3
  <2> QED BY <1>2, <2>1, <2>2, <2>4 DEF Smaller
<1>6. CASE m < k
  <2>1. m \in 1..(k - 1) /\ m \in 1..Len(t) BY <1>1, <1>4, <1>6
  <2>2. m <= Len(s) /\ s[m] = t[m] /\ t[m] < u[m] BY <1>1, <1>2, <1>3, <2>1
  <2>3. \A j \in 1..(m - 1) : j \in 1..(k - 1) BY <1>4, <1>6
  <2>4. \A j \in 1..(m - 1) : j <= Len(s) /\ s[j] = u[j] BY <1>2, <1>3, <2>3
  <2> QED BY <2>2, <2>4 DEF Smaller
<1>7. CASE k = m
  <2>1. t[k] < u[k] /\ t[k] \in Nat /\ u[k] \in Nat BY <1>1, <1>3, <1>4, <1>7
  <2>2. k > Len(s) \/ s[k] < u[k]
    <3>1. CASE k <= Len(s)
      <4>1. s[k] \in Nat /\ s[k] < t[k] BY <1>1, <1>2, <1>4, <3>1
      <4> QED BY <2>1, <4>1
    <3> QED BY <1>1, <1>4, <3>1
  <2>3. \A j \in 1..(k - 1) : j <= Len(s) /\ s[j] = u[j] BY <1>2, <1>3, <1>7
  <2> QED BY <1>7, <2>2, <2>3 DEF Smaller
<1> QED BY <1>1, <1>4, <1>5, <1>6, <1>7

\* Of three, the one between is on one of the two sides.
LEMMA SmallerSplits ==
  ASSUME NEW s \in Seq(Nat), NEW t \in Seq(Nat), NEW u \in Seq(Nat), Smaller(s, u)
  PROVE  Smaller(s, t) \/ Smaller(t, u)
<1>1. CASE s = t BY <1>1
<1>2. CASE Smaller(t, s) BY <1>2, SmallerThrough
<1> QED BY <1>1, <1>2, SmallerTotal

-----------------------------------------------------------------------------
\* Literals: their languages and texts.
LEMMA RankIs == \A lang : Rank(lang) \in Nat
BY DEF Rank

LEMMA LiteralsOrdered ==
  ASSUME NEW os, NEW T, T \subseteq Literal, T \subseteq Range(os)
  PROVE  /\ WeakOrder(T, Ranking(os))
         /\ \A o, p \in T : <<o, p>> \notin Ranking(os) /\ <<p, o>> \notin Ranking(os) => o.text = p.text
<1>1. \A o \in T : o.text \in Nat /\ o.is = "lit" BY LiteralIs
<1>2. \A o, p \in T : <<o, p>> \in Ranking(os) <=> Better(o, p) BY <1>1 DEF Ranking
<1>3. \A o, p \in T : Better(o, p) <=>
         Rank(o.lang) < Rank(p.lang) \/ (Rank(o.lang) = Rank(p.lang) /\ o.text > p.text)
  BY DEF Better
<1>4. \A o, p \in T : Better(o, p) => ~Better(p, o) BY <1>1, <1>3, RankIs
<1>5. \A o, p, q \in T : Better(o, q) => Better(o, p) \/ Better(p, q)
  <2>1. ASSUME NEW o \in T, NEW p \in T, NEW q \in T, Better(o, q) PROVE Better(o, p) \/ Better(p, q)
    <3>1. Rank(o.lang) \in Nat /\ Rank(p.lang) \in Nat /\ Rank(q.lang) \in Nat BY RankIs
    <3>2. o.text \in Nat /\ p.text \in Nat /\ q.text \in Nat BY <1>1
    <3> QED BY <1>3, <2>1, <3>1, <3>2
  <2> QED BY <2>1
<1>6. \A o, p \in T : ~Better(o, p) /\ ~Better(p, o) => o.text = p.text BY <1>1, <1>3, RankIs
<1>7. WeakOrder(T, Ranking(os)) BY <1>2, <1>4, <1>5 DEF WeakOrder
<1> QED BY <1>2, <1>6, <1>7

-----------------------------------------------------------------------------
\* Resources: IRIs by name, nodes by what is below them.
LEMMA SignatureIs ==
  ASSUME NEW o \in Node
  PROVE  /\ Signature(o) \in Seq(Nat) /\ Signature(o) # <<>> /\ Signature(o)[1] = o.chain[1]
         /\ Len(o.chain) > 1 <=> Len(Signature(o)) > 1
         /\ Len(o.chain) > 1 => Signature(o)[2] = o.chain[2]
<1> DEFINE c == o.chain
<1>1. c \in Seq(Nat) /\ c # <<>> /\ Len(c) \in Nat /\ Len(c) >= 1 BY NodeIs
<1> HIDE DEF c
<1>2. CASE Len(c) <= BnodeDepth + 1 BY <1>1, <1>2 DEF Signature, c
<1>3. CASE ~(Len(c) <= BnodeDepth + 1)
  <2>1. Len(c) > 3 BY <1>1, <1>3 DEF BnodeDepth
  <2>2. PICK s \in Seq(Nat) : s = SubSeq(c, 1, 3) /\ Len(s) = 3 /\ s[1] = c[1] /\ s[2] = c[2]
    <3>1. /\ SubSeq(c, 1, 3) \in Seq(Nat) /\ Len(SubSeq(c, 1, 3)) = 3
          /\ SubSeq(c, 1, 3)[1] = c[1] /\ SubSeq(c, 1, 3)[2] = c[2]
      BY <1>1, <2>1
    <3> QED BY <3>1
  <2>3. BnodeDepth + 1 = 3 BY DEF BnodeDepth
  <2>4. Signature(o) = Append(s, 0)
    <3>1. Signature(o) = Append(SubSeq(c, 1, BnodeDepth + 1), 0) BY <1>3 DEF Signature, c
    <3> QED BY <2>2, <2>3, <3>1
  <2>5. /\ Append(s, 0) \in Seq(Nat) /\ Len(Append(s, 0)) = 4
        /\ Append(s, 0)[1] = s[1] /\ Append(s, 0)[2] = s[2]
    <3>1. 0 \in Nat /\ 1 \in 1..Len(s) /\ 2 \in 1..Len(s) BY <2>2
    <3> QED BY <2>2, <3>1, AppendProperties
  <2>6. Signature(o) # <<>> /\ Len(Signature(o)) > 1 BY <2>4, <2>5
  <2> QED BY <1>1, <1>3, <2>1, <2>2, <2>4, <2>5, <2>6 DEF c
<1> QED BY <1>2, <1>3

\* What their keys do not tell apart.
Alike(o, p) == \/ o \in Resource /\ p \in Resource /\ o.text = p.text
               \/ o \in Node /\ p \in Node /\ Signature(o) = Signature(p)

LEMMA ResourcesOrdered ==
  ASSUME NEW os, NEW T, T \subseteq Resource \cup Node, T \subseteq Range(os)
  PROVE  /\ WeakOrder(T, Keyed(os))
         /\ \A o, p \in T : <<o, p>> \notin Keyed(os) /\ <<p, o>> \notin Keyed(os) => Alike(o, p)
<1>1. \A o \in Resource : o.is = "iri" /\ o.text \in Nat BY ResourceIs
<1>2. \A o \in Node : o.is = "bnode" /\ Signature(o) \in Seq(Nat) BY NodeIs, SignatureIs
<1>3. \A o, p \in T : <<o, p>> \in Keyed(os) <=> KeyBefore(o, p) BY <1>1, <1>2 DEF Keyed
<1>4. /\ \A o, p \in Resource : KeyBefore(o, p) <=> o.text < p.text
      /\ \A o \in Resource, p \in Node : KeyBefore(o, p) /\ ~KeyBefore(p, o)
      /\ \A o, p \in Node : KeyBefore(o, p) <=> Smaller(Signature(o), Signature(p))
  BY <1>1, <1>2 DEF KeyBefore
<1>5. ASSUME NEW o \in T, NEW p \in T, KeyBefore(o, p) PROVE ~KeyBefore(p, o)
  <2>1. CASE o \in Resource /\ p \in Resource BY <1>1, <1>4, <1>5, <2>1
  <2>2. CASE o \in Node /\ p \in Node BY <1>2, <1>4, <1>5, <2>2, SmallerOneWay
  <2> QED BY <1>4, <1>5, <2>1, <2>2
<1>6. ASSUME NEW o \in T, NEW p \in T, NEW q \in T, KeyBefore(o, q) PROVE KeyBefore(o, p) \/ KeyBefore(p, q)
  <2>1. CASE o \in Resource /\ p \in Resource /\ q \in Resource BY <1>1, <1>4, <1>6, <2>1
  <2>2. CASE o \in Node /\ p \in Node /\ q \in Node BY <1>2, <1>4, <1>6, <2>2, SmallerSplits
  <2>3. CASE o \in Resource /\ p \in Node BY <1>4, <2>3
  <2>4. CASE p \in Resource /\ q \in Node BY <1>4, <2>4
  <2>5. CASE o \in Node /\ q \in Resource BY <1>4, <1>6, <2>5
  <2> QED BY <2>1, <2>2, <2>3, <2>4, <2>5
<1>7. ASSUME NEW o \in T, NEW p \in T, ~KeyBefore(o, p), ~KeyBefore(p, o) PROVE Alike(o, p)
  <2>1. CASE o \in Resource /\ p \in Resource BY <1>1, <1>4, <1>7, <2>1 DEF Alike
  <2>2. CASE o \in Node /\ p \in Node BY <1>2, <1>4, <1>7, <2>2, SmallerTotal DEF Alike
  <2> QED BY <1>4, <1>7, <2>1, <2>2
<1>8. WeakOrder(T, Keyed(os)) BY <1>3, <1>5, <1>6 DEF WeakOrder
<1> QED BY <1>3, <1>7, <1>8

LEMMA AlikeShown ==
  ASSUME NEW o, NEW p, Alike(o, p)
  PROVE  TextOf(o) = TextOf(p) /\ Shown(o) = Shown(p)
<1>1. CASE o \in Resource /\ p \in Resource /\ o.text = p.text
  BY <1>1, ResourceIs DEF TextOf, Shown
<1>2. CASE o \in Node /\ p \in Node /\ Signature(o) = Signature(p)
  <2>1. o.is = "bnode" /\ p.is = "bnode" BY <1>2, NodeIs
  <2>2. /\ o.chain[1] = p.chain[1] /\ (Len(o.chain) > 1 <=> Len(p.chain) > 1)
        /\ Len(o.chain) > 1 => o.chain[2] = p.chain[2]
    BY <1>2, SignatureIs
  <2>3. TextOf(o) = TextOf(p) BY <2>1, <2>2 DEF TextOf
  <2>4. \A c \in Seq(Nat) : Len(c) > 1 => SubSeq(c, 1, 2) = <<c[1], c[2]>>
    <3>1. ASSUME NEW c \in Seq(Nat), Len(c) > 1 PROVE SubSeq(c, 1, 2) = <<c[1], c[2]>>
      <4>1. SubSeq(c, 1, 2) \in Seq(Nat) /\ Len(SubSeq(c, 1, 2)) = 2 /\ \A i \in 1..2 : SubSeq(c, 1, 2)[i] = c[i]
        BY <3>1
      <4>2. c[1] \in Nat /\ c[2] \in Nat BY <3>1
      <4> DEFINE r == SubSeq(c, 1, 2)
                 t == <<c[1], c[2]>>
      <4>3. t \in Seq(Nat) /\ Len(t) = 2 /\ t[1] = c[1] /\ t[2] = c[2] BY <4>2
      <4>4. r \in Seq(Nat) /\ Len(r) = 2 /\ r[1] = c[1] /\ r[2] = c[2] BY <4>1
      <4> HIDE DEF r, t
      <4>5. \A i \in 1..Len(r) : r[i] = t[i] BY <4>3, <4>4
      <4>6. r = t BY <4>3, <4>4, <4>5, SeqEqual
      <4> QED BY <4>6 DEF r, t
    <3> QED BY <3>1
  <2>5. o.chain \in Seq(Nat) /\ p.chain \in Seq(Nat) BY <1>2, NodeIs
  <2> QED BY <2>1, <2>2, <2>3, <2>4, <2>5 DEF Shown
<1> QED BY <1>1, <1>2 DEF Alike

\* Labels, each with its IRI.
LEMMA LabelsOrdered ==
  ASSUME NEW os, NEW T, T \subseteq Objects, T \subseteq Range(os)
  PROVE  /\ WeakOrder(T, Lettered(os))
         /\ \A o, p \in T : <<o, p>> \notin Lettered(os) /\ <<p, o>> \notin Lettered(os) => Label(o) = Label(p)
<1>1. \A o \in T : Label(o) \in Seq(Nat)
  <2>1. ASSUME NEW o \in T PROVE Label(o) \in Seq(Nat)
    <3>1. TextOf(o) \in Nat BY TextIs
    <3>2. o.is = "iri" => o.text \in Nat BY ObjectIs, ResourceIs
    <3> QED BY <3>1, <3>2 DEF Label
  <2> QED BY <2>1
<1>2. \A o, p \in T : <<o, p>> \in Lettered(os) <=> Smaller(Label(o), Label(p)) BY DEF Lettered
<1> HIDE DEF Label
<1>3. \A o, p \in T : Smaller(Label(o), Label(p)) => ~Smaller(Label(p), Label(o)) BY <1>1, SmallerOneWay
<1>4. \A o, p, q \in T :
         Smaller(Label(o), Label(q)) => Smaller(Label(o), Label(p)) \/ Smaller(Label(p), Label(q))
  BY <1>1, SmallerSplits
<1>5. \A o, p \in T : ~Smaller(Label(o), Label(p)) /\ ~Smaller(Label(p), Label(o)) => Label(o) = Label(p)
  BY <1>1, SmallerTotal
<1>6. WeakOrder(T, Lettered(os)) BY <1>2, <1>3, <1>4 DEF WeakOrder
<1> QED BY <1>2, <1>5, <1>6

-----------------------------------------------------------------------------
\* The elements of a set, each once, in some order.
Listing(os, S) == os \in Seq(S) /\ Range(os) = S /\ \A i, j \in DOMAIN os : os[i] = os[j] => i = j

LEMMA AnyOrder ==
  ASSUME NEW S, IsFiniteSet(S), NEW os \in SetToSeqs(S)
  PROVE  Listing(os, S)
<1>1. PICK n \in Nat : n = Cardinality(S) BY FS_CardinalityType
<1>2. os \in [1..n -> S] /\ \A i, j \in 1..n : i # j => os[i] # os[j] BY <1>1 DEF SetToSeqs
<1>3. os \in Injection(1..n, S) BY <1>2 DEF Injection, IsInjective
<1>4. Cardinality(1..n) = Cardinality(S) BY <1>1, FirstNumbers
<1>5. os \in Surjection(1..n, S) BY <1>3, <1>4, FS_Injection
<1>6. Range(os) = S
  <2>1. \A x \in S : \E i \in 1..n : os[i] = x BY <1>5 DEF Surjection
  <2> QED BY <1>2, <2>1 DEF Range
<1>7. os \in Seq(S) BY <1>1, <1>2
<1> QED BY <1>2, <1>6, <1>7 DEF Listing

\* Predicate by predicate, each object once.
LEMMA AllListed ==
  ASSUME NEW A, NEW B, NEW first, NEW second, Listing(first, A), Listing(second, B)
  PROVE  Listing(AllObjects(first, second), A \cup B)
<1> DEFINE I == {i \in DOMAIN second : second[i] \notin Range(first)}
           rest == Selected(second, I)
           os == first \o rest
<1>1. /\ first \in Seq(A) /\ Range(first) = A /\ (\A i, j \in DOMAIN first : first[i] = first[j] => i = j)
      /\ second \in Seq(B) /\ Range(second) = B /\ (\A i, j \in DOMAIN second : second[i] = second[j] => i = j)
  BY DEF Listing
<1>2. IsFiniteSet(I) /\ I \in SUBSET Int /\ Cardinality(I) \in Nat BY <1>1, PositionsFinite
<1>3. PICK c \in Nat : c = Cardinality(I) BY <1>2
<1>4. AllObjects(first, second) = os BY DEF AllObjects
<1>5. PICK a : Enumerates(a, I) /\ rest = [k \in 1..Cardinality(I) |-> second[a[k]]]
  <2> HIDE DEF I
  <2> QED BY <1>2, Selection
<1> HIDE DEF rest
<1>6. /\ a \in [1..c -> I] /\ (\A i \in I : \E k \in 1..c : a[k] = i) /\ (\A k, l \in 1..c : a[k] = a[l] => k = l)
      /\ rest = [k \in 1..c |-> second[a[k]]]
  <2> HIDE DEF I
  <2> QED BY <1>3, <1>5 DEF Enumerates
<1>7. \A i \in I : i \in DOMAIN second /\ second[i] \in B /\ second[i] \notin A BY <1>1 DEF Range
<1>8. \A x \in B \ A : \E i \in I : second[i] = x BY <1>1 DEF Range
<1> HIDE DEF I
<1>9. rest \in [1..c -> B \ A]
  <2>1. \A k \in 1..c : second[a[k]] \in B \ A BY <1>6, <1>7
  <2> QED BY <1>6, <2>1
<1>10. \A k, l \in 1..c : rest[k] = rest[l] => k = l
  <2>1. ASSUME NEW k \in 1..c, NEW l \in 1..c, rest[k] = rest[l] PROVE k = l
    <3>1. a[k] \in I /\ a[l] \in I /\ second[a[k]] = second[a[l]] BY <1>6, <2>1
    <3>2. a[k] = a[l] BY <1>1, <1>7, <3>1
    <3> QED BY <1>6, <3>2
  <2> QED BY <2>1
<1>11. \A x \in B \ A : \E k \in 1..c : rest[k] = x
  <2>1. ASSUME NEW x \in B \ A PROVE \E k \in 1..c : rest[k] = x
    <3>1. PICK i \in I : second[i] = x BY <1>8
    <3>2. PICK k \in 1..c : a[k] = i BY <1>6
    <3> QED BY <1>6, <3>1, <3>2
  <2> QED BY <2>1
<1>12. PICK m \in Nat : Len(first) = m /\ DOMAIN first = 1..m BY <1>1
<1>13. rest \in Seq(A \cup B) /\ Len(rest) = c /\ first \in Seq(A \cup B)
  <2>1. rest \in [1..c -> A \cup B] BY <1>9
  <2> QED BY <1>1, <2>1
<1>14. /\ os \in Seq(A \cup B) /\ Len(os) = m + c
       /\ \A i \in 1..m + c : os[i] = IF i <= m THEN first[i] ELSE rest[i - m]
  BY <1>12, <1>13, ConcatProperties
<1> HIDE DEF os
<1>15. DOMAIN os = 1..m + c BY <1>14
<1>16. ASSUME NEW i \in 1..m + c
       PROVE  \/ i \in 1..m /\ os[i] = first[i] /\ os[i] \in A
              \/ i - m \in 1..c /\ os[i] = rest[i - m] /\ os[i] \in B \ A
  <2>1. CASE i <= m
    <3>1. i \in 1..m /\ os[i] = first[i] BY <1>14, <2>1
    <3> QED BY <1>1, <1>12, <3>1
  <2>2. CASE ~(i <= m)
    <3>1. i - m \in 1..c /\ os[i] = rest[i - m] BY <1>14, <2>2
    <3> QED BY <1>9, <3>1
  <2> QED BY <2>1, <2>2
<1>17. \A i, j \in 1..m + c : os[i] = os[j] => i = j
  <2>1. ASSUME NEW i \in 1..m + c, NEW j \in 1..m + c, os[i] = os[j] PROVE i = j
    <3>1. CASE i \in 1..m /\ j \in 1..m /\ os[i] = first[i] /\ os[j] = first[j] BY <1>1, <1>12, <2>1, <3>1
    <3>2. CASE i - m \in 1..c /\ j - m \in 1..c /\ os[i] = rest[i - m] /\ os[j] = rest[j - m]
      <4>1. i - m = j - m BY <1>10, <2>1, <3>2
      <4> QED BY <4>1
    <3> QED BY <1>16, <2>1, <3>1, <3>2
  <2> QED BY <2>1
<1>18. ASSUME NEW x \in A \cup B PROVE \E i \in 1..m + c : os[i] = x
  <2>1. CASE x \in A
    <3>1. PICK i \in 1..m : first[i] = x BY <1>1, <1>12, <2>1 DEF Range
    <3>2. i \in 1..m + c /\ os[i] = first[i] BY <1>14
    <3> QED BY <3>1, <3>2
  <2>2. CASE x \in B \ A
    <3>1. PICK k \in 1..c : rest[k] = x BY <1>11, <2>2
    <3>2. m + k \in 1..m + c /\ ~(m + k <= m) /\ (m + k) - m = k OBVIOUS
    <3>3. os[m + k] = rest[k] BY <1>14, <3>2
    <3> QED BY <3>1, <3>2, <3>3
  <2> QED BY <2>1, <2>2
<1>19. Range(os) = A \cup B BY <1>15, <1>16, <1>18 DEF Range
<1> QED BY <1>4, <1>14, <1>15, <1>17, <1>19 DEF Listing

\* Two readings sort those of the objects that are of one kind alike.
LEMMA ListedAlike ==
  ASSUME NEW S, NEW s, NEW t, Listing(s, S), Listing(t, S), NEW T \in SUBSET S, NEW less, WeakOrder(T, less),
         NEW I, I = {i \in DOMAIN s : s[i] \in T}, NEW J, J = {j \in DOMAIN t : t[j] \in T}
  PROVE  PlaceByPlace(SortedBy(s, I, less), SortedBy(t, J, less), T, less)
<1>1. /\ s \in Seq(S) /\ Range(s) = S /\ (\A i, j \in DOMAIN s : s[i] = s[j] => i = j)
      /\ t \in Seq(S) /\ Range(t) = S /\ (\A i, j \in DOMAIN t : t[i] = t[j] => i = j)
  BY DEF Listing
<1>2. IsFiniteSet(I) /\ I \in SUBSET Int /\ IsFiniteSet(J) /\ J \in SUBSET Int BY <1>1, PositionsFinite
<1>3. {s[i] : i \in I} = T
  <2>1. \A x \in T : \E i \in DOMAIN s : s[i] = x BY <1>1 DEF Range
  <2> QED BY <2>1
<1>4. {t[j] : j \in J} = T
  <2>1. \A x \in T : \E j \in DOMAIN t : t[j] = x BY <1>1 DEF Range
  <2> QED BY <2>1
<1>5. SameElements(s, I, t, J) BY <1>1, <1>3, <1>4 DEF SameElements
<1>6. WeakOrder({s[i] : i \in I}, less) BY <1>3
<1>7. PlaceByPlace(SortedBy(s, I, less), SortedBy(t, J, less), {s[i] : i \in I}, less)
  BY <1>2, <1>5, <1>6, SortedAlike
<1> QED BY <1>3, <1>7

-----------------------------------------------------------------------------
(* What the accessors answer of two readings. *)

\* The element at a position is one of the objects.
LEMMA Places ==
  ASSUME NEW S, NEW os, Listing(os, S)
  PROVE  (\A i \in DOMAIN os : os[i] \in S) /\ (\A x \in S : \E i \in DOMAIN os : os[i] = x)
         /\ IsFiniteSet(DOMAIN os) /\ DOMAIN os \in SUBSET Int
<1>1. os \in Seq(S) /\ Range(os) = S BY DEF Listing
<1>2. IsFiniteSet(DOMAIN os) /\ DOMAIN os \in SUBSET Int BY <1>1, PositionsFinite
<1> QED BY <1>1, <1>2 DEF Range

LEMMA ChosenAlike ==
  ASSUME NEW S \in SUBSET Objects, NEW s, NEW t, Listing(s, S), Listing(t, S)
  PROVE  \/ ChooseLiteral(s) = Nothing /\ ChooseLiteral(t) = Nothing
         \/ /\ ChooseLiteral(s) \in Literal /\ ChooseLiteral(t) \in Literal
            /\ ChooseLiteral(s).text = ChooseLiteral(t).text
<1> DEFINE T == {o \in S : o.is = "lit" /\ o.text # 0}
           I == {i \in DOMAIN s : s[i] \in T}
           J == {i \in DOMAIN t : t[i] \in T}
           u == SortedBy(s, I, Ranking(s))
           v == SortedBy(t, J, Ranking(s))
<1>1. I = {i \in DOMAIN s : s[i].is = "lit" /\ s[i].text # 0} BY Places
<1>2. J = {i \in DOMAIN t : t[i].is = "lit" /\ t[i].text # 0} BY Places
<1>3. Range(s) = S /\ Range(t) = S BY DEF Listing
<1>4. Ranking(t) = Ranking(s) BY <1>3 DEF Ranking
<1>5. T \in SUBSET S /\ T \subseteq Literal
  <2>1. \A o \in T : o \in Literal BY ObjectIs
  <2> QED BY <2>1
<1>6. /\ ChooseLiteral(s) = IF u = <<>> THEN Nothing ELSE Head(u)
      /\ ChooseLiteral(t) = IF v = <<>> THEN Nothing ELSE Head(v)
  <2> HIDE DEF I, J
  <2> QED BY <1>1, <1>2, <1>4 DEF ChooseLiteral
<1> HIDE DEF T
<1>7. /\ WeakOrder(T, Ranking(s))
      /\ \A o, p \in T : <<o, p>> \notin Ranking(s) /\ <<p, o>> \notin Ranking(s) => o.text = p.text
  BY <1>3, <1>5, LiteralsOrdered
<1>8. /\ \E n \in Nat : DOMAIN u = 1..n /\ DOMAIN v = 1..n
      /\ \A k \in DOMAIN u : /\ u[k] \in T /\ v[k] \in T
                             /\ <<u[k], v[k]>> \notin Ranking(s) /\ <<v[k], u[k]>> \notin Ranking(s)
  <2>1. I = {i \in DOMAIN s : s[i] \in T} /\ J = {j \in DOMAIN t : t[j] \in T} /\ T \in SUBSET S BY <1>5
  <2> HIDE DEF I, J
  <2>2. PlaceByPlace(SortedBy(s, I, Ranking(s)), SortedBy(t, J, Ranking(s)), T, Ranking(s))
    BY <1>7, <2>1, ListedAlike
  <2>3. PlaceByPlace(u, v, T, Ranking(s)) BY <2>2
  <2> HIDE DEF u, v
  <2> QED BY <2>3 DEF PlaceByPlace
<1>9. PICK n \in Nat : DOMAIN u = 1..n /\ DOMAIN v = 1..n BY <1>8
<1>10. u \in Seq(T) /\ v \in Seq(T) /\ Len(u) = n /\ Len(v) = n
  <2>1. u = [k \in DOMAIN u |-> u[k]] /\ v = [k \in DOMAIN v |-> v[k]] BY DEF SortedBy
  <2> HIDE DEF u, v
  <2>2. u \in [1..n -> T] /\ v \in [1..n -> T] BY <1>8, <1>9, <2>1
  <2> QED BY <2>2
<1> HIDE DEF u, v
<1>11. CASE n = 0
  <2>1. u = <<>> /\ v = <<>> BY <1>10, <1>11
  <2> QED BY <1>6, <2>1
<1>12. CASE n # 0
  <2>1. u # <<>> /\ v # <<>> /\ Head(u) = u[1] /\ Head(v) = v[1] /\ 1 \in DOMAIN u BY <1>9, <1>10, <1>12
  <2>2. u[1] \in T /\ v[1] \in T /\ u[1].text = v[1].text BY <1>7, <1>8, <2>1
  <2> QED BY <1>5, <1>6, <2>1, <2>2
<1> QED BY <1>11, <1>12

LEMMA ResourcesAlike ==
  ASSUME NEW S \in SUBSET Objects, NEW s, NEW t, Listing(s, S), Listing(t, S)
  PROVE  /\ \E n \in Nat : DOMAIN Resources(s) = 1..n /\ DOMAIN Resources(t) = 1..n
         /\ \A k \in DOMAIN Resources(s) : Alike(Resources(s)[k], Resources(t)[k])
<1> DEFINE T == {o \in S : o.is # "lit"}
           I == {i \in DOMAIN s : s[i] \in T}
           J == {i \in DOMAIN t : t[i] \in T}
           u == SortedBy(s, I, Keyed(s))
           v == SortedBy(t, J, Keyed(s))
<1>1. I = {i \in DOMAIN s : s[i].is # "lit"} BY Places
<1>2. J = {i \in DOMAIN t : t[i].is # "lit"} BY Places
<1>3. Range(s) = S /\ Range(t) = S BY DEF Listing
<1>4. Keyed(t) = Keyed(s) BY <1>3 DEF Keyed
<1>5. T \in SUBSET S /\ T \subseteq Resource \cup Node
  <2>1. \A o \in T : o \in Resource \cup Node BY ObjectIs
  <2> QED BY <2>1
<1>6. Resources(s) = u /\ Resources(t) = v
  <2> HIDE DEF I, J
  <2> QED BY <1>1, <1>2, <1>4 DEF Resources
<1> HIDE DEF T
<1>7. /\ WeakOrder(T, Keyed(s))
      /\ \A o, p \in T : <<o, p>> \notin Keyed(s) /\ <<p, o>> \notin Keyed(s) => Alike(o, p)
  BY <1>3, <1>5, ResourcesOrdered
<1>8. /\ \E n \in Nat : DOMAIN u = 1..n /\ DOMAIN v = 1..n
      /\ \A k \in DOMAIN u : /\ u[k] \in T /\ v[k] \in T
                             /\ <<u[k], v[k]>> \notin Keyed(s) /\ <<v[k], u[k]>> \notin Keyed(s)
  <2>1. I = {i \in DOMAIN s : s[i] \in T} /\ J = {j \in DOMAIN t : t[j] \in T} /\ T \in SUBSET S BY <1>5
  <2> HIDE DEF I, J
  <2>2. PlaceByPlace(SortedBy(s, I, Keyed(s)), SortedBy(t, J, Keyed(s)), T, Keyed(s))
    BY <1>7, <2>1, ListedAlike
  <2>3. PlaceByPlace(u, v, T, Keyed(s)) BY <2>2
  <2> HIDE DEF u, v
  <2> QED BY <2>3 DEF PlaceByPlace
<1> HIDE DEF u, v
<1> QED BY <1>6, <1>7, <1>8

\* Every sort gives a list.
LEMMA SortIs == \A s, I, less : SortedBy(s, I, less) = [k \in DOMAIN SortedBy(s, I, less) |-> SortedBy(s, I, less)[k]]
BY DEF SortedBy

LEMMA LabelledAlike ==
  ASSUME NEW S \in SUBSET Objects, NEW s, NEW t, Listing(s, S), Listing(t, S)
  PROVE  Labelled(s) = Labelled(t)
<1> DEFINE T == {o \in S : TextOf(o) # 0}
           I == {i \in DOMAIN s : s[i] \in T}
           J == {i \in DOMAIN t : t[i] \in T}
           u == SortedBy(s, I, Lettered(s))
           v == SortedBy(t, J, Lettered(s))
<1>1. I = {i \in DOMAIN s : TextOf(s[i]) # 0} BY Places
<1>2. J = {i \in DOMAIN t : TextOf(t[i]) # 0} BY Places
<1>3. Range(s) = S /\ Range(t) = S BY DEF Listing
<1>4. Lettered(t) = Lettered(s) BY <1>3 DEF Lettered
<1>5. T \in SUBSET S /\ T \subseteq Objects OBVIOUS
<1>6. Labelled(s) = [k \in DOMAIN u |-> Label(u[k])] /\ Labelled(t) = [k \in DOMAIN v |-> Label(v[k])]
  <2> HIDE DEF I, J
  <2> QED BY <1>1, <1>2, <1>4 DEF Labelled
<1> HIDE DEF T
<1>7. /\ WeakOrder(T, Lettered(s))
      /\ \A o, p \in T : <<o, p>> \notin Lettered(s) /\ <<p, o>> \notin Lettered(s) => Label(o) = Label(p)
  BY <1>3, <1>5, LabelsOrdered
<1>8. /\ \E n \in Nat : DOMAIN u = 1..n /\ DOMAIN v = 1..n
      /\ \A k \in DOMAIN u : /\ u[k] \in T /\ v[k] \in T
                             /\ <<u[k], v[k]>> \notin Lettered(s) /\ <<v[k], u[k]>> \notin Lettered(s)
  <2>1. I = {i \in DOMAIN s : s[i] \in T} /\ J = {j \in DOMAIN t : t[j] \in T} /\ T \in SUBSET S BY <1>5
  <2> HIDE DEF I, J
  <2>2. PlaceByPlace(SortedBy(s, I, Lettered(s)), SortedBy(t, J, Lettered(s)), T, Lettered(s))
    BY <1>7, <2>1, ListedAlike
  <2>3. PlaceByPlace(u, v, T, Lettered(s)) BY <2>2
  <2> HIDE DEF u, v
  <2> QED BY <2>3 DEF PlaceByPlace
<1> HIDE DEF u, v
<1>9. DOMAIN u = DOMAIN v /\ \A k \in DOMAIN u : Label(u[k]) = Label(v[k]) BY <1>7, <1>8
<1> QED BY <1>6, <1>9

\* Texts do not depend on the order they come in,
LEMMA DistinctAlike ==
  ASSUME NEW s, NEW t, Range(s) = Range(t)
  PROVE  Distinct(s) = Distinct(t)
BY DEF Distinct

LEMMA TextsAlike ==
  ASSUME NEW s, NEW t, Range(s) = Range(t)
  PROVE  Texts(s) = Texts(t)
<1> DEFINE u == [k \in DOMAIN s |-> TextOf(s[k])]
           v == [k \in DOMAIN t |-> TextOf(t[k])]
<1>1. \A k \in DOMAIN s : \E l \in DOMAIN t : t[l] = s[k] BY DEF Range
<1>2. \A l \in DOMAIN t : \E k \in DOMAIN s : t[l] = s[k] BY DEF Range
<1>3. Range(u) = Range(v) BY <1>1, <1>2 DEF Range
<1> HIDE DEF u, v
<1>4. Distinct(u) = Distinct(v) BY <1>3, DistinctAlike
<1> QED BY <1>4 DEF Texts, u, v

LEMMA LiteralTextsAlike ==
  ASSUME NEW S, NEW s, NEW t, Listing(s, S), Listing(t, S)
  PROVE  LiteralTexts(s) = LiteralTexts(t)
<1> DEFINE T == {o \in S : o.is = "lit"}
<1>1. ASSUME NEW os, Listing(os, S) PROVE Range(Selected(os, {i \in DOMAIN os : os[i].is = "lit"})) = T
  <2> DEFINE I == {i \in DOMAIN os : os[i].is = "lit"}
             c == Cardinality(I)
             u == Selected(os, I)
  <2>1. (\A i \in I : os[i] \in T) /\ \A x \in T : \E i \in I : os[i] = x BY <1>1, Places
  <2>2. IsFiniteSet(I) /\ I \in SUBSET Int
    <3>1. I \subseteq DOMAIN os OBVIOUS
    <3> HIDE DEF I
    <3> QED BY <1>1, <3>1, Places, FS_Subset
  <2> HIDE DEF I, T
  <2>3. PICK a : Enumerates(a, I) /\ u = [k \in 1..c |-> os[a[k]]] BY <2>2, Selection
  <2>4. a \in [1..c -> I] /\ \A i \in I : \E k \in 1..c : a[k] = i BY <2>3 DEF Enumerates
  <2> HIDE DEF c, u
  <2>5. DOMAIN u = 1..c /\ \A k \in 1..c : u[k] = os[a[k]] BY <2>3
  <2>6. \A k \in 1..c : u[k] \in T BY <2>1, <2>4, <2>5
  <2>7. \A x \in T : \E k \in 1..c : u[k] = x BY <2>1, <2>4, <2>5
  <2>8. Range(u) = T BY <2>5, <2>6, <2>7 DEF Range
  <2> QED BY <2>8 DEF u, I
<1> HIDE DEF T
<1>2. Range(Selected(s, {i \in DOMAIN s : s[i].is = "lit"})) = Range(Selected(t, {i \in DOMAIN t : t[i].is = "lit"}))
  BY <1>1
<1> QED BY <1>2, TextsAlike DEF LiteralTexts

\* and a title is of one text.
LEMMA TitlesAlike ==
  ASSUME NEW S \in SUBSET Objects, NEW s, NEW t, Listing(s, S), Listing(t, S)
  PROVE  TextOf(ObjectNode(s)) = TextOf(ObjectNode(t))
<1>1. CASE ChooseLiteral(s) # Nothing
  <2>1. /\ ChooseLiteral(s) \in Literal /\ ChooseLiteral(t) \in Literal
        /\ ChooseLiteral(s).text = ChooseLiteral(t).text
    BY <1>1, ChosenAlike
  <2>2. ChooseLiteral(s).is = "lit" /\ ChooseLiteral(t).is = "lit" BY <2>1, LiteralIs
  <2>3. Nothing.is = "none" BY DEF Nothing
  <2>4. ObjectNode(s) = ChooseLiteral(s) /\ ObjectNode(t) = ChooseLiteral(t) BY <2>2, <2>3 DEF ObjectNode
  <2> QED BY <2>1, <2>2, <2>4 DEF TextOf
<1>2. CASE ChooseLiteral(s) = Nothing
  <2>1. ChooseLiteral(t) = Nothing
    <3>1. \A o \in Literal : o # Nothing BY LiteralIs DEF Nothing
    <3> QED BY <1>2, <3>1, ChosenAlike
  <2>2. PICK n \in Nat : DOMAIN Resources(s) = 1..n /\ DOMAIN Resources(t) = 1..n BY ResourcesAlike
  <2>3. Resources(s) = [k \in 1..n |-> Resources(s)[k]] /\ Resources(t) = [k \in 1..n |-> Resources(t)[k]]
    BY <2>2, SortIs DEF Resources
  <2>4. CASE n = 0
    <3>1. Resources(s) = <<>> /\ Resources(t) = <<>> BY <2>3, <2>4
    <3> QED BY <1>2, <2>1, <3>1 DEF ObjectNode
  <2>5. CASE n # 0
    <3>1. Resources(s) # <<>> /\ Resources(t) # <<>> BY <2>2, <2>5
    <3>2. Head(Resources(s)) = Resources(s)[1] /\ Head(Resources(t)) = Resources(t)[1]
      <4>1. \A os : Resources(os) # <<>> => Head(Resources(os)) = Resources(os)[1] OBVIOUS
      <4> QED BY <3>1, <4>1
    <3>3. 1 \in DOMAIN Resources(s) BY <2>2, <2>5
    <3>4. Alike(Resources(s)[1], Resources(t)[1]) BY <3>3, ResourcesAlike
    <3>5. ObjectNode(s) = Resources(s)[1] /\ ObjectNode(t) = Resources(t)[1]
      BY <1>2, <2>1, <3>1, <3>2 DEF ObjectNode
    <3> QED BY <3>4, <3>5, AlikeShown
  <2> QED BY <2>4, <2>5
<1> QED BY <1>1, <1>2

\* Blank nodes that agree as deep as a signature looks agree below: lists come in one order.
ToldApart == \A o, p \in Node : Signature(o) = Signature(p) => o.chain = p.chain

LEMMA MembersAlike ==
  ASSUME ToldApart, NEW S \in SUBSET Objects, NEW s, NEW t, Listing(s, S), Listing(t, S)
  PROVE  ListMembers(s) = ListMembers(t)
<1> DEFINE T == {o \in S : o.is = "bnode" /\ o.list}
           I == {i \in DOMAIN s : s[i] \in T}
           J == {i \in DOMAIN t : t[i] \in T}
           u == SortedBy(s, I, Keyed(s))
           v == SortedBy(t, J, Keyed(s))
<1>1. I = {i \in DOMAIN s : s[i].is = "bnode" /\ s[i].list} BY Places
<1>2. J = {i \in DOMAIN t : t[i].is = "bnode" /\ t[i].list} BY Places
<1>3. Range(s) = S /\ Range(t) = S BY DEF Listing
<1>4. Keyed(t) = Keyed(s) BY <1>3 DEF Keyed
<1>5. T \in SUBSET S /\ T \subseteq Node
  <2>1. \A o \in T : o \in Node BY ObjectIs
  <2> QED BY <2>1
<1>6. /\ ListMembers(s) = FlattenSeq([k \in DOMAIN u |-> u[k].chain])
      /\ ListMembers(t) = FlattenSeq([k \in DOMAIN v |-> v[k].chain])
  <2> HIDE DEF I, J
  <2> QED BY <1>1, <1>2, <1>4 DEF ListMembers
<1> HIDE DEF T
<1>7. /\ WeakOrder(T, Keyed(s))
      /\ \A o, p \in T : <<o, p>> \notin Keyed(s) /\ <<p, o>> \notin Keyed(s) => Alike(o, p)
  BY <1>3, <1>5, ResourcesOrdered
<1>8. PlaceByPlace(u, v, T, Keyed(s))
  <2>1. I = {i \in DOMAIN s : s[i] \in T} /\ J = {j \in DOMAIN t : t[j] \in T} /\ T \in SUBSET S BY <1>5
  <2> HIDE DEF I, J
  <2>2. PlaceByPlace(SortedBy(s, I, Keyed(s)), SortedBy(t, J, Keyed(s)), T, Keyed(s))
    BY <1>7, <2>1, ListedAlike
  <2> QED BY <2>2
<1> HIDE DEF u, v
<1>9. \A o, p \in Node : Alike(o, p) => o.chain = p.chain
  <2>1. ASSUME NEW o \in Node, NEW p \in Node, Alike(o, p) PROVE o.chain = p.chain
    <3>1. Signature(o) = Signature(p) BY <2>1, NodeIs, ResourceIs DEF Alike
    <3> QED BY <3>1 DEF ToldApart
  <2> QED BY <2>1
<1>10. DOMAIN u = DOMAIN v /\ \A k \in DOMAIN u : u[k].chain = v[k].chain
  BY <1>5, <1>7, <1>8, <1>9 DEF PlaceByPlace
<1>11. [k \in DOMAIN u |-> u[k].chain] = [k \in DOMAIN v |-> v[k].chain] BY <1>10
<1> QED BY <1>6, <1>11

\* Nodes of at most one DOI: there is no first one to be.
SingleDois == \A dois \in DoiSets : \A d, e \in dois : d = e

LEMMA DoisAlike ==
  ASSUME SingleDois, NEW S \in SUBSET Objects, NEW s, NEW t, Listing(s, S), Listing(t, S),
         NEW first \in Yields, NEW other \in Yields
  PROVE  DoisOf(s, first) = DoisOf(t, other)
<1> DEFINE Doi(o) == IF o.is = "bnode" THEN first[o.dois] ELSE 0
           u == [k \in DOMAIN s |-> Doi(s[k])]
           v == [k \in DOMAIN t |-> Doi(t[k])]
<1>1. \A d \in DoiSets : first[d] = other[d] BY DEF Yields, SingleDois
<1>2. \A o \in S : o.is = "bnode" => o.dois \in DoiSets BY ObjectIs, NodeIs
<1>3. \A k \in DOMAIN t : Doi(t[k]) = IF t[k].is = "bnode" THEN other[t[k].dois] ELSE 0 BY <1>1, <1>2, Places
<1>4. DoisOf(s, first) = Distinct(u) BY DEF DoisOf
<1>5. DoisOf(t, other) = Distinct(v)
  <2>1. v = [k \in DOMAIN t |-> IF t[k].is = "bnode" THEN other[t[k].dois] ELSE 0] BY <1>3
  <2> HIDE DEF v
  <2> QED BY <2>1 DEF DoisOf
<1> HIDE DEF Doi
<1>6. Range(u) = Range(v)
  <2>1. \A k \in DOMAIN s : \E l \in DOMAIN t : t[l] = s[k] BY Places
  <2>2. \A l \in DOMAIN t : \E k \in DOMAIN s : t[l] = s[k] BY Places
  <2> QED BY <2>1, <2>2 DEF Range
<1> HIDE DEF u, v
<1> QED BY <1>4, <1>5, <1>6, DistinctAlike

\* Two answers, and what is the same in them.
SameFields(a, b) == /\ a.title = b.title /\ a.texts = b.texts /\ a.literals = b.literals
                    /\ a.resources = b.resources /\ a.labelled = b.labelled

LEMMA AnswersAlike ==
  ASSUME NEW S \in SUBSET Objects, NEW s, NEW t, Listing(s, S), Listing(t, S),
         NEW first \in Yields, NEW other \in Yields
  PROVE  /\ SameFields(Answer(s, first), Answer(t, other))
         /\ ToldApart => Answer(s, first).members = Answer(t, other).members
         /\ SingleDois => Answer(s, first).dois = Answer(t, other).dois
         /\ ToldApart /\ SingleDois => Answer(s, first) = Answer(t, other)
<1>1. TextOf(ObjectNode(s)) = TextOf(ObjectNode(t)) BY TitlesAlike
<1>2. Texts(s) = Texts(t)
  <2>1. Range(s) = Range(t) BY DEF Listing
  <2> QED BY <2>1, TextsAlike
<1>3. LiteralTexts(s) = LiteralTexts(t) BY LiteralTextsAlike
<1>4. [k \in DOMAIN Resources(s) |-> Shown(Resources(s)[k])] = [k \in DOMAIN Resources(t) |-> Shown(Resources(t)[k])]
  <2>1. DOMAIN Resources(s) = DOMAIN Resources(t) BY ResourcesAlike
  <2>2. \A k \in DOMAIN Resources(s) : Alike(Resources(s)[k], Resources(t)[k]) BY ResourcesAlike
  <2>3. \A k \in DOMAIN Resources(s) : Shown(Resources(s)[k]) = Shown(Resources(t)[k]) BY <2>2, AlikeShown
  <2> QED BY <2>1, <2>3
<1>5. Labelled(s) = Labelled(t) BY LabelledAlike
<1>6. ToldApart => ListMembers(s) = ListMembers(t) BY MembersAlike
<1>7. SingleDois => DoisOf(s, first) = DoisOf(t, other) BY DoisAlike
<1> QED BY <1>1, <1>2, <1>3, <1>4, <1>5, <1>6, <1>7 DEF Answer, SameFields

-----------------------------------------------------------------------------
\* The graph stays what it is, and each reading is of its objects in some order.
Answers == {Answer(AllObjects(http, https), first) :
              http \in SetToSeqs(graph[1]), https \in SetToSeqs(graph[2]), first \in Yields}
GraphInv == /\ graph # <<>> => /\ graph[1] \subseteq Objects /\ IsFiniteSet(graph[1])
                               /\ graph[2] \subseteq Objects /\ IsFiniteSet(graph[2])
            /\ DOMAIN answers = Readings
            /\ \A r \in Readings : answers[r] # <<>> => graph # <<>> /\ answers[r] \in Answers

SameKept == answers[1] # <<>> /\ answers[2] # <<>> => SameFields(answers[1], answers[2])

LEMMA GraphInitially == GraphInit \/ NoGraph => GraphInv
<1>1. ASSUME GraphInit PROVE GraphInv
  <2>1. PICK c \in Chains, d \in Chains, asList \in BOOLEAN, dois \in DoiSets, more \in DoiSets :
          LET nodes == {Bnode(1, c, asList, dois), Bnode(2, d, asList, more)}
              all == {Lit(l) : l \in Literals} \cup {Iri(i) : i \in Iris} \cup nodes
          IN  \E http \in Few(all), https \in Few(all) :
                /\ http # {} /\ (nodes \subseteq http \cup https \/ (c = <<1>> /\ d = <<1>> /\ ~asList))
                /\ graph = <<http, https>>
    <3>1. GraphInit BY <1>1
    <3> QED BY <3>1, Zenon DEF GraphInit
  <2> DEFINE nodes == {Bnode(1, c, asList, dois), Bnode(2, d, asList, more)}
             all == Literal \cup Resource \cup nodes
  <2>2. nodes \subseteq Node
    <3>1. \A b \in {1, 2} : Bnode(b, c, asList, dois) \in Node /\ Bnode(b, d, asList, more) \in Node BY DEF Node
    <3> QED BY <3>1
  <2>3. IsFiniteSet(Literal)
    <3> DEFINE f == [l \in Literals |-> Lit(l)]
    <3>1. f \in [Literals -> Literal] /\ \A o \in Literal : \E l \in Literals : f[l] = o BY DEF Literal
    <3> HIDE DEF f
    <3>2. f \in Surjection(Literals, Literal) BY <3>1 DEF Surjection
    <3> QED BY <3>2, GraphAssumption, FS_Surjection
  <2>4. IsFiniteSet(Resource)
    <3> DEFINE f == [i \in Iris |-> Iri(i)]
    <3>1. f \in [Iris -> Resource] /\ \A o \in Resource : \E i \in Iris : f[i] = o BY DEF Resource
    <3> HIDE DEF f
    <3>2. f \in Surjection(Iris, Resource) BY <3>1 DEF Surjection
    <3> QED BY <3>2, GraphAssumption, FS_Surjection
  <2>5. IsFiniteSet(nodes)
    <3>1. nodes = {Bnode(1, c, asList, dois)} \cup {Bnode(2, d, asList, more)} OBVIOUS
    <3>2. IsFiniteSet({Bnode(1, c, asList, dois)}) /\ IsFiniteSet({Bnode(2, d, asList, more)}) BY FS_Singleton
    <3> HIDE DEF nodes
    <3> QED BY <3>1, <3>2, FS_Union
  <2>6. PICK http \in Few(all), https \in Few(all) : graph = <<http, https>> BY <2>1 DEF Literal, Resource
  <2> HIDE DEF nodes
  <2>7. IsFiniteSet(all) BY <2>3, <2>4, <2>5, FS_Union
  <2>8. all \subseteq Objects BY <2>2 DEF Objects
  <2> HIDE DEF all
  <2>9. http \subseteq Objects /\ IsFiniteSet(http) /\ https \subseteq Objects /\ IsFiniteSet(https)
    BY <2>7, <2>8, FS_Subset DEF Few
  <2>10. DOMAIN answers = Readings /\ \A r \in Readings : answers[r] = <<>> BY <1>1 DEF GraphInit
  <2> QED BY <2>6, <2>9, <2>10 DEF GraphInv
<1>2. ASSUME NoGraph PROVE GraphInv BY <1>2 DEF NoGraph, GraphInv
<1> QED BY <1>1, <1>2

LEMMA GraphStep == GraphInv /\ [GraphNext]_gvars => GraphInv'
<1> SUFFICES ASSUME GraphInv, [GraphNext]_gvars PROVE GraphInv' OBVIOUS
<1>1. graph' = graph BY DEF GraphNext, ReadIn, gvars
<1>2. Answers' = Answers BY <1>1 DEF Answers
<1>3. CASE UNCHANGED gvars BY <1>1, <1>2, <1>3 DEF gvars, GraphInv
<1>4. ASSUME NEW r \in Readings, ReadIn(r) PROVE GraphInv'
  <2>1. PICK http \in SetToSeqs(graph[1]), https \in SetToSeqs(graph[2]), first \in Yields :
          answers' = [answers EXCEPT ![r] = Answer(AllObjects(http, https), first)]
    BY <1>4 DEF ReadIn
  <2> DEFINE a == Answer(AllObjects(http, https), first)
  <2>4. a \in Answers BY DEF Answers
  <2> HIDE DEF a
  <2>2. graph # <<>> BY <1>4 DEF ReadIn
  <2>3. answers' = [answers EXCEPT ![r] = a] BY <2>1 DEF a
  <2> QED BY <1>1, <1>2, <2>2, <2>3, <2>4 DEF GraphInv
<1> QED BY <1>3, <1>4 DEF GraphNext

LEMMA ReadingsAgree ==
  ASSUME GraphInv
  PROVE  SameKept /\ (ToldApart /\ SingleDois => OrderFree)
<1> SUFFICES ASSUME answers[1] # <<>>, answers[2] # <<>>
             PROVE  /\ SameFields(answers[1], answers[2])
                    /\ ToldApart /\ SingleDois => answers[1] = answers[2]
  BY DEF SameKept, OrderFree
<1>1. /\ graph[1] \subseteq Objects /\ IsFiniteSet(graph[1]) /\ graph[2] \subseteq Objects /\ IsFiniteSet(graph[2])
      /\ answers[1] \in Answers /\ answers[2] \in Answers
  BY DEF GraphInv, Readings
<1>2. ASSUME NEW a \in Answers
      PROVE  \E s : \E first \in Yields : Listing(s, graph[1] \cup graph[2]) /\ a = Answer(s, first)
  <2>1. PICK http \in SetToSeqs(graph[1]), https \in SetToSeqs(graph[2]), first \in Yields :
          a = Answer(AllObjects(http, https), first)
    BY <1>2 DEF Answers
  <2>2. Listing(http, graph[1]) /\ Listing(https, graph[2]) BY <1>1, AnyOrder
  <2>3. Listing(AllObjects(http, https), graph[1] \cup graph[2]) BY <2>2, AllListed
  <2> QED BY <2>1, <2>3
<1>3. PICK s : \E first \in Yields : Listing(s, graph[1] \cup graph[2]) /\ answers[1] = Answer(s, first) BY <1>1, <1>2
<1>4. PICK t : \E other \in Yields : Listing(t, graph[1] \cup graph[2]) /\ answers[2] = Answer(t, other) BY <1>1, <1>2
<1>5. graph[1] \cup graph[2] \in SUBSET Objects BY <1>1
<1> QED BY <1>3, <1>4, <1>5, AnswersAlike

-----------------------------------------------------------------------------
(* The parts together.                                                     *)

\* Contacts that are not read stay what they are.
LEMMA NoContactsStep == NoContacts /\ [ContactsNext]_cvars => NoContacts'
BY DEF NoContacts, ContactsNext, ListPerson, ListGivenless, NextField, Complete, Reading, cvars

\* Each part begins with its own beginning, or is left out,
LEMMA PartsInit ==
  ASSUME AlgorithmsInit
  PROVE  /\ ContactsInit \/ NoContacts
         /\ RecordsInit \/ NoRecords
         /\ ConfigurationInit \/ NoConfiguration
         /\ HeartbeatInit \/ NoHeartbeat
         /\ CommentsInit \/ NoComments
         /\ TablesInit \/ NoTables
         /\ GraphInit \/ NoGraph
BY DEF AlgorithmsInit, NoneBut

\* and goes on with its own steps.
LEMMA PartsNext ==
  ASSUME [AlgorithmsNext]_vars
  PROVE  /\ [ContactsNext]_cvars /\ [RecordsNext]_rvars
         /\ [ConfigurationNext]_configvars /\ [HeartbeatNext]_hvars
         /\ [CommentsNext]_mvars /\ [TablesNext]_tvars /\ [GraphNext]_gvars
<1>1. CASE UNCHANGED vars BY <1>1 DEF vars
<1>2. CASE AlgorithmsNext BY <1>2 DEF AlgorithmsNext
<1> QED BY <1>1, <1>2

(* In all runs of all parts, whatever the names, keys, entries and bounds: *)
(* the contacts are the persons listed (add_contact, _matching_contact);   *)
THEOREM ContactsCorrect == AlgorithmsSpec => []ContactsSound
<1>1. AlgorithmsInit => CInv \/ NoContacts BY PartsInit, ContactsInitially
<1>2. (CInv \/ NoContacts) /\ [AlgorithmsNext]_vars => (CInv \/ NoContacts)'
  BY PartsNext, ContactsStep, NoContactsStep
<1>3. CInv \/ NoContacts => ContactsSound
  <2>1. NoContacts => ContactsSound BY DEF NoContacts, ContactsSound, OnePersonOnce, RolesKept
  <2> QED BY <2>1 DEF CInv, ContactsSound
<1> QED BY <1>1, <1>2, <1>3, PTL DEF AlgorithmsSpec

(* identifiers keep ARCs apart and last from one harvest to the next       *)
(* (identifiers.py and the mappers' precedence);                           *)
THEOREM IdsCorrect == AlgorithmsSpec => []IdsSound
<1>1. AlgorithmsInit => RecordsInv BY PartsInit, RecordsInitially
<1>2. RecordsInv /\ [AlgorithmsNext]_vars => RecordsInv' BY PartsNext, RecordsStep
<1>3. RecordsInv => IdsSound BY KnownSound
<1> QED BY <1>1, <1>2, <1>3, PTL DEF AlgorithmsSpec

(* an accepted entry builds unless its Regal mapper finds no base URL, and *)
(* what its parser makes suits its mapper (config.py, _create_plugin);     *)
THEOREM AcceptedBuildsCorrect == AlgorithmsSpec => []AcceptedBuilds
<1>1. AlgorithmsInit => ConfigurationInv BY PartsInit, ConfigurationInitially
<1>2. ConfigurationInv /\ [AlgorithmsNext]_vars => ConfigurationInv' BY PartsNext, ConfigurationStep
<1>3. ConfigurationInv => AcceptedBuilds BY BuiltAsAccepted
<1> QED BY <1>1, <1>2, <1>3, PTL DEF AlgorithmsSpec

(* the crate has each name of a comment once, with each value the record   *)
(* gave it once and none lost, and the date of the last change as its root *)
(* property instead (arc_comments.py, harvested_arc.py);                   *)
THEOREM CommentsCorrect == AlgorithmsSpec => []CommentsKept
<1>1. AlgorithmsInit => CommentsInv BY PartsInit, CommentsInitially
<1>2. CommentsInv /\ [AlgorithmsNext]_vars => CommentsInv' BY PartsNext, CommentsStep
<1>3. CommentsInv => CommentsKept BY SerialisedKeeps
<1> QED BY <1>1, <1>2, <1>3, PTL DEF AlgorithmsSpec

(* two columns of a list pair up wherever its entries are complete, and of *)
(* the tables none is empty, none takes what no earlier one gives, and no  *)
(* two give the same samples (the mappers' tables, iso_parser's lists);    *)
THEOREM TablesCorrect == AlgorithmsSpec => []TablesSound
<1>1. AlgorithmsInit => TablesInv BY PartsInit, TablesInitially
<1>2. TablesInv /\ [AlgorithmsNext]_vars => TablesInv' BY PartsNext, TablesStep
<1>3. TablesInv => TablesSound BY TablesHold
<1> QED BY <1>1, <1>2, <1>3, PTL DEF AlgorithmsSpec

(* in whatever order a graph yields its objects, titles, texts, resources  *)
(* and labels come out the same (_all_objects, _choose_literal,            *)
(* _node_sort_key, _sorted_labelled),                                      *)
THEOREM FieldsOrderFree == AlgorithmsSpec => []SameKept
<1>1. AlgorithmsInit => GraphInv BY PartsInit, GraphInitially
<1>2. GraphInv /\ [AlgorithmsNext]_vars => GraphInv' BY PartsNext, GraphStep
<1>3. GraphInv => SameKept BY ReadingsAgree
<1> QED BY <1>1, <1>2, <1>3, PTL DEF AlgorithmsSpec

(* and so does all of a record unless blank nodes first differ below the   *)
(* levels that _STABLE_BNODE_MAX_DEPTH looks at, or a node has two DOIs:   *)
(* the order of such lists, and that DOI, are as they are read;            *)
THEOREM OrderFreeCorrect ==
  ASSUME ToldApart, SingleDois
  PROVE  AlgorithmsSpec => []OrderFree
<1>1. AlgorithmsInit => GraphInv BY PartsInit, GraphInitially
<1>2. GraphInv /\ [AlgorithmsNext]_vars => GraphInv' BY PartsNext, GraphStep
<1>3. GraphInv => OrderFree BY ReadingsAgree
<1> QED BY <1>1, <1>2, <1>3, PTL DEF AlgorithmsSpec

(* and the heartbeat's file is never too old as long as the age limit      *)
(* exceeds the longest gap (heartbeat_loop, healthcheck._check).           *)
THEOREM HealthyCorrect == AlgorithmsSpec => []HealthyUnlessBlocked
<1>1. AlgorithmsInit => HeartbeatInv BY PartsInit, HeartbeatInitially
<1>2. HeartbeatInv /\ [AlgorithmsNext]_vars => HeartbeatInv' BY PartsNext, HeartbeatStep
<1>3. HeartbeatInv => HealthyUnlessBlocked BY HeartbeatGap
<1> QED BY <1>1, <1>2, <1>3, PTL DEF AlgorithmsSpec
-----------------------------------------------------------------------------
(* FollowUps: a run that is going to create an issue has looked at all the *)
(* issues there were, and none of them can come to carry its label again.  *)

Labels == Ids \cup {Triage}
IssueStates == [id : Labels, open : BOOLEAN, labelled : BOOLEAN, saw : Nat]
RunStates == [at : {"idle", "find", "labels", "make"}, left : SUBSET Ids, id : Labels,
              want : Seq(Labels), saw : Nat]
DoneStates == {run \in RunStates : run.at \in {"idle", "find"}}

\* labels is left out: nothing depends on it.
FollowUpTypeOK ==
  /\ trailers \subseteq Ids
  /\ issues \in Seq(IssueStates)
  /\ runs \in [Runners -> RunStates]
  /\ \A r \in Runners : runs[r].at = "make" => runs[r].want # <<>>
  /\ \A r \in Runners : runs[r].saw <= Len(issues)

\* A run that is going to create an issue has seen that none of those there were when it looked
\* carries its label, which holds on: nobody reopens an issue or gives a label back.
NoneSeen ==
  \A r \in Runners : runs[r].at \in {"labels", "make"} => \A m \in Carrying(runs[r].id) : runs[r].saw < m

FollowUpInv == FollowUpTypeOK /\ NoneSeen /\ ReusedByReRuns

LEMMA IdleType == Idle \in RunStates
BY DEF Idle, Run, Labels, RunStates, DoneStates, IssueStates

\* At the start, and when the agent reviews, there are neither issues nor runs.
LEMMA FollowUpInitInv == FollowUpInit \/ NoFollowUps => FollowUpInv
<1> SUFFICES ASSUME FollowUpInit \/ NoFollowUps PROVE FollowUpInv
    OBVIOUS
<1>0. trailers \subseteq Ids /\ issues = <<>> /\ runs = [r \in Runners |-> Idle]
  BY DEF FollowUpInit, NoFollowUps
<1>1. FollowUpTypeOK
  BY <1>0, IdleType DEF FollowUpTypeOK, Idle, Run
<1>2. NoneSeen /\ ReusedByReRuns
  BY <1>0 DEF NoneSeen, ReusedByReRuns, Idle, Run
<1> QED BY <1>1, <1>2 DEF FollowUpInv

\* A step of one run that leaves the issues alone.
LEMMA RunMoves ==
  ASSUME FollowUpInv, NEW r \in Runners,
         NEW run \in RunStates,
         run.at = "make" => run.want # <<>>, run.saw <= Len(issues),
         run.at \in {"labels", "make"} => \A m \in Carrying(run.id) : run.saw < m,
         Goes(r, run), UNCHANGED <<trailers, issues>>
  PROVE  FollowUpInv'
<1> USE DEF FollowUpInv
<1>1. \A s \in Runners : runs'[s] = IF s = r THEN run ELSE runs[s]
  BY DEF Goes, FollowUpTypeOK
<1>2. runs' \in [Runners -> RunStates]
  BY DEF Goes, FollowUpTypeOK
<1>3. \A s \in Runners : /\ runs'[s].at = "make" => runs'[s].want # <<>>
                        /\ runs'[s].saw <= Len(issues')
  BY <1>1 DEF FollowUpTypeOK, Is
<1>4. FollowUpTypeOK'
  BY <1>2, <1>3 DEF FollowUpTypeOK
<1>5. ReusedByReRuns'
  BY DEF ReusedByReRuns, Carrying
<1>6. NoneSeen'
  <2> SUFFICES ASSUME NEW s \in Runners, runs'[s].at \in {"labels", "make"}, NEW m \in DOMAIN issues',
                      issues'[m].open, issues'[m].labelled, issues'[m].id = runs'[s].id
               PROVE  runs'[s].saw < m
      BY DEF NoneSeen, Carrying
  <2>1. CASE s = r
    BY <2>1, <1>1 DEF Carrying
  <2>2. CASE s # r
    BY <2>2, <1>1 DEF Carrying, NoneSeen
  <2> QED BY <2>1, <2>2
<1> QED BY <1>4, <1>5, <1>6

\* The issue a run had looked for is created; the run has it behind it.
LEMMA IssueAppears ==
  ASSUME FollowUpInv, NEW r \in Runners, runs[r].at = "labels",
         NEW run \in DoneStates,
         run.saw <= Len(issues),
         Goes(r, run), issues' = Append(issues, NewIssue(runs[r])), trailers' = trailers
  PROVE  FollowUpInv'
<1> USE DEF FollowUpInv
<1> DEFINE last == Len(issues) + 1
<1>1. \A s \in Runners : runs'[s] = IF s = r THEN run ELSE runs[s]
  BY DEF Goes, FollowUpTypeOK
<1>2. NewIssue(runs[r]) \in IssueStates
  BY DEF NewIssue, FollowUpTypeOK, RunStates, DoneStates, IssueStates
<1>3. /\ issues' \in Seq(IssueStates)
      /\ DOMAIN issues' = DOMAIN issues \cup {last} /\ last \notin DOMAIN issues
      /\ Len(issues) \in Nat /\ Len(issues') = Len(issues) + 1
      /\ issues'[last] = NewIssue(runs[r]) /\ \A m \in DOMAIN issues : issues'[m] = issues[m] /\ m < last
  BY <1>2 DEF FollowUpTypeOK
<1>4. FollowUpTypeOK'
  <2>1. runs' \in [Runners -> RunStates]
    BY DEF Goes, FollowUpTypeOK, RunStates, DoneStates, IssueStates
  <2>2. \A s \in Runners : /\ runs'[s].at = "make" => runs'[s].want # <<>>
                        /\ runs'[s].saw <= Len(issues')
    <3> TAKE s \in Runners
    <3>1. runs[s].saw \in Nat /\ runs[s].saw <= Len(issues) /\ (runs[s].at = "make" => runs[s].want # <<>>)
      BY DEF FollowUpTypeOK, RunStates
    <3>2. runs'[s] = runs[s] \/ (runs'[s] = run /\ run.saw \in Nat /\ run.at # "make")
      BY <1>1 DEF RunStates, DoneStates
    <3> QED BY <1>3, <3>1, <3>2
  <2> QED BY <2>1, <2>2, <1>3 DEF FollowUpTypeOK
<1>6. NoneSeen'
  <2> SUFFICES ASSUME NEW s \in Runners, runs'[s].at \in {"labels", "make"}, NEW m \in DOMAIN issues',
                      issues'[m].open, issues'[m].labelled, issues'[m].id = runs'[s].id
               PROVE  runs'[s].saw < m
      BY DEF NoneSeen, Carrying
  <2>1. s # r /\ runs'[s] = runs[s]
    BY <1>1 DEF RunStates, DoneStates, IssueStates
  <2>2. CASE m = last
    <3>1. runs[s].saw \in Nat
      BY DEF FollowUpTypeOK, RunStates, DoneStates, IssueStates
    <3>2. runs[s].saw <= Len(issues)
      BY DEF FollowUpTypeOK
    <3> QED BY <2>1, <2>2, <3>1, <3>2 DEF FollowUpTypeOK
  <2>3. CASE m # last
    BY <1>3, <2>1, <2>3 DEF NoneSeen, Carrying
  <2> QED BY <2>2, <2>3
<1>7. ReusedByReRuns'
  <2> SUFFICES ASSUME NEW m \in DOMAIN issues', NEW n \in DOMAIN issues', m < n,
                      issues'[m].id = issues'[n].id, 
                      issues'[m].open, issues'[m].labelled, issues'[n].open, issues'[n].labelled
               PROVE  issues'[n].saw < m
      BY DEF ReusedByReRuns, Carrying
  <2>1. m \in DOMAIN issues /\ issues'[m] = issues[m] /\ m \in Carrying(issues'[n].id)
    <3>1. m # last
      BY <1>3 DEF FollowUpTypeOK
    <3> QED BY <3>1, <1>3 DEF Carrying
  <2>2. CASE n = last
    <3>1. issues'[n].id = runs[r].id /\ issues'[n].saw = runs[r].saw
      BY <2>2, <1>3 DEF NewIssue
    <3> QED BY <3>1, <2>1 DEF NoneSeen
  <2>3. CASE n # last
    <3>1. n \in DOMAIN issues /\ issues'[n] = issues[n] /\ n \in Carrying(issues[n].id)
      BY <2>3, <1>3 DEF Carrying
    <3> QED BY <3>1, <2>1 DEF ReusedByReRuns
  <2> QED BY <2>2, <2>3
<1> QED BY <1>4, <1>6, <1>7

\* Issues are closed and lose labels, no more.
LEMMA IssuesFade ==
  ASSUME FollowUpInv, UNCHANGED runs, trailers' \subseteq Ids,
         issues' \in Seq(IssueStates),
         DOMAIN issues' = DOMAIN issues,
         \A n \in DOMAIN issues : /\ issues'[n].id = issues[n].id /\ issues'[n].saw = issues[n].saw
                                  /\ issues'[n].open => issues[n].open
                                  /\ issues'[n].labelled => issues[n].labelled
  PROVE  FollowUpInv'
<1> USE DEF FollowUpInv
<1>2. FollowUpTypeOK'
  BY DEF FollowUpTypeOK, Is
<1>3. NoneSeen'
  BY DEF NoneSeen, Carrying
<1>4. ReusedByReRuns'
  BY DEF ReusedByReRuns, Carrying
<1> QED BY <1>2, <1>3, <1>4

(* No step of a run, of a failing call or of people disturbs it. *)
LEMMA FollowUpNextInv == FollowUpInv /\ [FollowUpNext]_fvars => FollowUpInv'
<1> SUFFICES ASSUME FollowUpInv, [FollowUpNext]_fvars PROVE FollowUpInv'
    OBVIOUS
<1>1. ASSUME NEW r \in Runners, Collect(r) PROVE FollowUpInv'
  <2> DEFINE run == Run("find", trailers, Triage, <<>>, 0)
  <2>1. run \in RunStates /\ run.at = "find" /\ run.saw <= Len(issues)
    BY DEF Run, Labels, FollowUpInv, FollowUpTypeOK, RunStates, DoneStates, IssueStates
  <2> QED BY <1>1, <2>1, RunMoves DEF Collect, FollowUpInv, FollowUpTypeOK
<1>2. ASSUME NEW r \in Runners, Find(r) PROVE FollowUpInv'
  <2>1. PICK id \in runs[r].left :
          Goes(r, IF Carrying(id) = {} THEN Run("labels", runs[r].left, id, <<Triage, id, Triage>>, Len(issues))
               ELSE IF runs[r].left = {id} THEN Idle
               ELSE Run("find", runs[r].left \ {id}, id, <<>>, 0))
    BY <1>2 DEF Find
  <2>2. runs[r].left \subseteq Ids /\ id \in Ids /\ issues \in Seq(IssueStates)
    BY <2>1 DEF FollowUpInv, FollowUpTypeOK, RunStates, DoneStates, IssueStates
  <2>3. CASE Carrying(id) = {}
    <3> DEFINE run == Run("labels", runs[r].left, id, <<Triage, id, Triage>>, Len(issues))
    <3>1. run \in RunStates /\ run.at = "labels" /\ run.id = id /\ run.saw <= Len(issues)
      BY <2>1, <2>2 DEF Run, Labels, RunStates, DoneStates, IssueStates
    <3>2. Goes(r, run)
      BY <2>1, <2>3
    <3> QED BY <1>2, <2>1, <2>3, <3>1, <3>2, RunMoves DEF Find, FollowUpInv, FollowUpTypeOK
  <2>4. CASE Carrying(id) # {} /\ runs[r].left = {id}
    <3>1. Goes(r, Idle) /\ Idle.at = "idle" /\ Idle.saw <= Len(issues)
      BY <2>1, <2>2, <2>4 DEF Idle, Run
    <3> QED BY <1>2, <3>1, IdleType, RunMoves DEF Find, FollowUpInv, FollowUpTypeOK
  <2>5. CASE Carrying(id) # {} /\ runs[r].left # {id}
    <3> DEFINE run == Run("find", runs[r].left \ {id}, id, <<>>, 0)
    <3>1. run \in RunStates /\ run.at = "find" /\ run.saw <= Len(issues)
      BY <2>1, <2>2 DEF Run, Labels, RunStates, DoneStates, IssueStates
    <3>2. Goes(r, run)
      BY <2>1, <2>5
    <3> QED BY <1>2, <3>1, <3>2, RunMoves DEF Find, FollowUpInv, FollowUpTypeOK
  <2> QED BY <2>3, <2>4, <2>5
<1>3. ASSUME NEW r \in Runners, ListLabels(r) PROVE FollowUpInv'
  <2>1. runs[r] \in RunStates /\ runs[r].at = "labels" /\ runs[r].want # <<>> /\ runs[r].saw <= Len(issues)
    BY <1>3 DEF ListLabels, Is, FollowUpInv, FollowUpTypeOK
  <2>2. \A m \in Carrying(runs[r].id) : runs[r].saw < m
    BY <2>1 DEF FollowUpInv, NoneSeen
  <2>3. CASE Head(runs[r].want) \in Existing
    <3> DEFINE run == [runs[r] EXCEPT !.want = Tail(@)]
    <3>1. Tail(runs[r].want) \in Seq(Labels)
      BY <2>1, HeadTailProperties DEF RunStates, DoneStates, IssueStates
    <3>2. run \in RunStates /\ run.at = "labels" /\ run.id = runs[r].id /\ run.saw = runs[r].saw
      BY <2>1, <3>1 DEF RunStates, DoneStates, IssueStates
    <3>3. Goes(r, run)
      BY <1>3, <2>3 DEF ListLabels
    <3> QED BY <1>3, <2>1, <2>2, <3>2, <3>3, RunMoves DEF ListLabels, FollowUpInv, FollowUpTypeOK
  <2>4. CASE Head(runs[r].want) \notin Existing
    <3> DEFINE run == [runs[r] EXCEPT !.at = "make"]
    <3>1. run \in RunStates /\ run.want # <<>> /\ run.id = runs[r].id /\ run.saw = runs[r].saw
      BY <2>1 DEF RunStates, DoneStates, IssueStates
    <3>2. Goes(r, run)
      BY <1>3, <2>4 DEF ListLabels
    <3> QED BY <1>3, <2>1, <2>2, <3>1, <3>2, RunMoves DEF ListLabels, FollowUpInv, FollowUpTypeOK
  <2> QED BY <2>3, <2>4
<1>4. ASSUME NEW r \in Runners, MakeLabel(r) PROVE FollowUpInv'
  <2>1. runs[r] \in RunStates /\ runs[r].at = "make" /\ runs[r].want # <<>> /\ runs[r].saw <= Len(issues)
    BY <1>4 DEF MakeLabel, Is, FollowUpInv, FollowUpTypeOK
  <2>2. \A m \in Carrying(runs[r].id) : runs[r].saw < m
    BY <2>1 DEF FollowUpInv, NoneSeen
  <2>3. UNCHANGED <<trailers, issues>>
    BY <1>4, <2>1 DEF MakeLabel, FollowUpInv, FollowUpTypeOK, RunStates, DoneStates, IssueStates
  <2>4. CASE Head(runs[r].want) \in labels
    <3>1. Goes(r, Idle) /\ Idle.at = "idle" /\ Idle.saw <= Len(issues)
      BY <1>4, <2>4 DEF MakeLabel, Idle, Run, FollowUpInv, FollowUpTypeOK
    <3> QED BY <2>3, <3>1, IdleType, RunMoves
  <2>5. CASE Head(runs[r].want) \notin labels
    <3> DEFINE run == [runs[r] EXCEPT !.at = "labels", !.want = Tail(@)]
    <3>1. Tail(runs[r].want) \in Seq(Labels)
      BY <2>1, HeadTailProperties DEF RunStates, DoneStates, IssueStates
    <3>2. run \in RunStates /\ run.at = "labels" /\ run.id = runs[r].id /\ run.saw = runs[r].saw
      BY <2>1, <3>1 DEF RunStates, DoneStates, IssueStates
    <3>3. Goes(r, run)
      BY <1>4, <2>5 DEF MakeLabel
    <3> QED BY <2>1, <2>2, <2>3, <3>2, <3>3, RunMoves
  <2> QED BY <2>4, <2>5
<1>5. ASSUME NEW r \in Runners, Create(r) PROVE FollowUpInv'
  <2>1. runs[r] \in RunStates /\ runs[r].at = "labels"
    BY <1>5 DEF Create, LabelsReady, Is, FollowUpInv, FollowUpTypeOK
  <2>2. UNCHANGED <<trailers, labels>>
    BY <1>5 DEF Create, FollowUpInv, FollowUpTypeOK
  <2>3. Idle.at = "idle" /\ Idle.saw <= Len(issues) /\ Idle \in DoneStates
    BY DEF Idle, Run, Labels, FollowUpInv, FollowUpTypeOK, RunStates, DoneStates, IssueStates
  <2>4. CASE {Triage, runs[r].id} \subseteq labels /\ runs[r].left = {runs[r].id}
    <3>1. Goes(r, Idle) /\ issues' = Append(issues, NewIssue(runs[r]))
      BY <1>5, <2>4 DEF Create
    <3> QED BY <2>1, <2>2, <2>3, <3>1, IssueAppears
  <2>5. CASE {Triage, runs[r].id} \subseteq labels /\ runs[r].left # {runs[r].id}
    <3> DEFINE run == Run("find", runs[r].left \ {runs[r].id}, runs[r].id, <<>>, 0)
    <3>1. Goes(r, run) /\ issues' = Append(issues, NewIssue(runs[r]))
      BY <1>5, <2>5 DEF Create
    <3>2. /\ run \in DoneStates
          /\ run.saw <= Len(issues)
      BY <2>1 DEF Run, FollowUpInv, FollowUpTypeOK, RunStates, DoneStates, IssueStates
    <3> QED BY <2>1, <2>2, <3>1, <3>2, IssueAppears
  <2>6. CASE ~({Triage, runs[r].id} \subseteq labels)
    <3>1. Goes(r, Idle) /\ UNCHANGED issues
      BY <1>5, <2>6 DEF Create
    <3> QED BY <2>2, <2>3, <3>1, IdleType, RunMoves
  <2> QED BY <2>4, <2>5, <2>6
<1>6. ASSUME NEW r \in Runners, GhFails(r) PROVE FollowUpInv'
  <2>1. Goes(r, Idle) /\ trailers' = trailers /\ Idle.at = "idle" /\ Idle.saw <= Len(issues)
        /\ Idle \in DoneStates
    BY <1>6 DEF GhFails, Idle, Run, Labels, FollowUpInv, FollowUpTypeOK, RunStates, DoneStates
  <2>2. runs[r] \in RunStates /\ (Is(r, "make") => runs[r].want # <<>>)
    BY DEF FollowUpInv, FollowUpTypeOK, Is
  <2>3. CASE UNCHANGED <<issues, labels>>
    BY <2>1, <2>2, <2>3, IdleType, RunMoves
  <2>4. CASE Is(r, "make") /\ labels' = labels \cup {Head(runs[r].want)} /\ UNCHANGED issues
    BY <2>1, <2>4, IdleType, RunMoves
  <2>5. CASE LabelsReady(r) /\ issues' = Append(issues, NewIssue(runs[r])) /\ UNCHANGED labels
    <3>1. runs[r].at = "labels"
      BY <2>5 DEF LabelsReady, Is
    <3> QED BY <2>1, <2>5, <3>1, IssueAppears
  <2> QED BY <1>6, <2>3, <2>4, <2>5 DEF GhFails
<1>7. CASE People
  <2>1. trailers \subseteq Ids /\ issues \in Seq(IssueStates) /\ UNCHANGED runs
        /\ \A m \in DOMAIN issues : issues[m] \in IssueStates
    BY <1>7 DEF People, FollowUpInv, FollowUpTypeOK
  <2>2. ASSUME NEW id \in Ids, trailers' = trailers \cup {id}, UNCHANGED <<issues, labels>> PROVE FollowUpInv'
    BY <2>1, <2>2, IssuesFade
  <2>3. ASSUME NEW n \in DOMAIN issues, issues[n].open, issues' = [issues EXCEPT ![n].open = FALSE],
               UNCHANGED <<trailers, labels>>
        PROVE  FollowUpInv'
    <3>1. issues[n] \in IssueStates /\ n \in 1 .. Len(issues)
      BY <2>1
    <3>2. [issues[n] EXCEPT !.open = FALSE] \in IssueStates
      BY <3>1 DEF RunStates, DoneStates, IssueStates
    <3>3. issues' = [issues EXCEPT ![n] = [issues[n] EXCEPT !.open = FALSE]]
      BY <2>3
    <3>4. issues' \in Seq(IssueStates) /\ DOMAIN issues' = DOMAIN issues
      BY <2>1, <3>1, <3>2, <3>3, ExceptSeq
    <3>5. \A m \in DOMAIN issues :
            /\ issues'[m].id = issues[m].id /\ issues'[m].saw = issues[m].saw
            /\ (issues'[m].open => issues[m].open) /\ issues'[m].labelled = issues[m].labelled
      BY <2>1, <3>1, <3>3
    <3> QED BY <2>1, <2>3, <3>4, <3>5, IssuesFade
  <2>4. ASSUME NEW label \in labels, labels' = labels \ {label}, UNCHANGED trailers,
               issues' = [n \in DOMAIN issues |-> [issues[n] EXCEPT !.labelled = @ /\ issues[n].id # label]]
        PROVE  FollowUpInv'
    <3>1. \A m \in DOMAIN issues : issues[m] \in IssueStates
      BY <2>1
    <3>a. \A m \in DOMAIN issues : issues'[m] = [issues[m] EXCEPT !.labelled = @ /\ issues[m].id # label]
      BY <2>4, Zenon
    <3>2. \A m \in DOMAIN issues :
            /\ issues'[m] \in IssueStates /\ issues'[m].id = issues[m].id /\ issues'[m].saw = issues[m].saw
            /\ issues'[m].open = issues[m].open /\ (issues'[m].labelled => issues[m].labelled)
      BY <3>1, <3>a DEF RunStates, DoneStates, IssueStates
    <3>b. DOMAIN issues' = DOMAIN issues /\ DOMAIN issues = 1 .. Len(issues) /\ Len(issues) \in Nat
      BY <2>1, <2>4
    <3>c. issues' = [m \in 1 .. Len(issues) |-> issues'[m]]
      BY <2>4, <3>b
    <3>3. issues' \in Seq(IssueStates) /\ DOMAIN issues' = DOMAIN issues
      <4>1. PICK k \in Nat : k = Len(issues)
        BY <3>b
      <4>2. issues' \in [1 .. k -> IssueStates]
        BY <3>2, <3>b, <3>c, <4>1
      <4> QED BY <4>1, <4>2, <3>b, SeqDef
    <3> QED BY <2>1, <2>4, <3>2, <3>3, IssuesFade
  <2> QED BY <1>7, <2>2, <2>3, <2>4 DEF People
<1>8. CASE UNCHANGED fvars
  BY <1>8 DEF fvars, FollowUpInv, FollowUpTypeOK, NoneSeen, ReusedByReRuns, Carrying, Is
<1> QED BY <1>1, <1>2, <1>3, <1>4, <1>5, <1>6, <1>7, <1>8 DEF FollowUpNext, RunStep

-----------------------------------------------------------------------------
(* ReviewRounds: replies name reviews that have been shown.                *)

PostStates == [finder : BOOLEAN, findings : BOOLEAN, triage : BOOLEAN, names : Nat, at : Nat]

ReviewTypeOK ==
  /\ clock \in Nat /\ shown \subseteq Nat
  /\ reviews \in Seq(PostStates) /\ comments \in Seq(PostStates)
  /\ work \in [threads : SUBSET Threads, review : Nat]

\* Whoever answers names a review that some fetch has reported.
AnswersShown ==
  /\ NoReview \notin shown
  /\ Naming => /\ work.review \in shown \cup {NoReview}
               /\ \A n \in DOMAIN comments : comments[n].triage => comments[n].names \in shown
               /\ \A n \in DOMAIN reviews : ~reviews[n].finder => reviews[n].names \in shown

ReviewInv == ReviewTypeOK /\ AnswersShown

\* A reply that names a review closes at most that one,
LEMMA ReplyCloses ==
  ASSUME NEW G, NEW answered \in SUBSET G, NEW post, post.names # NoReview, post.names \in G
  PROVE  Close(answered, post) \in SUBSET G
BY DEF Close

\* and so do all those of a time, one after the other: the steps of the recursion stay
\* within the subsets of G.
LEMMA AfterPostsIn ==
  ASSUME NEW G, NEW answered \in SUBSET G, NEW posts \in Seq(PostStates), NEW t,
         \A n \in DOMAIN posts : IsReply(posts[n]) => posts[n].names # NoReview /\ posts[n].names \in G
  PROVE  AfterPosts(answered, posts, t) \in SUBSET G
<1>1. PICK N \in Nat : N = Len(posts) OBVIOUS
<1>2. PICK S : S = SUBSET G OBVIOUS
<1>3. PICK e \in S : e = answered BY <1>2
<1> DEFINE Step(a, n) == IF IsReply(posts[n]) /\ posts[n].at = t THEN Close(a, posts[n]) ELSE a
           Rule(f) == [n \in 0..N |-> IF n = 0 THEN answered ELSE Step(f[n - 1], n)]
           g == [x \in S \X Nat |-> IF x[2] \in 1..N THEN Step(x[1], x[2]) ELSE x[1]]
<1>4. \A a \in S, n \in 1..N : Step(a, n) \in S
  <2> TAKE a \in S, n \in 1..N
  <2>1. n \in DOMAIN posts BY <1>1
  <2>2. CASE IsReply(posts[n])
    <3>1. Close(a, posts[n]) \in S BY <1>2, <2>1, <2>2, ReplyCloses
    <3> QED BY <3>1
  <2>3. CASE ~IsReply(posts[n])
    BY <2>3
  <2> QED BY <2>2, <2>3
<1> HIDE DEF Step
<1>5. g \in [S \X Nat -> S] BY <1>4
<1>6. \A a \in S, n \in 1..N : g[<<a, n>>] = Step(a, n) OBVIOUS
<1> HIDE DEF g
<1>7. PICK f : Unrolled(f, S, e, g, N)
  <2>1. PICK r \in [S \X Nat -> S] : r = g BY <1>5
  <2>2. \E f : Unrolled(f, S, e, r, N) BY <2>1, Recursion
  <2> QED BY <2>1, <2>2
<1>8. f \in [0..N -> S] /\ f[0] = e /\ \A n \in 1..N : f[n] = g[<<f[n - 1], n>>] BY <1>7 DEF Unrolled
<1>9. f = Rule(f)
  <2>1. \A n \in 1..N : f[n] = Step(f[n - 1], n)
    <3> TAKE n \in 1..N
    <3>1. n - 1 \in 0..N /\ f[n - 1] \in S BY <1>8
    <3> QED BY <1>6, <1>8, <3>1
  <2>2. f = [n \in 0..N |-> f[n]] BY <1>8
  <2>3. \A n \in 0..N : f[n] = IF n = 0 THEN answered ELSE Step(f[n - 1], n) BY <1>3, <1>8, <2>1
  <2> QED BY <2>2, <2>3
<1>10. PICK U : U = CHOOSE V : V = Rule(V) OBVIOUS
<1>11. U = Rule(U)
  <2> HIDE DEF Rule
  <2> QED BY <1>9, <1>10
<1>12. AfterPosts(answered, posts, t) = U[N]
  BY <1>1, <1>10, Zenon DEF AfterPosts, Step
<1> DEFINE T == {n \in Nat : n \in 0..N => U[n] \in S}
<1>13. 0 \in T BY <1>3, <1>11
<1>14. ASSUME NEW n \in Nat, n \in T PROVE n + 1 \in T
  <2>1. ASSUME n + 1 \in 0..N PROVE U[n + 1] \in S
    <3>1. n \in 0..N /\ n + 1 \in 1..N /\ (n + 1) - 1 = n /\ n + 1 # 0 BY <1>1, <2>1
    <3>2. U[n] \in S BY <1>14, <3>1
    <3>3. U[n + 1] = Step(U[n], n + 1) BY <1>11, <2>1, <3>1
    <3> QED BY <1>4, <3>1, <3>2, <3>3
  <2> QED BY <2>1
<1> HIDE DEF T
<1>15. Nat \subseteq T BY <1>13, <1>14, SetInduction
<1>16. N \in T /\ N \in 0..N BY <1>1, <1>15
<1> QED BY <1>2, <1>12, <1>16 DEF T

\* A part of a list of posts.
LEMMA PartOfPosts ==
  ASSUME NEW s \in Seq(PostStates), NEW a \in Nat \ {0}, NEW b \in Nat, b <= Len(s)
  PROVE  /\ SubSeq(s, a, b) \in Seq(PostStates)
         /\ \A n \in DOMAIN SubSeq(s, a, b) : \E k \in DOMAIN s : SubSeq(s, a, b)[n] = s[k]
<1>1. Len(s) \in Nat /\ \A i \in a..b : i \in DOMAIN s /\ s[i] \in PostStates OBVIOUS
<1>2. PICK p : p = SubSeq(s, a, b) OBVIOUS
<1>3. /\ p \in Seq(PostStates)
      /\ Len(p) = IF a <= b THEN b - a + 1 ELSE 0
      /\ \A i \in 1..b - a + 1 : p[i] = s[a + i - 1]
  BY <1>1, <1>2, SubSeqProperties
<1>4. ASSUME NEW n \in DOMAIN p PROVE \E k \in DOMAIN s : p[n] = s[k]
  <2>1. n \in 1..b - a + 1 BY <1>3
  <2>2. a + n - 1 \in a..b BY <2>1
  <2> QED BY <1>1, <1>3, <2>1, <2>2
<1> QED BY <1>2, <1>3, <1>4

\* What the query returns are posts that there are.
LEMMA WindowsOf ==
  ASSUME NEW s \in Seq(PostStates)
  PROVE  /\ Latest(CommentWindow, s) \in Seq(PostStates)
         /\ \A n \in DOMAIN Latest(CommentWindow, s) : \E k \in DOMAIN s : Latest(CommentWindow, s)[n] = s[k]
         /\ Earliest(ReviewWindow, s) \in Seq(PostStates)
         /\ \A n \in DOMAIN Earliest(ReviewWindow, s) : \E k \in DOMAIN s : Earliest(ReviewWindow, s)[n] = s[k]
<1>1. PICK L \in Nat : L = Len(s) OBVIOUS
<1>2. PICK a \in Nat \ {0} : a = IF L <= CommentWindow THEN 1 ELSE L - CommentWindow + 1
  <2>1. PICK w \in Nat : w = CommentWindow BY ReviewAssumption
  <2>2. CASE L <= w BY <2>1, <2>2
  <2>3. CASE ~(L <= w)
    <3>1. L - w + 1 \in Nat \ {0} BY <2>3
    <3> QED BY <2>1, <2>3, <3>1
  <2> QED BY <2>2, <2>3
<1>3. PICK b \in Nat : b = (IF L < ReviewWindow THEN L ELSE ReviewWindow) /\ b <= L BY ReviewAssumption
<1>4. Latest(CommentWindow, s) = SubSeq(s, a, L) BY <1>1, <1>2 DEF Latest
<1>5. Earliest(ReviewWindow, s) = SubSeq(s, 1, b) BY <1>1, <1>3 DEF Earliest
<1>6. 1 \in Nat \ {0} /\ L <= Len(s) /\ b <= Len(s) BY <1>1, <1>3
<1>7. /\ SubSeq(s, a, L) \in Seq(PostStates)
      /\ \A n \in DOMAIN SubSeq(s, a, L) : \E k \in DOMAIN s : SubSeq(s, a, L)[n] = s[k]
  BY <1>6, PartOfPosts
<1>8. /\ SubSeq(s, 1, b) \in Seq(PostStates)
      /\ \A n \in DOMAIN SubSeq(s, 1, b) : \E k \in DOMAIN s : SubSeq(s, 1, b)[n] = s[k]
  BY <1>6, PartOfPosts
<1> QED BY <1>4, <1>5, <1>7, <1>8, Zenon

(* What is answered follows from what has been shown or mentioned: windows *)
(* and order of the replies do not matter.                                 *)
LEMMA NoneLostHolds == ReviewInv => NoneLost
<1> SUFFICES ASSUME ReviewInv, Naming PROVE Answered \subseteq shown \cup Mentioned
  BY DEF NoneLost
<1>1. PICK G : G = shown \cup Mentioned OBVIOUS
<1>2. PICK N \in Nat : N = clock + 1 BY DEF ReviewInv, ReviewTypeOK
<1>3. PICK c \in Seq(PostStates) : c = Latest(CommentWindow, comments)
  BY WindowsOf DEF ReviewInv, ReviewTypeOK
<1>4. PICK r \in Seq(PostStates) : r = Earliest(ReviewWindow, reviews)
  BY WindowsOf DEF ReviewInv, ReviewTypeOK
<1>5. \A n \in DOMAIN c : IsReply(c[n]) => c[n].names # NoReview /\ c[n].names \in G
  <2> TAKE n \in DOMAIN c
  <2>1. PICK k \in DOMAIN comments : c[n] = comments[k]
    BY <1>3, WindowsOf DEF ReviewInv, ReviewTypeOK
  <2>2. CASE comments[k].triage
    BY <1>1, <2>1, <2>2 DEF ReviewInv, AnswersShown
  <2>3. CASE ~comments[k].triage
    <3>1. comments[k].names \in Mentioned BY <2>1, <2>3 DEF Mentioned
    <3> QED BY <1>1, <2>1, <2>3, <3>1 DEF IsReply
  <2> QED BY <2>2, <2>3
<1>6. \A n \in DOMAIN r : IsReply(r[n]) => r[n].names # NoReview /\ r[n].names \in G
  <2> TAKE n \in DOMAIN r
  <2>1. PICK k \in DOMAIN reviews : r[n] = reviews[k]
    BY <1>4, WindowsOf DEF ReviewInv, ReviewTypeOK
  <2> QED BY <1>1, <2>1 DEF IsReply, ReviewInv, AnswersShown
<1>7. PICK S : S = SUBSET G OBVIOUS
<1> DEFINE Step(a, t) == AfterPosts(AfterPosts(a, c, t - 1), r, t - 1)
           Rule(f) == [t \in 0..N |-> IF t = 0 THEN {} ELSE Step(f[t - 1], t)]
           g == [x \in S \X Nat |-> Step(x[1], x[2])]
<1>8. \A a \in S, t \in Nat : Step(a, t) \in S
  <2> TAKE a \in S, t \in Nat
  <2>1. PICK s : s = t - 1 OBVIOUS
  <2>2. AfterPosts(a, c, s) \in SUBSET G BY <1>5, <1>7, AfterPostsIn
  <2>3. PICK b \in SUBSET G : b = AfterPosts(a, c, s) BY <2>2
  <2>4. AfterPosts(b, r, s) \in SUBSET G BY <1>6, AfterPostsIn
  <2> QED BY <1>7, <2>1, <2>3, <2>4
<1> HIDE DEF Step
<1>9. g \in [S \X Nat -> S] BY <1>8
<1>10. \A a \in S, t \in Nat : g[<<a, t>>] = Step(a, t) OBVIOUS
<1> HIDE DEF g
<1>11. PICK f : Unrolled(f, S, {}, g, N)
  <2>1. PICK h \in [S \X Nat -> S] : h = g BY <1>9
  <2>2. PICK e \in S : e = {} BY <1>7
  <2>3. \E f : Unrolled(f, S, e, h, N) BY <2>1, Recursion
  <2> QED BY <2>1, <2>2, <2>3
<1>12. f \in [0..N -> S] /\ f[0] = {} /\ \A t \in 1..N : f[t] = g[<<f[t - 1], t>>] BY <1>11 DEF Unrolled
<1>13. f = Rule(f)
  <2>1. \A t \in 1..N : f[t] = Step(f[t - 1], t)
    <3> TAKE t \in 1..N
    <3>1. t - 1 \in 0..N /\ f[t - 1] \in S BY <1>12
    <3> QED BY <1>10, <1>12, <3>1, SMTT(40)
  <2>2. f = [t \in 0..N |-> f[t]] BY <1>12
  <2>3. \A t \in 0..N : f[t] = IF t = 0 THEN {} ELSE Step(f[t - 1], t) BY <1>12, <2>1
  <2> QED BY <2>2, <2>3
<1>14. PICK U : U = CHOOSE V : V = Rule(V) OBVIOUS
<1>15. U = Rule(U)
  <2> HIDE DEF Rule
  <2> QED BY <1>13, <1>14
<1>16. AfterSeconds = U
  BY <1>2, <1>3, <1>4, <1>14, Zenon DEF AfterSeconds, Step
<1> DEFINE T == {n \in Nat : n \in 0..N => U[n] \in S}
<1>17. 0 \in T BY <1>7, <1>15
<1>18. ASSUME NEW n \in Nat, n \in T PROVE n + 1 \in T
  <2>1. ASSUME n + 1 \in 0..N PROVE U[n + 1] \in S
    <3>1. n \in 0..N /\ n + 1 \in Nat /\ (n + 1) - 1 = n /\ n + 1 # 0 BY <1>2, <2>1
    <3>2. U[n] \in S BY <1>18, <3>1
    <3>3. U[n + 1] = Step(U[n], n + 1) BY <1>15, <2>1, <3>1
    <3> QED BY <1>8, <3>1, <3>2, <3>3
  <2> QED BY <2>1
<1> HIDE DEF T
<1>19. Nat \subseteq T BY <1>17, <1>18, SetInduction
<1>20. N \in T /\ N \in 0..N BY <1>2, <1>19
<1>21. Answered = U[N] BY <1>2, <1>16 DEF Answered
<1> QED BY <1>1, <1>7, <1>20, <1>21 DEF T

\* Nobody has written anything at the start.
LEMMA ReviewInitInv == ReviewInit \/ NoReviews => ReviewInv
<1> SUFFICES ASSUME ReviewInit \/ NoReviews PROVE ReviewInv OBVIOUS
<1>1. reviews = <<>> /\ comments = <<>> /\ clock = 0 /\ work = NoWork /\ shown = {}
  BY DEF ReviewInit, NoReviews
<1>2. NoWork \in [threads : SUBSET Threads, review : Nat] /\ NoWork.review = NoReview BY DEF NoWork, NoReview
<1>3. ReviewTypeOK BY <1>1, <1>2 DEF ReviewTypeOK
<1>4. AnswersShown BY <1>1, <1>2 DEF AnswersShown
<1> QED BY <1>3, <1>4 DEF ReviewInv

\* The open review is one whose summary the query returns.
LEMMA OpenReviewIs ==
  ASSUME ReviewInv
  PROVE  OpenReview \in Suppressed \cup {NoReview} /\ Suppressed \subseteq Nat \ {NoReview}
<1>1. Suppressed \subseteq 1..Len(reviews) /\ Len(reviews) \in Nat
  BY ReviewAssumption DEF Suppressed, Earliest, ReviewInv, ReviewTypeOK
<1>2. PICK open : open = Suppressed \ Answered OBVIOUS
<1>3. CASE open # {}
  <2> DEFINE T == {Len(reviews) - n : n \in open}
  <2>1. T \in SUBSET Nat
    <3>1. \A n \in open : Len(reviews) - n \in Nat BY <1>1, <1>2
    <3> QED BY <3>1
  <2>2. T # {} BY <1>3
  <2>3. PICK m \in T : \A n \in T : m <= n BY <2>1, <2>2, LeastNumber
  <2>4. PICK k \in open : m = Len(reviews) - k BY <2>3
  <2>5. \A n \in open : n <= k
    <3> TAKE n \in open
    <3>1. m <= Len(reviews) - n BY <2>3
    <3> QED BY <1>1, <1>2, <2>4, <3>1
  <2>6. \E x \in open : \A n \in open : n <= x BY <2>5
  <2>7. OpenReview = CHOOSE x \in open : \A n \in open : n <= x BY <1>2, <1>3, Zenon DEF OpenReview
  <2> QED BY <1>1, <1>2, <2>6, <2>7 DEF NoReview
<1>4. CASE open = {}
  BY <1>1, <1>2, <1>4 DEF OpenReview, NoReview
<1> QED BY <1>3, <1>4

\* A post is appended.
LEMMA PostAppended ==
  ASSUME NEW s \in Seq(PostStates), NEW post \in PostStates
  PROVE  /\ Append(s, post) \in Seq(PostStates)
         /\ \A n \in DOMAIN Append(s, post) : Append(s, post)[n] = post
                                             \/ (n \in DOMAIN s /\ Append(s, post)[n] = s[n])
OBVIOUS

(* No step of the agent or of others disturbs it. *)
LEMMA ReviewNextInv == ReviewInv /\ [ReviewNext]_reviewVars => ReviewInv'
<1> SUFFICES ASSUME ReviewInv, [ReviewNext]_reviewVars PROVE ReviewInv'
    OBVIOUS
<1>0. /\ clock \in Nat /\ reviews \in Seq(PostStates) /\ comments \in Seq(PostStates)
      /\ work \in [threads : SUBSET Threads, review : Nat] /\ shown \subseteq Nat
  BY DEF ReviewInv, ReviewTypeOK
<1>1. CASE Gate \/ CallFails \/ UserWorks \/ RoundEnds
  BY <1>1 DEF Gate, CallFails, UserWorks, RoundEnds, github, ReviewInv, ReviewTypeOK, AnswersShown
<1>2. CASE Second
  BY <1>2 DEF Second, ReviewInv, ReviewTypeOK, AnswersShown
<1>3. CASE FinderReviews
  <2>1. PICK findings \in BOOLEAN : reviews' = Append(reviews, Post(TRUE, findings, FALSE, NoReview))
    BY <1>3 DEF FinderReviews
  <2>2. PICK post : post = Post(TRUE, findings, FALSE, NoReview) OBVIOUS
  <2>3. post \in PostStates /\ post.finder BY <1>0, <2>2 DEF Post, PostStates, NoReview
  <2>4. reviews' = Append(reviews, post) BY <2>1, <2>2
  <2>5. UNCHANGED <<comments, clock, work, shown>> BY <1>3 DEF FinderReviews
  <2>6. ReviewTypeOK' BY <1>0, <2>3, <2>4, <2>5, PostAppended DEF ReviewTypeOK
  <2>7. AnswersShown'
    BY <1>0, <2>3, <2>4, <2>5, PostAppended DEF AnswersShown, ReviewInv
  <2> QED BY <2>6, <2>7 DEF ReviewInv
<1>4. CASE Chat
  <2>1. PICK n \in {NoReview} \cup {k \in DOMAIN reviews : reviews[k].finder} :
          comments' = Append(comments, Post(FALSE, FALSE, FALSE, n))
    BY <1>4 DEF Chat
  <2>2. PICK post : post = Post(FALSE, FALSE, FALSE, n) OBVIOUS
  <2>3. post \in PostStates /\ ~post.triage BY <1>0, <2>1, <2>2 DEF Post, PostStates, NoReview
  <2>4. comments' = Append(comments, post) BY <2>1, <2>2
  <2>5. UNCHANGED <<reviews, clock, work, shown>> BY <1>4 DEF Chat
  <2>6. ReviewTypeOK' BY <1>0, <2>3, <2>4, <2>5, PostAppended DEF ReviewTypeOK
  <2>7. AnswersShown'
    BY <1>0, <2>3, <2>4, <2>5, PostAppended DEF AnswersShown, ReviewInv
  <2> QED BY <2>6, <2>7 DEF ReviewInv
<1>5. CASE PersonReviews
  <2>1. PICK n \in shown : reviews' = Append(reviews, Post(FALSE, FALSE, TRUE, IF Naming THEN n ELSE NoReview))
    BY <1>5 DEF PersonReviews
  <2>2. PICK post : post = Post(FALSE, FALSE, TRUE, IF Naming THEN n ELSE NoReview) OBVIOUS
  <2>3. post \in PostStates /\ (Naming => post.names = n)
    BY <1>0, <2>1, <2>2 DEF Post, PostStates, NoReview
  <2>4. reviews' = Append(reviews, post) BY <2>1, <2>2
  <2>5. UNCHANGED <<comments, clock, work, shown>> BY <1>5 DEF PersonReviews
  <2>6. ReviewTypeOK' BY <1>0, <2>3, <2>4, <2>5, PostAppended DEF ReviewTypeOK
  <2>7. Naming => post.names \in shown
    BY <2>1, <2>3
  <2>8. AnswersShown'
    BY <1>0, <2>3, <2>4, <2>5, <2>7, PostAppended DEF AnswersShown, ReviewInv
  <2> QED BY <2>6, <2>8 DEF ReviewInv
<1>6. CASE Fetch
  <2>1. PICK review \in {OpenReview} \cup shown :
          /\ work' = [threads |-> Unresolved, review |-> review]
          /\ shown' = shown \cup ({review} \cap Suppressed)
    BY <1>6 DEF Fetch
  <2>2. UNCHANGED <<reviews, comments, clock>> BY <1>6 DEF Fetch, github
  <2>3. Suppressed \subseteq Nat \ {NoReview} /\ review \in shown' \cup {NoReview} BY <2>1, OpenReviewIs
  <2>4. Unresolved \subseteq Threads /\ NoReview \in Nat BY DEF Unresolved, NoReview
  <2>5. ReviewTypeOK' BY <1>0, <2>1, <2>2, <2>3, <2>4 DEF ReviewTypeOK
  <2>6. AnswersShown' BY <2>1, <2>2, <2>3 DEF AnswersShown, ReviewInv
  <2> QED BY <2>5, <2>6 DEF ReviewInv
<1>7. CASE Resolve
  <2>1. PICK t \in work.threads : work' = [work EXCEPT !.threads = @ \ {t}] BY <1>7 DEF Resolve
  <2>2. work' \in [threads : SUBSET Threads, review : Nat] /\ work'.review = work.review BY <1>0, <2>1
  <2> QED BY <1>7, <2>2 DEF Resolve, ReviewInv, ReviewTypeOK, AnswersShown
<1>8. CASE ReplyToReview
  <2>1. PICK post : post = Post(FALSE, FALSE, TRUE, IF Naming THEN work.review ELSE NoReview) OBVIOUS
  <2>2. post \in PostStates /\ (Naming => post.names = work.review)
    BY <1>0, <2>1 DEF Post, PostStates, NoReview
  <2>3. comments' = Append(comments, post) BY <1>8, <2>1 DEF ReplyToReview
  <2>4. UNCHANGED <<reviews, clock, shown>> /\ work.review # NoReview BY <1>8 DEF ReplyToReview
  <2>5. work' \in [threads : SUBSET Threads, review : Nat] /\ work'.review \in {work.review, NoReview}
    BY <1>0, <1>8, SMTT(40) DEF ReplyToReview, NoReview
  <2>6. ReviewTypeOK' BY <1>0, <2>2, <2>3, <2>4, <2>5, PostAppended DEF ReviewTypeOK
  <2>7. AnswersShown'
    BY <1>0, <2>2, <2>3, <2>4, <2>5, PostAppended DEF AnswersShown, ReviewInv
  <2> QED BY <2>6, <2>7 DEF ReviewInv
<1>9. CASE UNCHANGED reviewVars
  BY <1>9 DEF reviewVars, github, ReviewInv, ReviewTypeOK, AnswersShown
<1> QED BY <1>1, <1>2, <1>3, <1>4, <1>5, <1>6, <1>7, <1>8, <1>9 DEF ReviewNext, AgentStep

-----------------------------------------------------------------------------
(* The commands change no state of each other. *)
LEMMA CommandsInit == AutomationInit => ReviewInv /\ FollowUpInv
BY ReviewInitInv, FollowUpInitInv DEF AutomationInit

LEMMA CommandsNext == ReviewInv /\ FollowUpInv /\ [AutomationNext]_avars => ReviewInv' /\ FollowUpInv'
<1>1. [AutomationNext]_avars => [ReviewNext]_reviewVars /\ [FollowUpNext]_fvars
  BY DEF AutomationNext, avars
<1> QED BY <1>1, ReviewNextInv, FollowUpNextInv

(* For any windows, numbers of reviews, comments and seconds: as long as   *)
(* replies name their review, none is closed before somebody has seen it   *)
(* (review.py, answered_suppressed_review_ids, shape_review_open);         *)
THEOREM NoneLostCorrect == AutomationSpec => []NoneLost
<1> QED BY CommandsInit, CommandsNext, NoneLostHolds, PTL DEF AutomationSpec

(* for any number of overlapping runs, ids, failures and edits: of two     *)
(* issues of one id the later came from a run that had looked before the   *)
(* earlier one existed (sync_followup.py, find_open_followup, issue.py).   *)
THEOREM ReusedCorrect == AutomationSpec => []ReusedByReRuns
<1>1. FollowUpInv => ReusedByReRuns BY DEF FollowUpInv
<1> QED BY <1>1, CommandsInit, CommandsNext, PTL DEF AutomationSpec
=============================================================================
