--------------------------- MODULE Configuration ---------------------------
(***************************************************************************)
(* A repository's entry in the configuration: plugin, mapper, parser and   *)
(* protocol are chosen apart, by keys of blocks.  The entry is validated   *)
(* as a whole (harvester/config), then orchestrator._create_plugin builds  *)
(* the plugin of it, whose units must go through parser and mapper.        *)
(***************************************************************************)
EXTENDS Integers, FiniteSets

CONSTANTS Bases, MaxKeys   \* keys the blocks of an entry set together: four is enough to be accepted

ASSUME ConfigurationAssumption == Bases \subseteq Nat \ {0, 1} /\ MaxKeys \in Nat

Unset == 0
Derived == 1                        \* {scheme}://{host}/resource/ of the protocol's entry_url
Omitted == {"omitted"}              \* no block at all, not an empty one

(* PayloadKind of the DataMapper and PayloadParser registries, the type of  *)
(* DiscoveryResult a parser reads, and the one each protocol hands over.   *)
Accepts == [schema_org_general |-> "rdf", regal_general |-> "rdf", ckanext_dcat |-> "rdf",
            inspire_general |-> "inspire", phenoroam_general |-> "phenoroam", mods_general |-> "mods"]
Produces == [html_jsonld |-> "rdf", jsonld |-> "rdf", rdf_xml |-> "rdf",
             phenoroam_xml |-> "phenoroam", mods_xml |-> "mods"]
Reads == [html_jsonld |-> "url", mods_xml |-> "url", jsonld |-> "jsonld", rdf_xml |-> "xml", phenoroam_xml |-> "xml"]
HandsOver == [xml |-> "url", mycore_solr |-> "url", mycore_rest |-> "url",
              dcat_ap |-> "jsonld", pubplant_json_array |-> "jsonld", regal_find |-> "jsonld"]
Plugins == {"generic", "oai_pmh", "inspire"}

VARIABLES repo,     \* the entry: [plugins, mapper, parser, protocol, base, mapperBase, entryUrl]
          phase,    \* "given", "lifted", "rejected", "accepted", "failed", "built", "harvested"
          base,     \* the base URL the Regal mapper was made with
          unit      \* what became of a unit

configvars == <<repo, phase, base, unit>>

AtMostTwo(keys) == {set \in SUBSET keys : Cardinality(set) <= 2}
Entries ==
  {e \in [plugins : AtMostTwo(Plugins), mapper : AtMostTwo(DOMAIN Accepts) \cup {Omitted},
          parser : AtMostTwo(DOMAIN Produces) \cup {Omitted}, protocol : AtMostTwo(DOMAIN HandsOver)] :
     /\ Cardinality(e.plugins) + Cardinality(e.mapper) + Cardinality(e.parser) + Cardinality(e.protocol) <= MaxKeys
     /\ "generic" \notin e.plugins => e.protocol = {}}

ConfigurationInit ==
  /\ phase = "given" /\ base = Unset /\ unit = "none"
  /\ \E e \in Entries, url \in BOOLEAN :
      \E b \in IF "generic" \in e.plugins THEN Bases \cup {Unset} ELSE {Unset},
         mb \in IF "regal_general" \in e.mapper THEN Bases \cup {Unset} ELSE {Unset} :
        repo = [plugins |-> e.plugins, mapper |-> e.mapper, parser |-> e.parser, protocol |-> e.protocol,
                base |-> b, mapperBase |-> mb, entryUrl |-> url]

-----------------------------------------------------------------------------
Only(set) == CHOOSE x \in set : TRUE

LiftOmittedMapper ==
  /\ phase = "given" /\ phase' = "lifted"
  /\ repo' = IF repo.mapper = Omitted /\ "inspire" \in repo.plugins
             THEN [repo EXCEPT !.mapper = {"inspire_general"}] ELSE repo
  /\ UNCHANGED <<base, unit>>

OneMapperType == repo.mapper # Omitted /\ Cardinality(repo.mapper) = 1
OneParserType == repo.parser = Omitted \/ Cardinality(repo.parser) = 1
OneProtocolType == "generic" \in repo.plugins => Cardinality(repo.protocol) = 1
OnePlugin == Cardinality(repo.plugins) = 1

Fitting == repo.parser # Omitted /\ Accepts[Only(repo.mapper)] = Produces[Only(repo.parser)]

(* Bug: the base URL of the protocol is not compared with the mapper's.    *)
FitsGeneric_OneBase == "generic" \in repo.plugins => Fitting
FitsGeneric ==
  "generic" \in repo.plugins =>
    Fitting /\ (repo.base # Unset /\ repo.mapperBase # Unset => repo.base = repo.mapperBase)
FitsOaiPmh == "oai_pmh" \in repo.plugins => Fitting
FitsInspire == "inspire" \in repo.plugins => Accepts[Only(repo.mapper)] = "inspire"

Accepted == /\ OneMapperType /\ OneParserType /\ OneProtocolType
            /\ OnePlugin /\ FitsGeneric /\ FitsOaiPmh /\ FitsInspire

Validate == phase = "lifted" /\ phase' = (IF Accepted THEN "accepted" ELSE "rejected") /\ UNCHANGED <<repo, base, unit>>

-----------------------------------------------------------------------------
PluginType == Only(repo.plugins)
MapperType == Only(repo.mapper)
ParserType == Only(repo.parser)

(* effective_resource_base_url is asked for even if the mapper has its own; *)
(* it raises when there is neither a base nor an entry_url to derive it of. *)
EffectiveBase == IF repo.base # Unset THEN repo.base ELSE IF repo.entryUrl THEN Derived ELSE Unset
Fallback == IF PluginType = "generic" THEN EffectiveBase ELSE Unset
RegalBase == IF repo.mapperBase # Unset THEN repo.mapperBase ELSE Fallback

Buildable ==
  /\ MapperType = "regal_general" => /\ RegalBase # Unset
                                     /\ PluginType = "generic" => EffectiveBase # Unset
  /\ Accepts[MapperType] = IF PluginType = "inspire" THEN "inspire" ELSE Produces[ParserType]

CreatePlugin ==
  /\ phase = "accepted"
  /\ IF Buildable THEN /\ phase' = "built"
                       /\ base' = IF MapperType = "regal_general" THEN RegalBase ELSE Unset
                  ELSE phase' = "failed" /\ base' = base
  /\ UNCHANGED <<repo, unit>>

Unit == CASE PluginType = "generic" -> HandsOver[Only(repo.protocol)]
          [] PluginType = "oai_pmh" -> "xml"
          [] PluginType = "inspire" -> "record"

ProcessUnit ==
  /\ phase = "built" /\ phase' = "harvested"
  /\ unit' = IF PluginType = "inspire" THEN "mapped"
             ELSE IF Reads[ParserType] # Unit THEN "unsupported"
             ELSE IF Produces[ParserType] # Accepts[MapperType] THEN "incompatible" ELSE "mapped"
  /\ UNCHANGED <<repo, base>>

ConfigurationNext == LiftOmittedMapper \/ Validate \/ CreatePlugin \/ ProcessUnit

NoConfiguration == /\ phase = "none" /\ base = Unset /\ unit = "none"
                   /\ repo = [plugins |-> {}, mapper |-> {}, parser |-> {}, protocol |-> {},
                              base |-> Unset, mapperBase |-> Unset, entryUrl |-> FALSE]

-----------------------------------------------------------------------------
(* An accepted entry builds, unless its Regal mapper finds no base URL; the *)
(* base it is built with is every one that is configured; and no payload   *)
(* its parser makes is turned away by its mapper.                          *)
AcceptedBuilds ==
  /\ phase = "failed" => /\ MapperType = "regal_general"
                         /\ repo.mapperBase = Unset \/ ~repo.entryUrl
                         /\ repo.base = Unset
  /\ base # Unset => \A b \in {repo.base, repo.mapperBase} : b \in {Unset, base}
  /\ unit # "incompatible"

RepoOK ==
  /\ repo.plugins \subseteq Plugins
  /\ repo.mapper = Omitted \/ repo.mapper \subseteq DOMAIN Accepts
  /\ repo.parser = Omitted \/ repo.parser \subseteq DOMAIN Produces
  /\ {repo.base, repo.mapperBase} \subseteq Bases \cup {Unset} /\ repo.entryUrl \in BOOLEAN
  /\ "generic" \notin repo.plugins => repo.base = Unset

(* The inductive invariant behind it: after validation the entry is still  *)
(* the accepted one, and what was built of it is what it says.             *)
ConfigurationInv ==
  /\ phase \in {"given", "lifted", "rejected", "accepted", "failed", "built", "harvested", "none"}
  /\ RepoOK
  /\ phase \in {"accepted", "failed", "built", "harvested"} => Accepted
  /\ phase = "failed" => ~Buildable
  /\ phase \in {"built", "harvested"} => Buildable
  /\ base = IF phase \in {"built", "harvested"} /\ MapperType = "regal_general" THEN RegalBase ELSE Unset
  /\ unit # "incompatible"
=============================================================================
