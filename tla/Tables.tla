------------------------------- MODULE Tables -------------------------------
(***************************************************************************)
(* The annotation tables of an ARC: which ones the mappers make of a       *)
(* record, how they are chained by their inputs and outputs, and how lists *)
(* of the source with two fields an entry (a URL and its name, a title and *)
(* its degree) become two columns or rows.  OWSLib collects the fields of  *)
(* ISO records one by one, and leaves out the ones an entry lacks.         *)
(***************************************************************************)
EXTENDS Integers, FiniteSets, Sequences, StableSort

CONSTANTS MaxEntries

ASSUME TablesAssumption == MaxEntries \in Nat

Missing == 0                       \* no value, or an empty one
Metre == -1                        \* the unit of a distance without one
NoHeader == "nothing"

Lists == [inspire |-> {"conformance", "identifiers", "distances", "online"},
          regal |-> {"parts", "funding"}, ckanext |-> {"distributions"},
          schema_org |-> {"files"}, mods |-> {"file names"}, phenoroam |-> {"links"}]

\* What else the tables depend on: the dataset is geographic, and the record says where, when, about what and how.
Facts == [inspire |-> {"geographic", "where", "when", "how", "uri"}, regal |-> {"where", "when", "about"},
          ckanext |-> {"about"}, schema_org |-> {"about"}, mods |-> {"about"}, phenoroam |-> {"about"}]

Entry == [first : BOOLEAN, second : BOOLEAN]

VARIABLES source,        \* whose record it is
          list, entries, \* a list of the record, and its entries read so far
          facts,         \* SUBSET Facts[source]
          columns,       \* the two columns: the number of the entry each value is of
          study, assay,  \* the tables: [input, output, values]
          made           \* "reading", "mapped", or "refused"

tvars == <<source, list, entries, facts, columns, study, assay, made>>

NoColumns == [first |-> <<>>, second |-> <<>>]

TablesInit ==
  /\ source \in DOMAIN Lists /\ list \in Lists[source] /\ facts \in SUBSET Facts[source]
  /\ entries = <<>> /\ columns = NoColumns /\ study = <<>> /\ assay = <<>> /\ made = "reading"

-----------------------------------------------------------------------------
(* Lists of two fields. *)

With(field) == Ascending({i \in DOMAIN entries : entries[i][field]})
ValueAt(s, i, default) == IF i \in DOMAIN s THEN s[i] ELSE default
Rows(s, default) == [first |-> With("first"), second |-> [i \in DOMAIN With("first") |-> ValueAt(s, i, default)]]

IsoConformance == Rows(With("second"), Missing)
IsoIdentifiers == Rows(With("second"), Missing)
IsoDistances == Rows(With("second"), Metre)

NameOf(i) == IF entries[i].second THEN i ELSE Missing

\* Bug: the first resource stays among the names.
Online_Names ==
  LET listed == With("first")
      shown == IF "uri" \in facts \/ listed = <<>> THEN listed ELSE Tail(listed)
  IN  [first |-> shown, second |-> [i \in DOMAIN listed |-> NameOf(listed[i])]]

\* Resources without a URL are left out; the first one is the Output [URI] when there is no dataSetURI.
Online ==
  LET listed == With("first")
      shown == IF "uri" \in facts \/ listed = <<>> THEN listed ELSE Tail(listed)
  IN  [first |-> shown, second |-> [i \in DOMAIN shown |-> NameOf(shown[i])]]

\* A part without a label is named by its IRI, one without an IRI has no URL.
Parts == [first |-> With("first"), second |-> Ascending({i \in DOMAIN entries : entries[i].first \/ entries[i].second})]
Funding == [first |-> With("first"), second |-> With("second")]
Distributions == [first |-> With("first"), second |-> With("second")]

\* One cell holds the encoding and the URL of a file.
Files == [first |-> With("first"), second |-> [i \in DOMAIN With("first") |-> NameOf(With("first")[i])]]

Single == [first |-> With("first"), second |-> <<>>]

Columns == CASE list = "conformance" -> IsoConformance
             [] list = "identifiers" -> IsoIdentifiers
             [] list = "distances" -> IsoDistances
             [] list = "online" -> Online
             [] list = "parts" -> Parts
             [] list = "funding" -> Funding
             [] list = "distributions" -> Distributions
             [] list = "files" -> Files
             [] OTHER -> Single

-----------------------------------------------------------------------------
(* Tables.  An ArcTable takes inputs and gives outputs by their names. *)

Table(in, out, values) == [input |-> in, output |-> out, values |-> values]
If(condition, table) == IF condition THEN <<table>> ELSE <<>>

InspireSpatial ==
  If("geographic" \in facts /\ ("where" \in facts \/ (list = "distances" /\ IsoDistances.first # <<>>)),
     Table("Geographic Region", "Selected Location", TRUE))

InspireAcquisition ==
  If("when" \in facts, Table(IF InspireSpatial = <<>> THEN NoHeader ELSE "Selected Location", NoHeader, TRUE))

InspireProcessing ==
  If("how" \in facts \/ (list = "conformance" /\ IsoConformance.first # <<>>), Table(NoHeader, NoHeader, TRUE))

RegalSpatial == If("where" \in facts, Table("Geographic Region", "Selected Location(s)", TRUE))
RegalCollection == If({"when", "about"} \cap facts # {}, Table("Research Subject", "", TRUE))
RegalProcessing == <<Table(NoHeader, NoHeader, TRUE)>>
SchemaOrgCollection == If("about" \in facts, Table("Research Subject", "", TRUE))
SchemaOrgProcessing == <<Table(NoHeader, NoHeader, TRUE)>>
ModsKeywords == If("about" \in facts, Table("Research Subject", "", TRUE))
PhenoroamKeywords == If("about" \in facts, Table("Research Subject", "", TRUE))
CkanextProcessing == <<Table(NoHeader, NoHeader, TRUE)>>

StudyTables ==
  CASE source = "inspire" -> InspireSpatial \o InspireAcquisition \o InspireProcessing
    [] source = "regal" -> RegalSpatial \o RegalCollection \o RegalProcessing
    [] source = "schema_org" -> SchemaOrgCollection \o SchemaOrgProcessing
    [] source = "mods" -> ModsKeywords
    [] source = "phenoroam" -> PhenoroamKeywords
    [] source = "ckanext" -> CkanextProcessing

\* Data files are never invented: the only output is the address of the dataset.
InspireMeasurement ==
  LET addressed == "uri" \in facts \/ (list = "online" /\ With("first") # <<>>)
      table == Table(NoHeader, IF addressed THEN "URI" ELSE NoHeader, list = "online" /\ Columns.first # <<>>)
  IN  If(addressed \/ table.values, table)

CkanextMeasurement ==
  If(Columns # NoColumns, Table(NoHeader, IF Columns.first # <<>> THEN "URI" ELSE NoHeader, TRUE))

Measurement == <<Table("Dataset Source", "URI", TRUE)>>

AssayTables == CASE source = "inspire" -> InspireMeasurement
                 [] source = "ckanext" -> CkanextMeasurement
                 [] OTHER -> Measurement

-----------------------------------------------------------------------------
ReadEntry(e) ==
  /\ made = "reading" /\ Len(entries) < MaxEntries
  /\ entries' = Append(entries, e)
  /\ UNCHANGED <<source, list, facts, columns, study, assay, made>>

\* An ISO record without fileIdentifier, title or abstract is an error.
RefuseIso ==
  /\ made = "reading" /\ source = "inspire"
  /\ made' = "refused" /\ UNCHANGED <<source, list, entries, facts, columns, study, assay>>

MapTables ==
  /\ made = "reading" /\ made' = "mapped"
  /\ columns' = Columns /\ study' = StudyTables /\ assay' = AssayTables
  /\ UNCHANGED <<source, list, entries, facts>>

TablesNext == (\E e \in Entry : ReadEntry(e)) \/ RefuseIso \/ MapTables

NoTables == /\ source = "none" /\ list = "none" /\ facts = {} /\ entries = <<>>
            /\ columns = NoColumns /\ study = <<>> /\ assay = <<>> /\ made = "mapped"

-----------------------------------------------------------------------------
BothHalves(i) == entries[i].first /\ entries[i].second
Positional == {"online", "files"}   \* where a missing name keeps its place

(* Values in one place of both columns are of one entry as long as the     *)
(* entries before are complete, and where places are kept whatever is      *)
(* missing.                                                                *)
Paired ==
  \A k \in DOMAIN columns.first \cap DOMAIN columns.second :
    list \in Positional \/ (\A i \in 1..columns.first[k] : BothHalves(i)) =>
      columns.second[k] \in {columns.first[k], Missing}

Sources == {"Geographic Region", "Research Subject", "Dataset Source"}

(* A table takes what an earlier one gives, or a source; no two give the   *)
(* same sample, and none is empty.                                         *)
Chained(tables) ==
  \A k \in DOMAIN tables :
    /\ tables[k].input \in Sources \cup {NoHeader} \cup {tables[j].output : j \in 1..k-1}
    /\ \A j \in 1..k-1 : tables[j].output = tables[k].output => tables[k].output = NoHeader
    /\ tables[k].values \/ tables[k].output # NoHeader

TablesSound == Paired /\ Chained(study) /\ Chained(assay)
=============================================================================
