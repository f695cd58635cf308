------------------------------ MODULE Comments ------------------------------
(***************************************************************************)
(* The comments of an ARC (payload/arc_comments).  ARC.Write refuses two   *)
(* comments of one name on one holder, so HarvestedArc.from_arctrl merges  *)
(* them before the ARC is serialised, and takes the dateModified comment   *)
(* out of the crate, where the root property carries it.                   *)
(***************************************************************************)
EXTENDS Integers, FiniteSets, Sequences, SequencesExt, StableSort

CONSTANTS Values, MaxComments

ASSUME CommentsAssumption == MaxComments \in Nat

Empty == "empty"                   \* a comment without a value
DateModified == "dateModified"
Organization == "Creator Organization"
OrganizationUrl == "Creator Organization URL"

Holders == {"investigation", "person"}

(* What the mappers write about an investigation: names of fields that     *)
(* have one value, names they repeat, and whether predicates they do not   *)
(* know become comments under whatever name they have.                     *)
FromSchemaOrg == [once |-> {"License", DateModified}, repeated |-> {"Distribution"}, opaque |-> FALSE]
FromRegal == [once |-> {"License", DateModified}, repeated |-> {"Institution"}, opaque |-> TRUE]
FromInspire == [once |-> {"Edition", DateModified}, repeated |-> {"Publisher"}, opaque |-> FALSE]
FromPhenoroam == [once |-> {"Thumbnail"}, repeated |-> {"Core Project"}, opaque |-> FALSE]
FromMods == [once |-> {"License"}, repeated |-> {}, opaque |-> FALSE]
FromCkanext == [once |-> {"Landing Page", "Spatial Extent"}, repeated |-> {}, opaque |-> FALSE]

Writers == [schema_org |-> FromSchemaOrg, regal |-> FromRegal, inspire |-> FromInspire,
            phenoroam |-> FromPhenoroam, mods |-> FromMods, ckanext |-> FromCkanext]
WithOrganizations == {"schema_org", "regal", "inspire"}

VARIABLES writer,        \* the mapper
          appended,      \* holder -> what was appended: [name, value]
          crate,         \* holder -> the merged comments: [name, values]
          root,          \* values of the root property dateModified
          written        \* the ARC is serialised

mvars == <<writer, appended, crate, root, written>>

CommentsInit ==
  /\ writer \in DOMAIN Writers /\ written = FALSE /\ root = <<>>
  /\ appended = [h \in Holders |-> <<>>] /\ crate = [h \in Holders |-> <<>>]

-----------------------------------------------------------------------------
Comment(n, v) == [name |-> n, value |-> v]
NamesOn(h) == {appended[h][i].name : i \in DOMAIN appended[h]}
Room(k) == Len(appended["investigation"]) + Len(appended["person"]) + k <= MaxComments

Put(h, added) ==
  /\ Room(Len(added))
  /\ appended' = [appended EXCEPT ![h] = @ \o added]
  /\ UNCHANGED <<writer, crate, root, written>>

WriteOnce(n, v) == n \in Writers[writer].once \ NamesOn("investigation") /\ Put("investigation", <<Comment(n, v)>>)
WriteAgain(n, v) ==
  /\ n \in Writers[writer].repeated
  /\ writer = "inspire" => Comment(n, v) \notin ToSet(appended["investigation"])
  /\ Put("investigation", <<Comment(n, v)>>)
WriteOpaque(n, v) == Writers[writer].opaque /\ Put("investigation", <<Comment(n, v)>>)

\* add_creator_organization: each organisation once, and the URL it may have.
WriteOrganization(v, url) ==
  /\ writer \in WithOrganizations
  /\ Comment(Organization, v) \notin ToSet(appended["investigation"])
  /\ Put("investigation",
         <<Comment(Organization, v)>> \o IF url \in {Empty, v} THEN <<>> ELSE <<Comment(OrganizationUrl, url)>>)

\* INSPIRE persons have a position, and an online resource under the name the source gives it.
WriteOnPerson(n, v) == writer = "inspire" /\ Put("person", <<Comment(n, v)>>)

-----------------------------------------------------------------------------
\* Each value once, in the order of the comments.
NewValues(cs, n) ==
  {i \in DOMAIN cs : cs[i].name = n /\ cs[i].value # Empty /\ \A j \in 1..i-1 : cs[j] # cs[i]}
DistinctValues(cs, n) ==
  LET new == Selected(cs, NewValues(cs, n)) IN [k \in DOMAIN new |-> new[k].value]

FirstOfName(cs) == Ascending({i \in DOMAIN cs : \A j \in 1..i-1 : cs[j].name # cs[i].name})

\* Bug: a repeated name replaces the comment before.
MergeDuplicates_Last(cs) ==
  [k \in DOMAIN FirstOfName(cs) |->
    LET n == cs[FirstOfName(cs)[k]].name
        vs == DistinctValues(cs, n)
    IN  [name |-> n, values |-> IF vs = <<>> THEN vs ELSE <<Last(vs)>>]]

MergeDuplicates(cs) ==
  [k \in DOMAIN FirstOfName(cs) |->
    LET n == cs[FirstOfName(cs)[k]].name IN [name |-> n, values |-> DistinctValues(cs, n)]]

\* The nodes with this name go, whosever they are, and with them the references.
DropDateModified(cs) == Selected(cs, {k \in DOMAIN cs : cs[k].name # DateModified})

\* The values of the first comment of a name.
ValuesOf(cs, n) ==
  LET found == {k \in DOMAIN cs : cs[k].name = n}
  IN  IF found = {} THEN <<>> ELSE cs[CHOOSE k \in found : \A j \in found : k <= j].values

Serialise ==
  LET merged == [h \in Holders |-> MergeDuplicates(appended[h])]
  IN  /\ written' = TRUE
      /\ root' = ValuesOf(merged["investigation"], DateModified)
      /\ crate' = [h \in Holders |-> DropDateModified(merged[h])]
      /\ UNCHANGED <<writer, appended>>

KnownNames == UNION {Writers[w].once \cup Writers[w].repeated : w \in DOMAIN Writers} \cup {Organization}

CommentsNext == ~written /\
  \/ \E n \in KnownNames, v \in Values : WriteOnce(n, v) \/ WriteAgain(n, v)
  \/ \E n \in {"License", "Institution", DateModified, Organization}, v \in Values : WriteOpaque(n, v)
  \/ \E v \in Values, url \in Values \cup {Empty} : WriteOrganization(v, url)
  \/ \E n \in {"Position", "Online Resource"}, v \in Values \cup {Empty} : WriteOnPerson(n, v)
  \/ Serialise

NoComments == /\ writer = "none" /\ appended = [h \in Holders |-> <<>>]
              /\ crate = [h \in Holders |-> <<>>] /\ root = <<>> /\ written = TRUE

-----------------------------------------------------------------------------
NamesOnce(cs) == \A i, j \in DOMAIN cs : cs[i].name = cs[j].name => i = j

\* Where the crate has the values under a name.
InCrate(h, n) == IF n = DateModified THEN root ELSE ValuesOf(crate[h], n)

(* The API can write the ARC, and every value the mapper found is in it,   *)
(* once, under the name it had, in whatever order names came again.        *)
CommentsKept ==
  written => \A h \in Holders :
    /\ NamesOnce(crate[h])
    /\ \A i \in DOMAIN appended[h] :
         appended[h][i].value # Empty =>
           Cardinality({k \in DOMAIN InCrate(h, appended[h][i].name) :
                          InCrate(h, appended[h][i].name)[k] = appended[h][i].value}) = 1
    /\ \A k \in DOMAIN crate[h] : crate[h][k].name # DateModified
=============================================================================
