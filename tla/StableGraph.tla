----------------------------- MODULE StableGraph -----------------------------
(***************************************************************************)
(* Reading an RDF graph for the mappers (linked_data_mapper/stable_graph). *)
(* rdflib yields the objects of a predicate in an order that differs from  *)
(* build to build; what a mapper makes of a record must not depend on it,  *)
(* or the same record is uploaded with another title, author order or DOI. *)
(* Two readings of one graph are made here, each in an order of its own.   *)
(*                                                                         *)
(* Texts are numbers: 2k-1 and 2k are one text in two spellings of case,   *)
(* 0 is blank.  A blank node is the chain of labels met on the way down    *)
(* from it: its own label (or rdf:first), the one of its nested blank node *)
(* (or of rdf:rest), and so on; a cycle ends the chain where it closes.    *)
(***************************************************************************)
EXTENDS Integers, FiniteSets, Sequences, SequencesExt, StableSort

CONSTANTS Literals,       \* {[text, lang]}
          Iris,           \* texts of IRIs
          Chains,         \* chains of labels of blank nodes, lists among them
          DoiSets         \* the DOIs a PropertyValue node may have as values

ASSUME GraphAssumption ==
  /\ Literals \subseteq [text : Nat, lang : STRING] /\ IsFiniteSet(Literals)
  /\ Iris \subseteq Nat \ {0} /\ IsFiniteSet(Iris)
  /\ Chains \subseteq Seq(Nat) \ {<<>>}
  /\ DoiSets \subseteq SUBSET Nat

Readings == {1, 2}
BnodeDepth == 2           \* _STABLE_BNODE_MAX_DEPTH
FewObjects == 2           \* objects of one predicate

VARIABLES graph,          \* the objects under the http and under the https form of a predicate
          answers         \* what the accessors answered in each reading

gvars == <<graph, answers>>

Lit(l) == [is |-> "lit", text |-> l.text, lang |-> l.lang]
Iri(i) == [is |-> "iri", text |-> i]
Bnode(b, c, list, d) == [is |-> "bnode", id |-> b, chain |-> c, list |-> list, dois |-> d]

Few(S) == {T \in SUBSET S : Cardinality(T) <= FewObjects}

GraphInit ==
  /\ answers = [r \in Readings |-> <<>>]
  /\ \E c \in Chains, d \in Chains, list \in BOOLEAN, dois \in DoiSets, more \in DoiSets :
       LET nodes == {Bnode(1, c, list, dois), Bnode(2, d, list, more)}
           all == {Lit(l) : l \in Literals} \cup {Iri(i) : i \in Iris} \cup nodes
       IN  \E http \in Few(all), https \in Few(all) :
             /\ http # {} /\ (nodes \subseteq http \cup https \/ (c = <<1>> /\ d = <<1>> /\ ~list))
             /\ graph = <<http, https>>

-----------------------------------------------------------------------------
(* _all_objects: predicate by predicate, an object that was seen before is left out. *)
AllObjects(first, second) == first \o Selected(second, {i \in DOMAIN second : second[i] \notin Range(first)})

(* _choose_literal: by language, then the longer text, then the text itself. *)
Rank(lang) == IF lang = "en" THEN 0 ELSE IF lang = "de" THEN 1 ELSE IF lang = "" THEN 2 ELSE 3

\* Bug: only the language decides.
Better_Language(l, m) == Rank(l.lang) < Rank(m.lang)
Better(l, m) == Rank(l.lang) < Rank(m.lang) \/ (Rank(l.lang) = Rank(m.lang) /\ l.text > m.text)

Nothing == [is |-> "none", text |-> 0]
Ranking(os) == {p \in Range(os) \X Range(os) : p[1].is = "lit" /\ p[2].is = "lit" /\ Better(p[1], p[2])}
ChooseLiteral(os) ==
  LET ranked == SortedBy(os, {i \in DOMAIN os : os[i].is = "lit" /\ os[i].text # 0}, Ranking(os))
  IN  IF ranked = <<>> THEN Nothing ELSE Head(ranked)

(* _node_sort_key: IRIs by name, then blank nodes by what is below them down to *)
(* BnodeDepth, and whether there is more; never by their parser's label.        *)
Signature(o) == IF Len(o.chain) <= BnodeDepth + 1 THEN o.chain ELSE Append(SubSeq(o.chain, 1, BnodeDepth + 1), 0)
Smaller(s, t) ==
  \E k \in DOMAIN t : /\ \A j \in 1..(k - 1) : j <= Len(s) /\ s[j] = t[j]
                      /\ k > Len(s) \/ s[k] < t[k]
KeyBefore(o, p) ==
  IF o.is = "iri" THEN p.is # "iri" \/ o.text < p.text
  ELSE p.is = "bnode" /\ Smaller(Signature(o), Signature(p))

Keyed(os) == {p \in Range(os) \X Range(os) : p[1].is # "lit" /\ p[2].is # "lit" /\ KeyBefore(p[1], p[2])}
Resources(os) == SortedBy(os, {i \in DOMAIN os : os[i].is # "lit"}, Keyed(os))

(* object_node and text: a literal is preferred to the first resource. *)
ObjectNode(os) ==
  IF ChooseLiteral(os) # Nothing THEN ChooseLiteral(os)
  ELSE IF Resources(os) # <<>> THEN Head(Resources(os)) ELSE Nothing
TextOf(o) == IF o.is = "bnode" THEN o.chain[1] ELSE o.text

(* literals, texts, dois_from: the least of the spellings of a text, sorted. *)
Fold(t) == (t + 1) \div 2
Distinct(ts) ==
  LET texts == Range(ts) \ {0}
  IN  Ascending({t \in texts : \A u \in texts : Fold(u) = Fold(t) => t <= u})
Texts(os) == Distinct([k \in DOMAIN os |-> TextOf(os[k])])
LiteralTexts(os) == Texts(Selected(os, {i \in DOMAIN os : os[i].is = "lit"}))

(* labelled, as the mappers sort it: by label, each with its IRI or none. *)
Label(o) == <<TextOf(o), IF o.is = "iri" THEN o.text ELSE 0>>
Lettered(os) == {p \in Range(os) \X Range(os) : Smaller(Label(p[1]), Label(p[2]))}
Labelled(os) ==
  LET sorted == SortedBy(os, {i \in DOMAIN os : TextOf(os[i]) # 0}, Lettered(os))
  IN  [k \in DOMAIN sorted |-> Label(sorted[k])]

(* What the mappers show of a resource: its label and the one a level below. *)
Shown(o) == IF o.is = "bnode" /\ Len(o.chain) > 1 THEN SubSeq(o.chain, 1, 2) ELSE <<TextOf(o)>>

(* list_members: list after list in the order of their keys, each in its own order. *)
ListMembers(os) ==
  LET heads == SortedBy(os, {i \in DOMAIN os : os[i].is = "bnode" /\ os[i].list}, Keyed(os))
  IN  FlattenSeq([k \in DOMAIN heads |-> heads[k].chain])

(* doi_from_node: of a PropertyValue, the first value that is a DOI, as the graph yields them. *)
DoisOf(os, first) == Distinct([k \in DOMAIN os |-> IF os[k].is = "bnode" THEN first[os[k].dois] ELSE 0])

-----------------------------------------------------------------------------
Yields == {first \in [DoiSets -> UNION DoiSets \cup {0}] :
             \A d \in DoiSets : IF d = {} THEN first[d] = 0 ELSE first[d] \in d}

Answer(os, first) ==
  [title |-> TextOf(ObjectNode(os)), texts |-> Texts(os), literals |-> LiteralTexts(os),
   resources |-> [k \in DOMAIN Resources(os) |-> Shown(Resources(os)[k])], labelled |-> Labelled(os),
   members |-> ListMembers(os), dois |-> DoisOf(os, first)]

\* One reading: the graph yields the objects of each predicate, and the values below, in any order.
ReadIn(r) ==
  /\ graph # <<>> /\ answers[r] = <<>>
  /\ \E http \in SetToSeqs(graph[1]), https \in SetToSeqs(graph[2]), first \in Yields :
       answers' = [answers EXCEPT ![r] = Answer(AllObjects(http, https), first)]
  /\ UNCHANGED graph

GraphNext == \E r \in Readings : ReadIn(r)

NoGraph == graph = <<>> /\ answers = [r \in Readings |-> <<>>]

-----------------------------------------------------------------------------
(* Whatever order the graph yields its objects in, a title, a list of      *)
(* keywords, the order of the authors and the DOIs come out the same.      *)
OrderFree == answers[1] # <<>> /\ answers[2] # <<>> => answers[1] = answers[2]
=============================================================================
