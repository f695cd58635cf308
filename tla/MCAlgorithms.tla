---------------------------- MODULE MCAlgorithms ----------------------------
(* Records and values small enough to have every conflict the mappers      *)
(* resolve: keys sanitised to one, slugs of nothing, labels that agree.    *)
EXTENDS Algorithms

MCLiterals == {[text |-> 1, lang |-> "en"], [text |-> 2, lang |-> "en"], [text |-> 4, lang |-> ""]}
MCIris == {5}
MCChains == {<<1>>, <<1, 2>>, <<1, 2, 1>>, <<1, 2, 3>>}
MCDoiSets == {{}, {3}}

(* 2 is sanitised to 5; 3 is a catalog id; 1 and 2 are URLs that end in 9. *)
MCKeys == 1..9
MCUnits == {1, 3}
MCCatalogIds == {3}
MCAddresses == {1, 2}
MCTitles == {1, 2}
MCSanitise == [k \in MCKeys |-> IF k = 2 THEN 5 ELSE k]
MCSlug == [t \in MCTitles |-> IF t = 1 THEN 8 ELSE 0]
MCLanding == [u \in MCUnits |-> u + 5]
MCLastSegment == [a \in MCAddresses |-> 9]

Record(own, links, sameAs, doi, title) ==
  [own |-> own, links |-> links, sameAs |-> sameAs, doi |-> doi, title |-> title]
MCDatasets == {Record(0, {}, {}, 0, 1), Record(0, {2, 5}, {}, 0, 1), Record(4, {}, {1}, 0, 1),
               Record(4, {1}, {}, 7, 1), Record(2, {}, {5}, 7, 2), Record(0, {}, {}, 7, 0)}
=============================================================================
