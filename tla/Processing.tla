------------------------------ MODULE Processing ------------------------------
(***************************************************************************)
(* What becomes of one discovered record in the three plugins: the parser, *)
(* the kind of payload the mapper accepts, the mapper                      *)
(* (generic/plugin.py, oai_pmh/plugin.py, inspire/plugin.py).              *)
(***************************************************************************)
EXTENDS Naturals, Sequences

CONSTANT MaxArcs        \* bound on the ARCs a mapper makes of one record

\* How parsing and mapping end: well, with an exception the plugin expects (its own errors,
\* RuntimeError, ValueError, OSError; httpx.HTTPError while parsing), or with another one.
Ends == {"well", "expected", "unexpected"}

\* A verdict on one record: parser, kinds that fit, mapper and what it makes, hierarchy level.
Verdicts == [parse : Ends, fits : BOOLEAN, map : Ends, arcs : 0 .. MaxArcs, harvestable : BOOLEAN]

Arcs(n) == [k \in 1 .. n |-> "arc"]
OneError == <<"error">>
Raised == <<"raised">>

Failure(end) == IF end = "expected" THEN OneError ELSE Raised

\* The parsing plugins; mapped is what they make of a mapper that returns. In the generic
\* plugin it is Arcs(v.arcs): a record the mapper makes nothing of leaves no trace. (What its
\* workers return is a choice in Pipeline.)
Parsed(v, mapped) == IF v.parse # "well" THEN Failure(v.parse)
                     ELSE IF ~v.fits THEN OneError
                     ELSE IF v.map # "well" THEN Failure(v.map)
                     ELSE mapped

\* Bug: what the mapper made is passed on, nothing too.
OrError_Silent(n) == Arcs(n)

\* In the other plugins a mapper that makes nothing is an error.
OrError(n) == IF n = 0 THEN OneError ELSE Arcs(n)

OaiOutcomes(v) == Parsed(v, OrError(v.arcs))
InspireOutcomes(v) == IF ~v.harvestable THEN <<"skipped">>
                      ELSE IF v.map # "well" THEN OneError ELSE OrError(v.arcs)
=============================================================================
