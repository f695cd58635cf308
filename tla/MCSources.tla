------------------------------ MODULE MCSources ------------------------------
(* One repository, harvested with the plugin its configuration names, on small instances. *)
EXTENDS Sources

CONSTANTS u1, u2, u3

MCUrls == {u1, u2, u3}

\* Up to three entries, also repeated ones and ones without identifier.
MCListings == UNION {[1 .. n -> Ids \cup {Blank}] : n \in 0 .. 3}

Broken == [kind |-> "broken"]
Urlsets == [kind : {"urlset"}, locs : {<<>>, <<1>>, <<2, 1>>, <<Blank, 3>>}]
Indexes == [kind : {"index"}, locs : {<<u2>>, <<u2, u3>>, <<u3, u1>>, <<u3, Blank, u2>>}]
Pages == [kind : {"page"}, locs : {<<>>, <<1>>, <<2, 3>>}, next : MCUrls \cup {NoUrl}]

\* Every sitemap tree and every catalogue, with loops; cursor servers have none.
MCSites == [MCUrls -> Urlsets \cup Indexes \cup {Broken}] \cup [MCUrls -> Pages \cup {Broken}]

\* Up to two sets of up to two items.
Items == UNION {[1 .. n -> {"record", "deleted", "broken", "response"}] : n \in 0 .. 2}
MCBatches == UNION {[1 .. n -> Items] : n \in 1 .. 2}
=============================================================================
