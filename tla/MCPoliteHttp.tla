----------------------------- MODULE MCPoliteHttp -----------------------------
(* Instances of PoliteHttp for TLC. *)
EXTENDS PoliteHttp, TLC

CONSTANTS site, p, q, r

OneHost == [t \in Tasks |-> site]
SlowSite == (site :> 3)

\* No advice, one shorter and one longer than the cap, and a date.
Headers == {[after |-> 0, date |-> FALSE], [after |-> 1, date |-> FALSE],
            [after |-> 9, date |-> FALSE], [after |-> 2, date |-> TRUE]}

=============================================================================
