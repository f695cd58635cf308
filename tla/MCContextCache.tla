---------------------------- MODULE MCContextCache ----------------------------
(* Instances of ContextCache for TLC. *)
EXTENDS ContextCache

CONSTANTS a, b, c, d, p, q

\* a and b include each other; c includes d, a JSON null.  The parse p meets d
\* by itself and again inside c, which it shares with q; q then enters the cycle.
MixedRefs == (a :> <<b>>) @@ (b :> <<a>>) @@ (c :> <<d>>) @@ (d :> <<>>)
MixedPayload == (p :> <<d, c>>) @@ (q :> <<c, b>>)

=============================================================================
