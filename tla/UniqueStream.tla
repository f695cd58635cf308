---------------------------- MODULE UniqueStream ----------------------------
(***************************************************************************)
(* What Protocol.discover() promises the plugin that iterates over it      *)
(* (generic/protocol/protocol.py): an identifier is handed out at most     *)
(* once, a skip names an identifier handed out before, and the stream says *)
(* nothing more after it has ended or failed.  How the records are found   *)
(* is left open.                                                           *)
(***************************************************************************)
EXTENDS Naturals

CONSTANT Ids            \* the identifiers a repository may list

VARIABLES handed,       \* how often each identifier was handed out
          result,       \* the last thing the stream yielded
          status        \* "running", "ended" or "failed"

uvars == <<handed, result, status>>

Init == /\ handed = [i \in Ids |-> 0]
        /\ result = <<"none", 0>>
        /\ status = "running"

Hand(i) == /\ status = "running"
           /\ handed[i] = 0
           /\ handed' = [handed EXCEPT ![i] = 1]
           /\ result' = <<"found", i>>
           /\ UNCHANGED status

Skip(i) == /\ status = "running"
           /\ handed[i] = 1
           /\ result' = <<"skipped", i>>
           /\ UNCHANGED <<handed, status>>

Error == /\ status = "running"
         /\ result' = <<"error", 0>>
         /\ UNCHANGED <<handed, status>>

Stop == /\ status = "running"
        /\ status' \in {"ended", "failed"}
        /\ UNCHANGED <<handed, result>>

Next == (\E i \in Ids : Hand(i) \/ Skip(i)) \/ Error \/ Stop

Spec == Init /\ [][Next]_uvars
=============================================================================
