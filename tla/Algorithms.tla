----------------------------- MODULE Algorithms -----------------------------
(***************************************************************************)
(* What a record and a configuration go through outside the concurrent     *)
(* part of the harvester: reading the graph, contacts, identifiers,        *)
(* tables, comments, the configuration of a repository, and the heartbeat. *)
(* The parts share nothing, so each behaviour is one of one part.          *)
(***************************************************************************)
EXTENDS StableGraph, Contacts, Records, Tables, Comments, Configuration, Heartbeat

NoneBut(part) ==
  /\ part # "graph" => NoGraph
  /\ part # "contacts" => NoContacts
  /\ part # "records" => NoRecords
  /\ part # "tables" => NoTables
  /\ part # "comments" => NoComments
  /\ part # "configuration" => NoConfiguration
  /\ part # "heartbeat" => NoHeartbeat

AlgorithmsInit ==
  \/ GraphInit /\ NoneBut("graph")
  \/ ContactsInit /\ NoneBut("contacts")
  \/ RecordsInit /\ NoneBut("records")
  \/ TablesInit /\ NoneBut("tables")
  \/ CommentsInit /\ NoneBut("comments")
  \/ ConfigurationInit /\ NoneBut("configuration")
  \/ HeartbeatInit /\ NoneBut("heartbeat")

AlgorithmsNext ==
  \/ GraphNext /\ UNCHANGED <<cvars, rvars, tvars, mvars, configvars, hvars>>
  \/ ContactsNext /\ UNCHANGED <<gvars, rvars, tvars, mvars, configvars, hvars>>
  \/ RecordsNext /\ UNCHANGED <<gvars, cvars, tvars, mvars, configvars, hvars>>
  \/ TablesNext /\ UNCHANGED <<gvars, cvars, rvars, mvars, configvars, hvars>>
  \/ CommentsNext /\ UNCHANGED <<gvars, cvars, rvars, tvars, configvars, hvars>>
  \/ ConfigurationNext /\ UNCHANGED <<gvars, cvars, rvars, tvars, mvars, hvars>>
  \/ HeartbeatNext /\ UNCHANGED <<gvars, cvars, rvars, tvars, mvars, configvars>>

vars == <<gvars, cvars, rvars, tvars, mvars, configvars, hvars>>

AlgorithmsSpec == AlgorithmsInit /\ [][AlgorithmsNext]_vars
=============================================================================
