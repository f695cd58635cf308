------------------------------- MODULE Sources -------------------------------
(***************************************************************************)
(* One repository and the plugin that _create_plugin builds for it         *)
(* (harvester/orchestrator.py): the generic plugin with one of its         *)
(* protocols, or a plugin that lists everything first.                     *)
(***************************************************************************)
EXTENDS Discovery, BatchPlugins

svars == <<vars, bvars>>

\* The plugin that is not configured stays as it is.
DiscoveryIdle ==
  /\ protocol = "xml" /\ honest = TRUE /\ limit = PageSize /\ listing = <<>>
  /\ site = [u \in Urls |-> [kind |-> "broken"]] /\ todo = <<>> /\ visited = {} /\ seen = {}
  /\ handed = [i \in Ids |-> 0] /\ result = <<"none", 0>> /\ phase = "running"
  /\ changes = 0 /\ steady = {} /\ shifted = FALSE
BatchIdle ==
  /\ plugin = "generic" /\ batch = <<>> /\ thread = "over" /\ scope = 1 /\ place = 0
  /\ since = Interval /\ units = <<>> /\ run = "closed" /\ answers = <<>>

SourcesInit == \/ Init /\ BatchIdle
               \/ BatchInit /\ DiscoveryIdle

SourcesStep == \/ plugin = "generic" /\ Step /\ UNCHANGED bvars
               \/ plugin # "generic" /\ BatchStep /\ UNCHANGED vars

SourcesNext == \/ SourcesStep
               \/ plugin = "generic" /\ (Removed \/ Added) /\ UNCHANGED bvars
               \/ Leave /\ UNCHANGED vars

\* The upload pulls, requests have timeouts and scythe's retries are counted.
SourcesSpec == SourcesInit /\ [][SourcesNext]_svars /\ WF_svars(SourcesStep)

(* Every plugin comes to an end of its listing, also on sitemaps and catalogue pages that name
   each other, unless a server ignores after_id or from and always answers with a full page
   (xml.py 52, dcat_ap.py 93, mycore_rest.py 102, regal_find.py 83); and a thread that the
   upload has left behind ends too (oai_pmh/plugin.py 146). *)
SourceEnds ==
  (honest \/ protocol \notin {"mycore_rest", "regal_find"})
    ~> IF plugin = "generic" THEN phase # "running"
       ELSE thread \in {"over", "raised"} /\ run \notin {"listing", "processing"}
=============================================================================
