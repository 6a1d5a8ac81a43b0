----------------------------- MODULE MCRollout -----------------------------
(***************************************************************************)
(* A device that is not in the canary, and a second plugin that it does    *)
(* not run and whose campaign is for newer hosts.  Hours are scaled down:  *)
(* a canary of one hour.                                                   *)
(***************************************************************************)
EXTENDS Rollout, TLC

CONSTANTS d1, p, q, k, j

MCPluginOf == [d \in Device |-> p]
MCHost == [d \in Device |-> 1]
MCRank == [d \in Device |-> 40]
MCPercentile == [d \in Device |-> 20]
MCFirstVersion == [d \in Device |-> 1]

MCFirstCohorts ==
  k :> [type |-> "manual", members |-> {}, percent |-> 0]
  @@ j :> [type |-> "absent", members |-> {}, percent |-> 0]

Canary == << [percent |-> 5, hours |-> 1], [percent |-> 100, hours |-> 0] >>

Plan(path, of, version) ==
  [path |-> path, of |-> of, version |-> version, rollback |-> 0, target |-> "all",
   cohort |-> k, members |-> {}, stages |-> <<>>, hosts |-> {1, 2}, start |-> "active"]

MCPlans ==
  "form" :> [Plan("form", p, 2) EXCEPT !.rollback = 1]
  @@ "wizard" :> [Plan("wizard", p, 2) EXCEPT !.target = "percent", !.cohort = j]
  @@ "upload" :> [Plan("upload", p, 2) EXCEPT !.stages = Canary]
  @@ "api" :> [Plan("api", q, 3) EXCEPT !.target = "existing", !.hosts = {2}]
  @@ "deploy" :> Plan("deploy", p, 3)
=============================================================================
