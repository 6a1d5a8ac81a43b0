------------------------- MODULE RuntimeConfigSync -------------------------
(***************************************************************************)
(* Runtime configuration of the fleet (app/runtime_config.py): overrides   *)
(* edited in the admin, a generation counter bumped in the same            *)
(* transaction, and in every pod a sync loop that polls the counter,       *)
(* reloads the overrides into os.environ, and keeps the row of the pod in  *)
(* config_pod_state.  Pods with the admin routes also reload from the      *)
(* thread that serves requests (force_local_reload), and every pod reloads *)
(* once at import (bootstrap_env_overrides).                               *)
(*                                                                         *)
(* A set of overrides is represented by the generation that committed it:  *)
(* Baseline is the deploy-time environment without any override.  NOTIFY   *)
(* only shortens the wait between two polls, whose length is not modelled. *)
(***************************************************************************)
EXTENDS Integers

CONSTANTS Pod,            \* pod names
          AdminPod,       \* the pods that run the admin or all role
          MaxGeneration,  \* bound: edits committed
          MaxStarts,      \* bound: process starts of a pod
          MaxFailures     \* bound: failed iterations of the sync loops

ASSUME SyncAssumption ==
    /\ AdminPod \subseteq Pod
    /\ MaxGeneration \in Nat \ {0}
    /\ MaxStarts \in Nat
    /\ MaxFailures \in Nat

VARIABLES generation,          \* config_state.generation
          rows,                \* config_overrides: the generation that wrote it
          fleet,               \* pods with a row in config_pod_state
          row_generation,      \* config_pod_state.applied_generation
          restart_count,       \* config_pod_state.restart_count
          expired,             \* rows whose heartbeat is older than the TTL
          life,                \* "down", "importing" or "up"
          env,                 \* the overrides applied to os.environ
          meta,                \* the overrides in _OVERRIDES_META
          applied_generation,  \* _applied_generation
          ready,               \* _config_ready
          enrolled,            \* local of run_config_sync_loop
          pc, gen, fetched,    \* a thread in reload_overrides and its locals
          starts,              \* history: process starts
          failures             \* history: failed iterations

dbVars == <<generation, rows>>

fleetVars == <<fleet, row_generation, restart_count, expired>>

podVars == <<env, meta, applied_generation, ready>>

threadVars == <<pc, gen, fetched>>

vars == <<dbVars, fleetVars, life, podVars, enrolled, threadVars, starts, failures>>

Baseline == 0

Unapplied == -1

(* main imports the module and then serves requests; sync is the loop. *)
Thread == {"main", "sync"}

Reloading == {"gen", "rows", "meta", "apply", "mark"}

Label == {"idle", "check", "beat", "reap"} \cup Reloading

Generation == 1 .. MaxGeneration

TypeOK ==
    /\ generation \in Generation /\ rows \in Generation
    /\ fleet \in SUBSET Pod /\ expired \in SUBSET Pod
    /\ row_generation \in [Pod -> Generation \cup {Unapplied}]
    /\ restart_count \in [Pod -> Nat]
    /\ life \in [Pod -> {"down", "importing", "up"}]
    /\ env \in [Pod -> Generation \cup {Baseline}]
    /\ meta \in [Pod -> Generation \cup {Baseline}]
    /\ applied_generation \in [Pod -> Generation \cup {Unapplied}]
    /\ ready \in [Pod -> BOOLEAN] /\ enrolled \in [Pod -> BOOLEAN]
    /\ pc \in [Pod -> [Thread -> Label]]
    /\ gen \in [Pod -> [Thread -> Generation \cup {Baseline}]]
    /\ fetched \in [Pod -> [Thread -> Generation \cup {Baseline}]]
    /\ starts \in [Pod -> Nat] /\ failures \in Nat

(* The schema is applied; no pod has started. *)
Init ==
    /\ generation = 1 /\ rows = 1
    /\ fleet = {} /\ expired = {}
    /\ row_generation = [p \in Pod |-> Unapplied]
    /\ restart_count = [p \in Pod |-> 0]
    /\ life = [p \in Pod |-> "down"]
    /\ env = [p \in Pod |-> Baseline]
    /\ meta = [p \in Pod |-> Baseline]
    /\ applied_generation = [p \in Pod |-> Unapplied]
    /\ ready = [p \in Pod |-> FALSE] /\ enrolled = [p \in Pod |-> FALSE]
    /\ pc = [p \in Pod |-> [t \in Thread |-> "idle"]]
    /\ gen = [p \in Pod |-> [t \in Thread |-> Baseline]]
    /\ fetched = [p \in Pod |-> [t \in Thread |-> Baseline]]
    /\ starts = [p \in Pod |-> 0] /\ failures = 0

Goto(p, t, label) == pc' = [pc EXCEPT ![p][t] = label]

-----------------------------------------------------------------------------
(* The process of a pod. *)

Start(p) ==
    /\ life[p] = "down"
    /\ starts[p] < MaxStarts
    /\ starts' = [starts EXCEPT ![p] = @ + 1]
    /\ life' = [life EXCEPT ![p] = "importing"]
    /\ Goto(p, "main", "gen")
    /\ UNCHANGED <<dbVars, fleetVars, podVars, enrolled, gen, fetched, failures>>

(* The process ends, gracefully or not: its row stays in the fleet. *)
Crash(p) ==
    /\ life[p] # "down"
    /\ life' = [life EXCEPT ![p] = "down"]
    /\ env' = [env EXCEPT ![p] = Baseline]
    /\ meta' = [meta EXCEPT ![p] = Baseline]
    /\ applied_generation' = [applied_generation EXCEPT ![p] = Unapplied]
    /\ ready' = [ready EXCEPT ![p] = FALSE]
    /\ enrolled' = [enrolled EXCEPT ![p] = FALSE]
    /\ pc' = [pc EXCEPT ![p] = [t \in Thread |-> "idle"]]
    /\ gen' = [gen EXCEPT ![p] = [t \in Thread |-> Baseline]]
    /\ fetched' = [fetched EXCEPT ![p] = [t \in Thread |-> Baseline]]
    /\ UNCHANGED <<dbVars, fleetVars, starts, failures>>

-----------------------------------------------------------------------------
(* Requests on an admin pod.  They pass the readiness gate of the          *)
(* middleware, run on the event loop one at a time, and end in             *)
(* force_local_reload.                                                     *)

Serving(p) == life[p] = "up" /\ ready[p]

AdminRequest(p) ==
    /\ p \in AdminPod
    /\ Serving(p)
    /\ pc[p]["main"] = "idle"
    /\ Goto(p, "main", "gen")
    /\ UNCHANGED <<fleetVars, life, podVars, enrolled, gen, fetched, starts, failures>>

(* config_set and config_reset: override, bump_generation and audit are    *)
(* one transaction.                                                        *)
ConfigWrite(p) ==
    /\ AdminRequest(p)
    /\ generation < MaxGeneration
    /\ generation' = generation + 1
    /\ rows' = generation + 1

ConfigList(p) == AdminRequest(p) /\ UNCHANGED dbVars

-----------------------------------------------------------------------------
(* reload_overrides, by thread t of p, on an autocommit connection. *)

ReadGeneration(p, t) ==
    /\ pc[p][t] = "gen"
    /\ gen' = [gen EXCEPT ![p][t] = generation]
    /\ Goto(p, t, "rows")
    /\ UNCHANGED <<dbVars, fleetVars, life, podVars, enrolled, fetched, starts, failures>>

ReadRows(p, t) ==
    /\ pc[p][t] = "rows"
    /\ fetched' = [fetched EXCEPT ![p][t] = rows]
    /\ Goto(p, t, "meta")
    /\ UNCHANGED <<dbVars, fleetVars, life, podVars, enrolled, gen, starts, failures>>

SetMeta(p, t) ==
    /\ pc[p][t] = "meta"
    /\ meta' = [meta EXCEPT ![p] = fetched[p][t]]
    /\ Goto(p, t, "apply")
    /\ UNCHANGED <<dbVars, fleetVars, life, env, applied_generation, ready, enrolled,
                   gen, fetched, starts, failures>>

(* apply_state holds _LOCK for the assignments only. *)
ApplyState(p, t) ==
    /\ pc[p][t] = "apply"
    /\ env' = [env EXCEPT ![p] = fetched[p][t]]
    /\ Goto(p, t, "mark")
    /\ UNCHANGED <<dbVars, fleetVars, life, meta, applied_generation, ready, enrolled,
                   gen, fetched, starts, failures>>

(* Where a thread goes when its reload returns or raises.  The end of the  *)
(* import starts the sync loop.                                            *)
Resume(p, t, next) ==
    /\ gen' = [gen EXCEPT ![p][t] = Baseline]
    /\ fetched' = [fetched EXCEPT ![p][t] = Baseline]
    /\ life' = [life EXCEPT ![p] = "up"]
    /\ pc' = IF life[p] = "importing"
             THEN [pc EXCEPT ![p] = [main |-> "idle", sync |-> "check"]]
             ELSE [pc EXCEPT ![p][t] = next]

(* Mutant: the generation is read again after the rows. *)
MarkApplied_reread(p, t) ==
    /\ pc[p][t] = "mark"
    /\ applied_generation' = [applied_generation EXCEPT ![p] = generation]
    /\ ready' = [ready EXCEPT ![p] = TRUE]
    /\ Resume(p, t, IF t = "sync" THEN "beat" ELSE "idle")
    /\ UNCHANGED <<dbVars, fleetVars, env, meta, enrolled, starts, failures>>

MarkApplied(p, t) ==
    /\ pc[p][t] = "mark"
    /\ applied_generation' = [applied_generation EXCEPT ![p] = gen[p][t]]
    /\ ready' = [ready EXCEPT ![p] = TRUE]
    /\ Resume(p, t, IF t = "sync" THEN "beat" ELSE "idle")
    /\ UNCHANGED <<dbVars, fleetVars, env, meta, enrolled, starts, failures>>

ReloadStep(p, t) ==
    ReadGeneration(p, t) \/ ReadRows(p, t) \/ SetMeta(p, t) \/ ApplyState(p, t)
    \/ MarkApplied(p, t)

(* A database error in force_local_reload or at import is swallowed. *)
MainReloadFails(p) ==
    /\ pc[p]["main"] \in {"gen", "rows"}
    /\ Resume(p, "main", "idle")
    /\ UNCHANGED <<dbVars, fleetVars, podVars, enrolled, starts, failures>>

-----------------------------------------------------------------------------
(* run_config_sync_loop *)

(* Mutant: the loop reloads until the pod is ready and never again. *)
SyncCheck_once(p) ==
    /\ pc[p]["sync"] = "check"
    /\ Goto(p, "sync", IF ready[p] THEN "beat" ELSE "gen")
    /\ UNCHANGED <<dbVars, fleetVars, life, podVars, enrolled, gen, fetched, starts, failures>>

SyncCheck(p) ==
    /\ pc[p]["sync"] = "check"
    /\ Goto(p, "sync", IF generation # applied_generation[p] THEN "gen" ELSE "beat")
    /\ UNCHANGED <<dbVars, fleetVars, life, podVars, enrolled, gen, fetched, starts, failures>>

(* Mutant: a heartbeat whose UPDATE matches no row does not enroll. *)
Beat_lost(p) ==
    /\ pc[p]["sync"] = "beat"
    /\ fleet' = IF enrolled[p] THEN fleet ELSE fleet \cup {p}
    /\ row_generation' = [row_generation EXCEPT ![p] = applied_generation[p]]
    /\ expired' = expired \ {p}
    /\ enrolled' = [enrolled EXCEPT ![p] = TRUE]
    /\ Goto(p, "sync", IF p \in AdminPod THEN "reap" ELSE "check")
    /\ UNCHANGED <<restart_count, dbVars, life, podVars, gen, fetched, starts, failures>>

(* enroll upserts the row; heartbeat updates it and enrolls when it is gone. *)
Beat(p) ==
    /\ pc[p]["sync"] = "beat"
    /\ restart_count' = [restart_count EXCEPT ![p] =
                            IF p \notin fleet THEN 0
                            ELSE IF enrolled[p] THEN @ ELSE @ + 1]
    /\ fleet' = fleet \cup {p}
    /\ row_generation' = [row_generation EXCEPT ![p] = applied_generation[p]]
    /\ expired' = expired \ {p}
    /\ enrolled' = [enrolled EXCEPT ![p] = TRUE]
    /\ Goto(p, "sync", IF p \in AdminPod THEN "reap" ELSE "check")
    /\ UNCHANGED <<dbVars, life, podVars, gen, fetched, starts, failures>>

(* reap_stale_pods, at most once a minute. *)
Reap(p) ==
    /\ pc[p]["sync"] = "reap"
    /\ fleet' = fleet \ expired
    /\ expired' = {}
    /\ Goto(p, "sync", "check")
    /\ UNCHANGED <<dbVars, row_generation, restart_count, life, podVars, enrolled,
                   gen, fetched, starts, failures>>

ReapNotYet(p) ==
    /\ pc[p]["sync"] = "reap"
    /\ Goto(p, "sync", "check")
    /\ UNCHANGED <<dbVars, fleetVars, life, podVars, enrolled, gen, fetched, starts, failures>>

(* Mutant: a database error falls back to the deploy-time environment. *)
SyncFails_baseline(p) ==
    /\ pc[p]["sync"] \in {"check", "gen", "rows", "beat", "reap"}
    /\ failures < MaxFailures
    /\ failures' = failures + 1
    /\ enrolled' = [enrolled EXCEPT ![p] = FALSE]
    /\ env' = [env EXCEPT ![p] = Baseline]
    /\ Resume(p, "sync", "check")
    /\ UNCHANGED <<dbVars, fleetVars, meta, applied_generation, ready, starts>>

(* A database error in the loop: reconnect and enroll again. *)
SyncFails(p) ==
    /\ pc[p]["sync"] \in {"check", "gen", "rows", "beat", "reap"}
    /\ failures < MaxFailures
    /\ failures' = failures + 1
    /\ enrolled' = [enrolled EXCEPT ![p] = FALSE]
    /\ Resume(p, "sync", "check")
    /\ UNCHANGED <<dbVars, fleetVars, podVars, starts>>

(* Nothing was written to the row of p for the whole TTL. *)
HeartbeatAges(p) ==
    /\ p \in fleet \ expired
    /\ expired' = expired \cup {p}
    /\ UNCHANGED <<dbVars, fleet, row_generation, restart_count, life, podVars, enrolled,
                   threadVars, starts, failures>>

-----------------------------------------------------------------------------
SyncStep(p) ==
    SyncCheck(p) \/ ReloadStep(p, "sync") \/ Beat(p) \/ Reap(p) \/ ReapNotYet(p)

Next ==
    \E p \in Pod :
        \/ Start(p) \/ Crash(p)
        \/ ConfigWrite(p) \/ ConfigList(p)
        \/ ReloadStep(p, "main") \/ MainReloadFails(p)
        \/ SyncStep(p) \/ SyncFails(p) \/ HeartbeatAges(p)

Spec == Init /\ [][Next]_vars

(* Threads of a live process keep running, a minute eventually passes      *)
(* between two reaps, and silent rows age; nobody has to start a pod or to *)
(* edit the configuration.                                                 *)
Fairness ==
    \A p \in Pod : /\ WF_vars(SyncStep(p))
                   /\ WF_vars(ReloadStep(p, "main"))
                   /\ SF_vars(Reap(p))
                   /\ WF_vars(HeartbeatAges(p))

FairSpec == Spec /\ Fairness

-----------------------------------------------------------------------------
(* Properties. *)

(* api, worker and llm pods reload from one thread at a time. *)
SolePod == Pod \ AdminPod

(* A pod never serves a request on the bare environment: once the gate is  *)
(* open its overrides have been applied, across failed imports and         *)
(* restarts.                                                               *)
ServesLoadedConfig ==
    \A p \in Pod : ready[p] => env[p] # Baseline /\ applied_generation[p] # Unapplied

(* _applied_generation never runs ahead of os.environ on a pod with one    *)
(* reloading thread, so the poll cannot miss an edit that commits between  *)
(* the two SELECTs of reload_overrides; and what the propagation page says *)
(* of such a pod while it is enrolled is true.                             *)
FleetIsHonest ==
    \A p \in SolePod :
        /\ applied_generation[p] <= env[p]
        /\ enrolled[p] /\ p \in fleet => row_generation[p] <= env[p]

(* While such a pod runs, an edit is never undone by an older reload, and  *)
(* the admin view never shows more than one reload ahead of os.environ.    *)
EnvNeverGoesBack ==
    [][\A p \in SolePod :
           life[p] # "down" /\ life'[p] # "down" =>
               env[p] <= env'[p] /\ env'[p] <= meta'[p]]_vars

(* A running pod with one reloading thread catches up with the edits:      *)
(* again and again its environment is the latest generation.               *)
EditsReachSolePods ==
    \A p \in SolePod : []<>(life[p] = "up" => env[p] = generation)

(* A running pod is in the fleet again after its row was reaped, and the   *)
(* row of a pod that is gone is reaped while some admin pod stays up.      *)
FleetFollowsPods ==
    \A p \in Pod :
        /\ []<>(life[p] = "up" => p \in fleet)
        /\ []<>(life[p] = "down" /\ (\E a \in AdminPod : life[a] = "up") => p \notin fleet)

(* "Les cles sans badge redemarrage requis prennent effet en quelques      *)
(* secondes sur tous les pods": every running pod catches up.              *)
EditsReachAllPods ==
    \A p \in Pod : []<>(life[p] = "up" => env[p] = generation)

(* The restarts the fleet page shows of a pod are restarts of its process  *)
(* or iterations of a sync loop that failed, after which it enrolls anew:  *)
(* heartbeats, reaping and coming back after it never add one.             *)
RestartsExplained ==
    \A p \in fleet : restart_count[p] < starts[p] + failures
=============================================================================
