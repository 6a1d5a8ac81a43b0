------------------------------ MODULE LlmProxy ------------------------------
(***************************************************************************)
(* The OpenAI-compatible proxy (src/app/llm) of a fleet of API pods: the   *)
(* three routes from authentication to the end of the answer, the shared   *)
(* per-user quota of PostgreSQL, the pool of upstream connections, the     *)
(* gauge of active requests, and the traffic counters each pod accumulates *)
(* in memory and flushes into llm_traffic.                                 *)
(*                                                                         *)
(* A step of a request is what the handler does between two awaits.  What  *)
(* a client sends and what a backend answers is a choice of the action     *)
(* that first depends on it; the validity of a credential is               *)
(* RelayCredentials' subject.  A traffic key is its time bucket; route,    *)
(* model and status class only multiply the keys, and durations and token  *)
(* sums add up like the count.                                             *)
(***************************************************************************)
EXTENDS Integers, FiniteSets, FiniteSetsExt

CONSTANTS
  Pod, User,
  MaxRequests,    \* bound on the requests
  Senders,        \* the users each of them can come from
  Model,          \* model names a payload can carry; "" is none
  Config,         \* the settings a pod can be running with
  FirstConfig,    \* the one every pod starts with
  MaxConns,       \* httpx max_connections
  MaxPendingKeys, \* MAX_PENDING_KEYS
  BucketTicks,    \* BUCKET_SECONDS, in clock ticks
  Retention,      \* the quota purge's hour, in clock ticks
  MaxTime,        \* bound on the clock
  MaxUpsets       \* bound on reloads, failures and restarts together

ASSUME BoundsAssumption ==
  /\ MaxConns \in Nat \ {0} /\ MaxPendingKeys \in Nat \ {0}
  /\ BucketTicks \in Nat \ {0} /\ Retention \in Nat
  /\ MaxTime \in Nat /\ MaxUpsets \in Nat /\ MaxRequests \in Nat
  /\ Senders \in [1 .. MaxRequests -> SUBSET User]

ASSUME FleetAssumption == IsFiniteSet(Pod) /\ Pod # {} /\ User # {}

\* _quota_limit gives an int (none or an unreadable one is 0) and
\* _quota_window_seconds at least ten seconds.
ASSUME SettingsAssumption ==
  /\ FirstConfig \in Config
  /\ \A c \in Config : c.limit \in Int /\ c.window \in Nat \ {0}

VARIABLES
  now,      \* the clock
  cfg,      \* the settings each pod has loaded (runtime_config)
  req,      \* the requests
  active,   \* dm_llm_active_requests, per pod
  conns,    \* upstream connections a pod holds
  counters, \* llm_quota_counters: per user and window start
  acc,      \* _acc of each pod; 0 is an absent key
  pending,  \* what the running flush of a pod swapped out of _acc
  wrote,    \* the keys of pending already upserted
  flushing, \* whether flush_now runs
  traffic,  \* llm_traffic
  partly,   \* whether a flush failed after it had written a row
  short,    \* whether an accumulator overflowed or went with its pod
  upsets

vars == <<now, cfg, req, active, conns, counters, acc, pending, wrote, flushing,
          traffic, partly, short, upsets>>

Request == 1 .. MaxRequests   \* in the order of their arrival
Route == {"models", "chat", "embeddings"}
Key == 0 .. MaxTime \div BucketTicks
NoKey == -1
NoQuota == [start |-> -1, len |-> 0, limit |-> 0, verdict |-> "none"]
Phase == {"idle", "auth", "body", "throttle", "send", "upstream", "ready",
          "streaming", "done", "abandoned", "lost"}

Blank == [phase |-> "idle", pod |-> CHOOSE p \in Pod : TRUE, route |-> "models",
          user |-> CHOOSE u \in User : TRUE, limit |-> 0, window |-> 1, guards |-> {},
          quota |-> NoQuota, key |-> NoKey]

Init ==
  /\ now = 0
  /\ cfg = [p \in Pod |-> FirstConfig]
  /\ req = [r \in Request |-> Blank]
  /\ active = [p \in Pod |-> 0]
  /\ conns = [p \in Pod |-> 0]
  /\ counters = [u \in User |-> [t \in 0 .. MaxTime |-> 0]]
  /\ acc = [p \in Pod |-> [k \in Key |-> 0]]
  /\ pending = [p \in Pod |-> [k \in Key |-> 0]]
  /\ wrote = [p \in Pod |-> {}]
  /\ flushing = [p \in Pod |-> FALSE]
  /\ traffic = [k \in Key |-> 0]
  /\ partly = FALSE
  /\ short = FALSE
  /\ upsets = 0

-----------------------------------------------------------------------------
(* The accumulator of a pod and the end of a request.                      *)

Keys(bag) == {k \in Key : bag[k] > 0}
Oldest(bag) == Min(Keys(bag))

Overflows(bag, k) == bag[k] = 0 /\ Cardinality(Keys(bag)) >= MaxPendingKeys

(* Mutant: no cap. *)
Recorded_uncapped(bag, k) == [bag EXCEPT ![k] = @ + 1]

\* One request more under k; a new key beyond the cap evicts the oldest.
Recorded(bag, k) ==
  IF Overflows(bag, k) THEN [bag EXCEPT ![Oldest(bag)] = 0, ![k] = 1]
  ELSE [bag EXCEPT ![k] = @ + 1]

\* What is left of a request that ended: whom it counted for, and where.
Over(rec, k) ==
  [Blank EXCEPT !.phase = "done", !.user = rec.user, !.quota = rec.quota, !.key = k]

(* Mutant: the gauge is only lowered for requests that did not fail. *)
Finalize_errors(r, rec, status, freed) ==
  LET p == rec.pod
      k == now \div BucketTicks
  IN /\ req' = [req EXCEPT ![r] = Over(rec, k)]
     /\ active' = [active EXCEPT ![p] = IF status < 500 THEN @ - 1 ELSE @]
     /\ conns' = [conns EXCEPT ![p] = @ - freed]
     /\ acc' = [acc EXCEPT ![p] = Recorded(@, k)]
     /\ short' = (short \/ Overflows(acc[p], k))

\* finalize, once per request: the gauge, the traffic record; freed says
\* whether the upstream response is closed with it.
Finalize(r, rec, status, freed) ==
  LET p == rec.pod
      k == now \div BucketTicks
  IN /\ req' = [req EXCEPT ![r] = Over(rec, k)]
     /\ active' = [active EXCEPT ![p] = @ - 1]
     /\ conns' = [conns EXCEPT ![p] = @ - freed]
     /\ acc' = [acc EXCEPT ![p] = Recorded(@, k)]
     /\ short' = (short \/ Overflows(acc[p], k))

Goes(r, rec, phase) ==
  /\ req' = [req EXCEPT ![r] = [rec EXCEPT !.phase = phase]]
  /\ UNCHANGED <<active, conns, acc, short>>

-----------------------------------------------------------------------------
(* What the settings decide.                                               *)

\* The first pattern of the model map that matches and names a configured
\* backend, else the default one; "" is none.
Backend(c, model) ==
  LET fits == {i \in DOMAIN c.map : model \in c.map[i].models /\ c.map[i].name \in c.backends}
  IN IF fits # {} THEN c.map[Min(fits)].name
     ELSE IF "default" \in c.backends THEN "default" ELSE ""

\* A payload or a route without a model name.
NoModel == ""

\* The status _resolve_backend refuses with; 0 lets the request through.
BackendRefusal(c, model) ==
  LET b == Backend(c, model)
  IN IF b = "" THEN (IF model # NoModel THEN 404 ELSE 503)
     ELSE IF b \in c.loops THEN 508 ELSE 0

\* The guardrails are asked in the order of the setting: noop allows, unknown
\* names are dropped, deny_all refuses requests and answers alike.
Denied(guards) == "deny_all" \in guards

\* The guardrails the request's pipeline was built with, then the backend of
\* the settings as they are now (/models names no model).
Dispatch(r, rec) ==
  \E m \in IF rec.route = "models" THEN {NoModel} ELSE Model :
    LET s == IF Denied(rec.guards) THEN 403
             ELSE BackendRefusal(cfg[rec.pod], m)
    IN IF s = 0 THEN Goes(r, [rec EXCEPT !.limit = 0, !.window = 1], "send")
       ELSE Finalize(r, rec, s, 0)

-----------------------------------------------------------------------------
(* A request.                                                              *)

Rest == <<now, cfg, pending, wrote, flushing, traffic, partly>>

\* A client calls a route of a pod: _make_finalize raises the gauge.
Arrive(r) ==
  /\ req[r].phase = "idle" /\ \A s \in 1 .. r - 1 : req[s].phase # "idle"
  /\ \E p \in Pod, route \in Route, u \in Senders[r] :
       /\ req' = [req EXCEPT ![r] = [Blank EXCEPT
                    !.phase = "auth", !.pod = p, !.route = route, !.user = u]]
       /\ active' = [active EXCEPT ![p] = @ + 1]
  /\ UNCHANGED <<Rest, conns, counters, acc, short, upsets>>

\* Relay headers or a bearer token: 401 when refused, 500 when the database
\* cannot be reached.  /models goes straight to the backend.
Authenticate(r) ==
  /\ req[r].phase = "auth"
  /\ \/ \E s \in {401, 500} : Finalize(r, req[r], s, 0)
     \/ IF req[r].route = "models" THEN Dispatch(r, req[r]) ELSE Goes(r, req[r], "body")
  /\ UNCHANGED <<Rest, counters, upsets>>

\* The body: 500 when the client leaves while sending it, 413, 400; else the
\* pipeline is built from the settings and throttled when they set a quota.
ReadBody(r) ==
  LET c == cfg[req[r].pod]
      rec == [req[r] EXCEPT !.limit = c.limit, !.window = c.window, !.guards = c.guards]
  IN /\ req[r].phase = "body"
     /\ \/ \E s \in {400, 413, 500} : Finalize(r, req[r], s, 0)
        \/ IF c.limit > 0 THEN Goes(r, rec, "throttle") ELSE Dispatch(r, rec)
     /\ UNCHANGED <<Rest, counters, upsets>>

WindowStart(window) == (now \div window) * window

(* Mutant: the purge's comparison is turned around. *)
Purged_newer(rows) ==
  [u \in User |-> [t \in 0 .. MaxTime |-> IF t > now - Retention THEN 0 ELSE rows[u][t]]]

\* The rows a purge leaves: window_start < now() - interval '1 hour' goes.
Purged(rows) ==
  [u \in User |-> [t \in 0 .. MaxTime |-> IF t < now - Retention THEN 0 ELSE rows[u][t]]]

Incremented(user, start) == [counters EXCEPT ![user][start] = @ + 1]

Judged(r, verdict) ==
  [req[r] EXCEPT !.quota = [start |-> WindowStart(req[r].window), len |-> req[r].window,
                            limit |-> req[r].limit, verdict |-> verdict]]

\* One UPSERT on the row of the user and the window, then at most once a
\* minute and per pod the purge.
Throttle(r) ==
  LET start == WindowStart(req[r].window)
      ok == counters[req[r].user][start] + 1 <= req[r].limit
      rec == Judged(r, IF ok THEN "allowed" ELSE "denied")
      rows == Incremented(req[r].user, start)
  IN /\ req[r].phase = "throttle"
     /\ \E purge \in BOOLEAN : counters' = IF purge THEN Purged(rows) ELSE rows
     /\ IF ok THEN Dispatch(r, rec) ELSE Finalize(r, rec, 429, 0)
     /\ UNCHANGED <<Rest, upsets>>

\* The store fails before or after its UPSERT: the request goes on.
ThrottleFails(r) ==
  /\ req[r].phase = "throttle"
  /\ upsets < MaxUpsets
  /\ upsets' = upsets + 1
  /\ counters' \in {counters, Incremented(req[r].user, WindowStart(req[r].window))}
  /\ Dispatch(r, Judged(r, "open"))
  /\ UNCHANGED Rest

\* A connection of the pool is taken.
Send(r) ==
  /\ req[r].phase = "send"
  /\ conns[req[r].pod] < MaxConns
  /\ conns' = [conns EXCEPT ![req[r].pod] = @ + 1]
  /\ req' = [req EXCEPT ![r].phase = "upstream"]
  /\ UNCHANGED <<Rest, active, counters, acc, short, upsets>>

(* Mutant: no pool timeout. *)
PoolTimeout_none(r) ==
  /\ FALSE
  /\ UNCHANGED vars

\* Ten seconds without a free connection: 504.
PoolTimeout(r) ==
  /\ req[r].phase = "send"
  /\ conns[req[r].pod] >= MaxConns
  /\ Finalize(r, req[r], 504, 0)
  /\ UNCHANGED <<Rest, counters, upsets>>

\* The upstream call ends: a transport error (502, 504), an error of the
\* backend passed through (422, 503 stand for its classes), an answer that is
\* no JSON (502), a whole answer, or the head of a stream.
Upstream(r) ==
  /\ req[r].phase = "upstream"
  /\ \/ \E s \in {422, 502, 503, 504} : Finalize(r, req[r], s, 1)
     \/ Finalize(r, req[r], IF Denied(req[r].guards) THEN 403 ELSE 200, 1)
     \/ req[r].route = "chat" /\ Goes(r, req[r], "ready")
  /\ UNCHANGED <<Rest, counters, upsets>>

\* The answer starts: body_iterator takes its first step.
StreamStart(r) ==
  /\ req[r].phase = "ready"
  /\ Goes(r, req[r], "streaming")
  /\ UNCHANGED <<Rest, counters, upsets>>

\* The client is gone before that step: the generator never runs, so neither
\* does its finally.
Abandon(r) ==
  /\ req[r].phase = "ready"
  /\ upsets < MaxUpsets
  /\ upsets' = upsets + 1
  /\ Goes(r, req[r], "abandoned")
  /\ UNCHANGED <<Rest, counters>>

\* The stream ends, is cut upstream or by the client: its finally closes the
\* response and finalizes with the status sent at its start.
StreamEnd(r) ==
  /\ req[r].phase = "streaming"
  /\ Finalize(r, req[r], 200, 1)
  /\ UNCHANGED <<Rest, counters, upsets>>

-----------------------------------------------------------------------------
(* The flusher thread of a pod.                                            *)

Still == <<now, cfg, req, active, conns, counters>>

\* flush_now swaps the accumulator out under its lock.
FlushBegin(p) ==
  /\ ~flushing[p] /\ Keys(acc[p]) # {}
  /\ flushing' = [flushing EXCEPT ![p] = TRUE]
  /\ pending' = [pending EXCEPT ![p] = acc[p]]
  /\ acc' = [acc EXCEPT ![p] = [k \in Key |-> 0]]
  /\ wrote' = [wrote EXCEPT ![p] = {}]
  /\ UNCHANGED <<Still, traffic, partly, short, upsets>>

\* One UPSERT, committed on its own.
FlushRow(p) ==
  /\ flushing[p]
  /\ \E k \in Keys(pending[p]) \ wrote[p] :
       /\ traffic' = [traffic EXCEPT ![k] = @ + pending[p][k]]
       /\ wrote' = [wrote EXCEPT ![p] = @ \cup {k}]
  /\ UNCHANGED <<Still, acc, pending, flushing, partly, short, upsets>>

FlushDone(p) ==
  /\ flushing[p] /\ wrote[p] = Keys(pending[p])
  /\ flushing' = [flushing EXCEPT ![p] = FALSE]
  /\ pending' = [pending EXCEPT ![p] = [k \in Key |-> 0]]
  /\ wrote' = [wrote EXCEPT ![p] = {}]
  /\ UNCHANGED <<Still, acc, traffic, partly, short, upsets>>

\* The keys a failed flush can put back: those still accumulated, and new
\* ones while there is room.
Fitting(p) ==
  LET new == Keys(pending[p]) \ Keys(acc[p])
      room == Max({0, MaxPendingKeys - Cardinality(Keys(acc[p]))})
  IN {keep \cup (Keys(pending[p]) \cap Keys(acc[p])) :
        keep \in kSubset(Min({Cardinality(new), room}), new)}

(* Mutant: what was accumulated during the flush is overwritten. *)
Merged_over(p, keep) == [k \in Key |-> IF k \in keep THEN pending[p][k] ELSE acc[p][k]]

Merged(p, keep) == [k \in Key |-> IF k \in keep THEN acc[p][k] + pending[p][k] ELSE acc[p][k]]

\* The database fails at some row: everything swapped out is merged back,
\* rows already written included.
FlushFails(p) ==
  /\ flushing[p]
  /\ upsets < MaxUpsets
  /\ upsets' = upsets + 1
  /\ flushing' = [flushing EXCEPT ![p] = FALSE]
  /\ pending' = [pending EXCEPT ![p] = [k \in Key |-> 0]]
  /\ wrote' = [wrote EXCEPT ![p] = {}]
  /\ \E keep \in Fitting(p) :
       /\ acc' = [acc EXCEPT ![p] = Merged(p, keep)]
       /\ short' = (short \/ keep # Keys(pending[p]))
  /\ partly' = (partly \/ wrote[p] # {})
  /\ UNCHANGED <<Still, traffic>>

-----------------------------------------------------------------------------
(* The environment.                                                        *)

Tick ==
  /\ now < MaxTime
  /\ now' = now + 1
  /\ UNCHANGED <<cfg, req, active, conns, counters, acc, pending, wrote, flushing,
                 traffic, partly, short, upsets>>

\* An edited setting reaches a pod.
Reload(p) ==
  /\ upsets < MaxUpsets
  /\ upsets' = upsets + 1
  /\ \E c \in Config \ {cfg[p]} : cfg' = [cfg EXCEPT ![p] = c]
  /\ UNCHANGED <<now, req, active, conns, counters, acc, pending, wrote, flushing,
                 traffic, partly, short>>

Unfinished(p) == {r \in Request : req[r].pod = p /\ req[r].phase \notin {"idle", "done", "lost"}}

\* A pod is replaced: its requests, gauge, connections and counts go with it.
Restart(p) ==
  /\ upsets < MaxUpsets
  /\ upsets' = upsets + 1
  /\ req' = [r \in Request |->
               IF r \in Unfinished(p) THEN [Over(req[r], NoKey) EXCEPT !.phase = "lost"] ELSE req[r]]
  /\ active' = [active EXCEPT ![p] = 0]
  /\ conns' = [conns EXCEPT ![p] = 0]
  /\ acc' = [acc EXCEPT ![p] = [k \in Key |-> 0]]
  /\ pending' = [pending EXCEPT ![p] = [k \in Key |-> 0]]
  /\ wrote' = [wrote EXCEPT ![p] = {}]
  /\ flushing' = [flushing EXCEPT ![p] = FALSE]
  /\ short' = TRUE
  /\ UNCHANGED <<now, cfg, counters, traffic, partly>>

Step(r) ==
  \/ Authenticate(r) \/ ReadBody(r) \/ Throttle(r) \/ Send(r) \/ PoolTimeout(r)
  \/ Upstream(r) \/ StreamStart(r) \/ StreamEnd(r)

Flush(p) == FlushBegin(p) \/ FlushRow(p) \/ FlushDone(p)

Next ==
  \/ \E r \in Request : Arrive(r) \/ Step(r) \/ ThrottleFails(r) \/ Abandon(r)
  \/ \E p \in Pod : Flush(p) \/ FlushFails(p) \/ Reload(p) \/ Restart(p)
  \/ Tick

Spec == Init /\ [][Next]_vars

\* A handler that can go on does: the awaits end by themselves or by a
\* timeout, a backend's stream is finite, and the flusher loops for ever.
FairSpec ==
  /\ Spec
  /\ \A r \in Request : WF_vars(Step(r))
  /\ \A p \in Pod : WF_vars(Flush(p))

-----------------------------------------------------------------------------
(* Properties.                                                             *)

\* Every variable has its type; an accumulator never holds more keys than
\* MAX_PENDING_KEYS and a pod no more connections than its pool.
TypeOK ==
  /\ now \in 0 .. MaxTime
  /\ cfg \in [Pod -> Config]
  /\ \A r \in Request : req[r].phase \in Phase /\ req[r].pod \in Pod
  /\ \A p \in Pod :
       /\ active[p] \in 0 .. Cardinality(Request)
       /\ conns[p] \in 0 .. MaxConns
       /\ acc[p] \in [Key -> Nat] /\ Cardinality(Keys(acc[p])) <= MaxPendingKeys
       /\ pending[p] \in [Key -> Nat]
       /\ wrote[p] \subseteq Keys(pending[p])
  /\ traffic \in [Key -> Nat]
  /\ upsets \in 0 .. MaxUpsets

On(p, phases) == {r \in Request : req[r].pod = p /\ req[r].phase \in phases}

\* On every path of every route (refusals, failures of the backend, streams
\* cut by either side), the gauge is lowered once and the upstream connection
\* given back; the only ones a pod keeps without a running request are those
\* of streams whose client left before the first step of body_iterator.
OnlyAbandonedLeak ==
  \A p \in Pod :
    /\ active[p] = Cardinality(Unfinished(p))
    /\ conns[p] = Cardinality(On(p, {"upstream", "ready", "streaming", "abandoned"}))

\* PostgresQuotaStore.incr, called from any pod, neither lets too many through
\* nor refuses early.  Of one user's requests of one window, no more than the
\* limit they were judged by are allowed, provided the window is no longer
\* than the hour the purge keeps; and for a 429 at least as many other
\* requests of the user as the limit were counted in the window, whatever was
\* purged or reconfigured.
QuotaHolds ==
  \A r \in Request :
    LET q == req[r].quota
        mine == {s \in Request : req[s].user = req[r].user}
    IN /\ q.verdict = "allowed" /\ q.len <= Retention =>
            Cardinality({s \in mine : req[s].quota = q}) <= q.limit
       /\ q.verdict = "denied" =>
            Cardinality({s \in mine \ {r} : req[s].quota.start = q.start}) >= q.limit

\* What a pod has yet to write of a key.
Unwritten(p, k) == acc[p][k] + (IF k \in wrote[p] THEN 0 ELSE pending[p][k])

\* One element for each request of the key that some pod has yet to write.
Outstanding(k) == UNION {{p} \X (1 .. Unwritten(p, k)) : p \in Pod}

\* What the table holds of a key, and what the pods have yet to write.
Counted(k) == traffic[k] + Cardinality(Outstanding(k))

Ended(k) == Cardinality({r \in Request : req[r].key = k})

\* Every request that was finalized is counted once, in llm_traffic or on its
\* way there, through concurrent records, flushes of several pods and flushes
\* that fail half way.  It is lost only if an accumulator overflowed or a pod
\* was replaced, and repeated only if a flush failed after it had written a
\* row: flush_now then merges the written rows back as well.
TrafficIsExact ==
  \A k \in Key : /\ ~short => Counted(k) >= Ended(k)
                 /\ ~partly => Counted(k) <= Ended(k)

\* Every request comes to an end, even on a pod whose whole pool is held by
\* abandoned streams (every await of the handlers is under a timeout), and
\* what the pods accumulated is written: a failed flush is tried again.
Drains ==
  []<>(/\ \A r \in Request : req[r].phase \in {"idle", "done", "abandoned", "lost"}
       /\ \A p \in Pod : Keys(acc[p]) = {} /\ ~flushing[p])
=============================================================================
