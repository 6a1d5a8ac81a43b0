------------------------------- MODULE Ingest -------------------------------
(***************************************************************************)
(* What devices send in and what becomes of it: telemetry batches on       *)
(* /telemetry/v1/traces and enrollments on /enroll, from the identity a    *)
(* request is given, through the queue or the direct path, to the effects  *)
(* (upstream delivery, stored spans, enroll copies, provisioning row).     *)
(* The queue is its contract, JobContract, which the queue of QueueWorker  *)
(* is proved to implement.  A job is numbered by the request that created  *)
(* it.  A failure, a lost answer or a client's timeout is an upset; every  *)
(* behaviour has a budget of requests and of upsets, one of Budgets.       *)
(***************************************************************************)
EXTENDS Naturals, FiniteSets

CONSTANTS
  Device,      \* client uuids
  Payload,     \* bodies: batches of spans and enroll bodies
  Topic,       \* [Payload -> {"telemetry", "enroll"}]
  Origin,      \* [Payload -> Device], who produced the body
  IdemKey,     \* [Payload -> X-Idempotency-Key, or NoKey]
  NoKey,
  SendsUuid,   \* devices whose telemetry carries X-Client-UUID
  Loads,       \* sets of bodies the devices may have to send
  Stores,      \* subset of {"local", "s3"}: where enroll bodies are kept
  Budgets,     \* set of [sends, upsets]
  TTL, MaxTime, MaxSends, MaxAttempts

ASSUME ConstantsOK ==
  /\ MaxSends \in Nat /\ MaxAttempts \in Nat \ {0} /\ TTL \in Nat /\ MaxTime \in Nat
  /\ Topic \in [Payload -> {"telemetry", "enroll"}]
  /\ Origin \in [Payload -> Device]
  /\ Loads \subseteq SUBSET Payload
  /\ Stores \subseteq {"local", "s3"}
  /\ {"zero", "telemetry-open", "nobody"} \cap Device = {}

Send == 1..MaxSends
Run == Send \X {"job", "direct"}

(* The uuid of requests without identity, the constant used when no token  *)
(* is required, and "no identity yet".                                     *)
Zero == "zero"
Open == "telemetry-open"
Nobody == "nobody"

VARIABLES
  settings,  \* telemetry_require_token and queue_enabled, fixed at deployment,
             \* and the bodies and the budget of this behaviour
  now,
  token,     \* the telemetry token each device holds
  phase, payload, who, job,  \* the requests, in order of receipt: what the client
             \* knows, the body, the client uuid, the job it was answered with,
  open,      \* and (history) the requests not settled when it arrived
  stage, tries,  \* the queue's contract
  step,      \* how far the execution of each run is
  effects,   \* how often each run had each of its effects
  prov,      \* the request whose enrollment each provisioning row shows
  conns,     \* client uuids of device_connections
  upsets,
  applied, swallowed, unrecorded  \* history: enrollments that reached provisioning,
             \* runs with a swallowed database error, and runs whose completion
             \* was not recorded

history == <<applied, swallowed, unrecorded>>
reqVars == <<phase, payload, who, job, open>>
vars == <<settings, now, token, reqVars, stage, tries, step, effects, prov, conns,
          upsets, history>>

Queue == INSTANCE JobContract WITH Job <- Send, Limit <- MaxAttempts

NoToken == [cuid |-> Nobody, exp |-> 0]
Effect == {"upstream", "spans", "local", "s3"}

Init == /\ settings \in [requireToken : BOOLEAN, queue : BOOLEAN,
                         bodies : Loads, budget : Budgets]
        /\ now = 0
        /\ token = [d \in Device |-> NoToken]
        /\ phase = [s \in Send |-> "unsent"]
        /\ payload = [s \in Send |-> NoKey]
        /\ who = [s \in Send |-> Nobody]
        /\ job = [s \in Send |-> 0]
        /\ open = [s \in Send |-> {}]
        /\ Queue!Init
        /\ step = [r \in Run |-> "idle"]
        /\ effects = [r \in Run |-> [e \in Effect |-> 0]]
        /\ prov = [d \in Device |-> 0]
        /\ conns = {}
        /\ upsets = 0
        /\ applied = {} /\ swallowed = {} /\ unrecorded = {}

Spend(n) == upsets + n <= settings.budget.upsets /\ upsets' = upsets + n
Upset == Spend(1)
Smooth == UNCHANGED upsets

queueVars == <<stage, tries>>
work == <<stage, tries, step, effects, prov, history>>
clients == <<settings, now, token>>

PayloadOf(r) == payload[r[1]]
TopicOf(r) == Topic[PayloadOf(r)]
DeviceOf(r) == Origin[PayloadOf(r)]
Sent == {s \in Send : phase[s] # "unsent"}
Jobs == {s \in Send : stage[s] # "absent"}

-----------------------------------------------------------------------------
(* Tokens.  GET /telemetry/token, and /config, mint one with the caller's  *)
(* uuid when the call carries it; an answer from the shared /config cache  *)
(* never does.  It is valid strictly before its expiry.  Tokens are left   *)
(* out where none is required, and the clock while none is valid.          *)
Minted(cuid) == [cuid |-> cuid, exp |-> now + TTL]

Awaits(d) == /\ settings.requireToken /\ Cardinality(Sent) < settings.budget.sends
             /\ \E p \in settings.bodies : Topic[p] = "telemetry" /\ Origin[p] = d

GetToken(d) ==
  /\ Awaits(d)
  /\ \E cuid \in {d, Nobody} :
       /\ token[d] # Minted(cuid)
       /\ token' = [token EXCEPT ![d] = Minted(cuid)]
  /\ UNCHANGED <<settings, now, reqVars, work, conns, upsets>>

TokenValid(d) == token[d].exp > now

Tick == /\ now < MaxTime /\ \E d \in Device : Awaits(d) /\ TokenValid(d)
        /\ now' = now + 1
        /\ UNCHANGED <<settings, token, reqVars, work, conns, upsets>>

(* Whom a telemetry request counts for; Nobody is the 401.                 *)
(* Mutant: an anonymous token's own identifier stands for the device. *)
ClientUuid_jti(d) ==
  CASE ~settings.requireToken -> Open
    [] settings.requireToken /\ TokenValid(d) /\ token[d].cuid # Nobody -> token[d].cuid
    [] settings.requireToken /\ TokenValid(d) /\ token[d].cuid = Nobody -> "jti"
    [] OTHER -> IF d \in SendsUuid THEN d ELSE Nobody

(* Mutant: the header is only looked at when there is no valid token. *)
ClientUuid_noHeader(d) ==
  CASE ~settings.requireToken -> Open
    [] settings.requireToken /\ TokenValid(d) ->
         IF token[d].cuid # Nobody THEN token[d].cuid ELSE Zero
    [] OTHER -> IF d \in SendsUuid THEN d ELSE Nobody

ClientUuid(d) ==
  CASE ~settings.requireToken -> Open
    [] settings.requireToken /\ TokenValid(d) /\ token[d].cuid # Nobody -> token[d].cuid
    [] OTHER -> IF d \in SendsUuid THEN d
                ELSE IF TokenValid(d) THEN Zero ELSE Nobody

-----------------------------------------------------------------------------
(* Requests.  A client sends a body again until it hears a success; doing  *)
(* so before the answer to an earlier try is an upset (its own timeout).   *)
Tries(p) == {s \in Sent : payload[s] = p}
InProgress(s) == phase[s] = "received"
Unsettled(s) == InProgress(s) \/ stage[s] \in {"pending", "processing"}

MaySend(p) == \A s \in Tries(p) : phase[s] # "ok"
Impatience(p) == IF \E s \in Tries(p) : InProgress(s) THEN 1 ELSE 0

NextSend(s) == s \notin Sent /\ 1..(s - 1) \subseteq Sent /\ s <= settings.budget.sends

Arrives(s, p, client, first) ==
  /\ phase' = [phase EXCEPT ![s] = first]
  /\ payload' = [payload EXCEPT ![s] = p]
  /\ who' = [who EXCEPT ![s] = client]
  /\ open' = [open EXCEPT ![s] = {r \in Sent : Unsettled(r)}]
  /\ UNCHANGED job

(* A row of the connection log.  A failed INSERT is swallowed; the column  *)
(* only takes uuids, so that of "telemetry-open" always fails.             *)
Logged(client) == conns' = IF client = Open THEN conns ELSE conns \union {client}

TelemetryTraces(s, p) ==
  /\ NextSend(s) /\ Topic[p] = "telemetry" /\ MaySend(p)
  /\ LET client == ClientUuid(Origin[p]) IN
       IF client = Nobody
       THEN Arrives(s, p, client, "error") /\ UNCHANGED conns /\ Spend(Impatience(p))
       ELSE /\ Arrives(s, p, client, "received")
            /\ \/ Logged(client) /\ Spend(Impatience(p))
               \/ UNCHANGED conns /\ Spend(Impatience(p) + 1)
  /\ UNCHANGED <<clients, work>>

(* The body names the device; the relay key is rotated before the enqueue. *)
Enroll(s, p) ==
  /\ NextSend(s) /\ Topic[p] = "enroll" /\ MaySend(p)
  /\ Arrives(s, p, Origin[p], "received") /\ Spend(Impatience(p))
  /\ UNCHANGED <<clients, work, conns>>

(* A body that is empty, too large or malformed, a disabled relay, a PKCE  *)
(* token that does not verify, a failed mint: an error without effects.    *)
Rejected(s, p) ==
  /\ NextSend(s) /\ MaySend(p)
  /\ Arrives(s, p, Nobody, "error") /\ Spend(Impatience(p) + 1)
  /\ UNCHANGED <<clients, work, conns>>

(* Mutant: the key does not name the client. *)
DedupeKey_noClient(s) ==
  IF IdemKey[payload[s]] = NoKey THEN <<"none", "none", s>>
  ELSE <<Topic[payload[s]], "client", IdemKey[payload[s]]>>

DedupeKey(s) ==
  IF IdemKey[payload[s]] = NoKey THEN <<"none", "none", s>>
  ELSE <<Topic[payload[s]], who[s], IdemKey[payload[s]]>>

Same(s) == {j \in Jobs : DedupeKey(j) = DedupeKey(s)}
JobOf(s) == IF Same(s) = {} THEN s ELSE CHOOSE j \in Same(s) : TRUE

Ends(s, end) == /\ phase' = [phase EXCEPT ![s] = end]
                /\ UNCHANGED <<payload, who, open>>

Answer(s, end) == Ends(s, end) /\ IF end = "unheard" THEN Upset ELSE Smooth

(* Mutant: an enrollment sent again makes its finished job pending again. *)
Insert_rerun(s) ==
  IF Same(s) = {} THEN Queue!Accept(s)
  ELSE /\ UNCHANGED tries
       /\ stage' = IF Topic[payload[s]] = "enroll" /\ stage[JobOf(s)] = "done"
                   THEN [stage EXCEPT ![JobOf(s)] = "pending"] ELSE stage

Insert(s) == IF Same(s) = {} THEN Queue!Accept(s) ELSE UNCHANGED queueVars

(* When the enqueue raises, with or without its row, telemetry answers 500 *)
(* and an enrollment is processed by the request itself.                   *)
Enqueue(s) ==
  /\ InProgress(s) /\ settings.queue /\ step[<<s, "direct">>] = "idle"
  /\ \/ /\ Insert(s)
        /\ \E end \in {"ok", "unheard"} : Answer(s, end)
        /\ job' = [job EXCEPT ![s] = JobOf(s)]
        /\ UNCHANGED step
     \/ /\ Insert(s) \/ UNCHANGED queueVars
        /\ Upset
        /\ IF Topic[payload[s]] = "telemetry"
           THEN Ends(s, "error") /\ UNCHANGED <<job, step>>
           ELSE step' = [step EXCEPT ![<<s, "direct">>] = "begun"] /\ UNCHANGED reqVars
  /\ UNCHANGED <<clients, effects, prov, history, conns>>

NoQueue(s) ==
  /\ InProgress(s) /\ ~settings.queue /\ step[<<s, "direct">>] = "idle"
  /\ step' = [step EXCEPT ![<<s, "direct">>] = "begun"]
  /\ UNCHANGED <<clients, reqVars, queueVars, effects, prov, history, conns, upsets>>

-----------------------------------------------------------------------------
(* Executions, by a worker or by the request itself.                       *)
Begin(j) ==
  /\ Queue!Begin({j})
  /\ step' = [step EXCEPT ![<<j, "job">>] = "begun"]
  /\ UNCHANGED <<clients, reqVars, effects, prov, history, conns, upsets>>

To(r, next) == /\ step' = [step EXCEPT ![r] = next]
               /\ UNCHANGED <<reqVars, queueVars>>

Did(r, effect) ==
  effects' = [effects EXCEPT ![r] = [effects[r] EXCEPT ![effect] = effects[r][effect] + 1]]

(* An exception: the job is retried or given up, the request is answered   *)
(* 500 or 502.                                                             *)
Raises(r) ==
  /\ Upset
  /\ step' = [step EXCEPT ![r] = "idle"]
  /\ IF r[2] = "job"
     THEN (Queue!GiveBack(r[1]) \/ Queue!GiveUp(r[1])) /\ UNCHANGED reqVars
     ELSE Ends(r[1], "error") /\ UNCHANGED <<job, queueVars>>

(* Mutant: the worker does not look at the upstream's status. *)
Forward_anyStatus(r) ==
  /\ step[r] = "begun" /\ TopicOf(r) = "telemetry"
  /\ To(r, "forwarded")
  /\ \/ Did(r, "upstream") /\ Smooth
     \/ Upset /\ UNCHANGED effects
  /\ UNCHANGED <<clients, prov, history, conns>>

(* Mutant: the worker, too, keeps the spans of a refused batch. *)
Forward_keepsSpans(r) ==
  /\ step[r] = "begun" /\ TopicOf(r) = "telemetry"
  /\ \/ To(r, "forwarded") /\ Did(r, "upstream") /\ Smooth
     \/ Raises(r) /\ Did(r, "spans")
  /\ UNCHANGED <<clients, prov, history, conns>>

(* An upstream status outside 2xx fails the job, but is simply passed on   *)
(* by the direct path, which keeps the spans all the same.                 *)
Forward(r) ==
  /\ step[r] = "begun" /\ TopicOf(r) = "telemetry"
  /\ \/ To(r, "forwarded") /\ Did(r, "upstream") /\ Smooth
     \/ r[2] = "direct" /\ To(r, "refused") /\ Upset /\ UNCHANGED effects
     \/ Raises(r) /\ (Did(r, "upstream") \/ UNCHANGED effects)
  /\ UNCHANGED <<clients, prov, history, conns>>

Swallowed(r) == /\ swallowed' = swallowed \union {r}
                /\ UNCHANGED <<applied, unrecorded>>

(* One transaction, whose failure is logged and forgotten.                 *)
PersistSpans(r) ==
  /\ step[r] \in {"forwarded", "refused"}
  /\ To(r, IF step[r] = "forwarded" THEN "done" ELSE "kept")
  /\ \/ Did(r, "spans") /\ Smooth /\ UNCHANGED history
     \/ Upset /\ UNCHANGED effects /\ Swallowed(r)
  /\ UNCHANGED <<clients, prov, conns>>

(* Every execution writes a new file, then a new object.                   *)
Keep(r, store, from, next) ==
  /\ step[r] = from /\ TopicOf(r) = "enroll"
  /\ IF store \in Stores
     THEN \/ To(r, next) /\ Did(r, store) /\ Smooth
          \/ Raises(r) /\ (Did(r, store) \/ UNCHANGED effects)
     ELSE To(r, next) /\ UNCHANGED <<effects, upsets>>
  /\ UNCHANGED <<clients, prov, history, conns>>

KeepCopies(r) == Keep(r, "local", "begun", "local") \/ Keep(r, "s3", "local", "s3")

UpsertProvisioning(r) ==
  /\ step[r] = "s3"
  /\ To(r, "provisioned")
  /\ \/ /\ prov' = [prov EXCEPT ![DeviceOf(r)] = r[1]]
        /\ applied' = applied \union {r[1]}
        /\ Smooth /\ UNCHANGED <<swallowed, unrecorded>>
     \/ Upset /\ UNCHANGED prov /\ Swallowed(r)
  /\ UNCHANGED <<clients, effects, conns>>

LogEnroll(r) ==
  /\ step[r] = "provisioned"
  /\ To(r, "done")
  /\ \/ Logged(who[r[1]]) /\ Smooth
     \/ UNCHANGED conns /\ Upset
  /\ UNCHANGED <<clients, effects, prov, history>>

Acknowledge(j) ==
  LET r == <<j, "job">> IN
  /\ step[r] = "done"
  /\ \/ /\ Queue!Finish(j)
        /\ step' = [step EXCEPT ![r] = "idle"]
        /\ Smooth /\ UNCHANGED <<reqVars, history>>
     \/ /\ Raises(r)
        /\ unrecorded' = unrecorded \union {r}
        /\ UNCHANGED <<applied, swallowed>>
  /\ UNCHANGED <<clients, effects, prov, conns>>

Reply(s) ==
  LET r == <<s, "direct">> IN
  /\ step[r] \in {"done", "kept"}
  /\ step' = [step EXCEPT ![r] = "idle"]
  /\ \E end \in IF step[r] = "done" THEN {"ok", "unheard"} ELSE {"error"} : Answer(s, end)
  /\ UNCHANGED <<clients, job, queueVars, effects, prov, history, conns>>

(* The process dies: the job stays 'processing', the client hears nothing. *)
Die(r) ==
  /\ step[r] \notin {"idle", "gone"}
  /\ step' = [step EXCEPT ![r] = "gone"]
  /\ IF r[2] = "direct" THEN Ends(r[1], "unheard") /\ UNCHANGED job ELSE UNCHANGED reqVars
  /\ Upset
  /\ UNCHANGED <<clients, queueVars, effects, prov, history, conns>>

Next == \/ Tick
        \/ \E d \in Device : GetToken(d)
        \/ \E s \in Send, p \in settings.bodies :
             TelemetryTraces(s, p) \/ Enroll(s, p) \/ Rejected(s, p)
        \/ \E s \in Send : Enqueue(s) \/ NoQueue(s) \/ Begin(s) \/ Acknowledge(s) \/ Reply(s)
        \/ \E r \in Run : \/ Forward(r) \/ PersistSpans(r)
                           \/ KeepCopies(r) \/ UpsertProvisioning(r) \/ LogEnroll(r)
                           \/ Die(r)

Spec == Init /\ [][Next]_vars

-----------------------------------------------------------------------------
(* A device is never counted as another, nor as one that does not exist:   *)
(* a request counts for the device that produced the body or for one of    *)
(* the two anonymous identities, and the connection log, which the active- *)
(* device counters read, knows only devices that sent something and the    *)
(* zero uuid, however tokens are minted, cached, renewed and expire.       *)
Attributed ==
  /\ \A s \in Sent : who[s] \in {Origin[payload[s]], Zero, Open, Nobody}
  /\ conns \subseteq {Origin[payload[s]] : s \in Sent} \union {Zero}

(* An accepted body is dropped for an earlier body with the same           *)
(* idempotency key only if both counted for one device, or for nobody:     *)
(* bodies of different devices share a key only under the zero uuid or     *)
(* "telemetry-open", where all anonymous devices share one key space.      *)
OnlyAnonymousCollide ==
  \A s \in Sent : job[s] # 0 =>
    LET p == payload[s]
        q == payload[job[s]] IN
    Origin[p] # Origin[q] => who[s] \in {Zero, Open} /\ Topic[p] = "telemetry"

(* A body with an idempotency key that is sent again, after a lost answer, *)
(* an error or a timeout, becomes a second job only when it is telemetry   *)
(* of a device that does not send its uuid: such a device's identity, and  *)
(* with it the dedupe key, depends on the token it held at each try.       *)
RepeatedOnlyUnnamed ==
  \A i, j \in Jobs :
    i # j /\ payload[i] = payload[j] /\ IdemKey[payload[i]] # NoKey
    => Topic[payload[i]] = "telemetry" /\ Origin[payload[i]] \notin SendsUuid

EffectsHad(r) ==
  IF TopicOf(r) = "telemetry"
  THEN effects[r]["upstream"] > 0 /\ (effects[r]["spans"] > 0 \/ r \in swallowed)
  ELSE /\ \A store \in Stores : effects[r][store] > 0
       /\ r[1] \in applied \/ r \in swallowed

(* Success is never pretended: a job that is done, and a request answered  *)
(* as processed without the queue, had all its effects; the only ones that *)
(* may be missing are the spans or the provisioning row whose database     *)
(* error the code swallows.                                                *)
NothingPretended ==
  /\ \A j \in Send : stage[j] = "done" => EffectsHad(<<j, "job">>)
  /\ \A s \in Sent : phase[s] = "ok" /\ job[s] = 0 => EffectsHad(<<s, "direct">>)

(* The spans of a job are stored twice only if a finished execution could  *)
(* not be recorded: no failure of the upstream, at whatever attempt,       *)
(* repeats them, because they are stored last.                             *)
SpansOnce == \A r \in Run : effects[r]["spans"] > 1 => r \in unrecorded

(* An older enrollment is shown over a newer one of the same device only   *)
(* if it was still unsettled when the newer one arrived: two jobs, or a    *)
(* job and a request, may overtake each other, but a settled enrollment    *)
(* never comes back, even when its client sends it again under its key.    *)
OnlyUnsettledOvertake ==
  \A n \in applied :
    LET shown == prov[Origin[payload[n]]] IN
    shown < n => shown \in open[n]
=============================================================================
