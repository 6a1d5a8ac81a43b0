-------------------------- MODULE RelayCredentials --------------------------
(***************************************************************************)
(* Relay credentials of the devices: POST /enroll rotates them in two      *)
(* statements of an autocommit connection, an admin revokes them, requests *)
(* present them (X-Relay-Client/Key) or an llmToken minted from them.      *)
(* Every request runs in a thread of its own, on any pod, so a step of a   *)
(* request is one statement on the database or one read of the clock.      *)
(* The table relay_clients is modelled; _RELAY_MEMORY_STORE, which stands  *)
(* in for it when no database is configured, is not.                       *)
(***************************************************************************)
EXTENDS Integers, FiniteSets

CONSTANTS Client,         \* client_uuid
          Enroll,         \* POST /enroll requests; each mints the credential of its name
          Check,          \* requests that present a credential or a token
          NoEnroll,       \* no credential
          Target,         \* what a request presents its key for
          CsvTargets,     \* DM_RELAY_ALLOWED_TARGETS
          KeyTTL,         \* relay_key_ttl_seconds
          TokenTTL,       \* DM_LLM_TOKEN_TTL_SECONDS
          MaxTime,        \* bound on the clock
          MaxFailures,    \* bound on statements that raise
          MaxRevocations  \* bound on admin revocations

ASSUME RelayAssumption ==
    /\ NoEnroll \notin Enroll
    /\ "config" \in Target
    /\ KeyTTL \in Nat /\ TokenTTL \in Nat
    /\ MaxTime \in Nat /\ MaxFailures \in Nat /\ MaxRevocations \in Nat

VARIABLES clock,
          (* relay_clients, one row per credential *)
          row,           \* "none", "active" (revoked_at IS NULL) or why it was revoked
          client,        \* client_uuid of the request and of its row
          expires_at,
          (* requests in progress *)
          pc,            \* of an enroll
          step,          \* of a check
          shown,         \* what a check presents
          now,           \* int(time.time()) a check has read
          verdict,
          (* devices *)
          held,          \* the credential a device has stored
          tokens,        \* llmTokens minted: <<client, exp>>
          (* counters *)
          failures, revocations,
          (* history *)
          latest,        \* the last enroll of a client to run its UPDATE
          cleared,       \* clients whose active row went and whose INSERT did not follow
          barred         \* checks of what was void when they began, and still is

tableVars == <<row, client, expires_at>>
checkVars == <<step, shown, now, verdict>>
vars == <<clock, tableVars, pc, checkVars, held, tokens, failures, revocations,
          latest, cleared, barred>>

Time == 0 .. MaxTime + KeyTTL + TokenTTL

Void == {"rotated", "revoked-by-admin"}

EnrollLabel == {"new", "revoke", "insert", "enqueue", "persist", "reply",
                "answered", "lost", "failed"}

Shown == [kind : {"key"}, id : Enroll, target : Target]
         \cup [kind : {"token"}, id : Client, exp : Time]
         \cup {[kind |-> "nothing"]}

TypeOK == /\ clock \in 0 .. MaxTime
          /\ row \in [Enroll -> {"none", "active"} \cup Void]
          /\ client \in [Enroll -> Client]
          /\ expires_at \in [Enroll -> Time]
          /\ pc \in [Enroll -> EnrollLabel]
          /\ step \in [Check -> {"new", "select", "mint", "done"}]
          /\ shown \in [Check -> Shown]
          /\ now \in [Check -> 0 .. MaxTime]
          /\ verdict \in [Check -> {"none", "ok", "refused"}]
          /\ held \in [Client -> Enroll \cup {NoEnroll}]
          /\ tokens \in SUBSET (Client \X Time)
          /\ failures \in 0 .. MaxFailures /\ revocations \in 0 .. MaxRevocations
          /\ latest \in [Client -> Enroll \cup {NoEnroll}]
          /\ cleared \in SUBSET Client
          /\ barred \in SUBSET Check

Init == /\ clock = 0
        /\ row = [e \in Enroll |-> "none"]
        /\ client \in [Enroll -> Client]
        /\ expires_at = [e \in Enroll |-> 0]
        /\ pc = [e \in Enroll |-> "new"]
        /\ step = [k \in Check |-> "new"]
        /\ shown = [k \in Check |-> [kind |-> "nothing"]]
        /\ now = [k \in Check |-> 0]
        /\ verdict = [k \in Check |-> "none"]
        /\ held = [c \in Client |-> NoEnroll]
        /\ tokens = {}
        /\ failures = 0 /\ revocations = 0
        /\ latest = [c \in Client |-> NoEnroll]
        /\ cleared = {} /\ barred = {}

-----------------------------------------------------------------------------
(* The table. *)

ActiveRow(c) == {e \in Enroll : row[e] = "active" /\ client[e] = c}

(* UPDATE relay_clients SET revoked_at ... WHERE client_uuid = c AND       *)
(* revoked_at IS NULL.                                                     *)
RevokeRows(c, why) ==
    row' = [e \in Enroll |-> IF e \in ActiveRow(c) THEN why ELSE row[e]]

(* Mutant: the index has no WHERE revoked_at IS NULL. *)
IndexAllows_total(c) == ~\E e \in Enroll : row[e] # "none" /\ client[e] = c

(* uq_relay_active_client: one row with revoked_at NULL per client_uuid.   *)
IndexAllows(c) == ActiveRow(c) = {}

-----------------------------------------------------------------------------
(* POST /enroll *)

Goto(e, label) == pc' = [pc EXCEPT ![e] = label]

BeginEnroll(e) ==
    /\ pc[e] = "new"
    /\ Goto(e, "revoke")
    /\ expires_at' = [expires_at EXCEPT ![e] = clock + KeyTTL]
    /\ UNCHANGED <<clock, row, client, checkVars, held, tokens, failures, revocations,
                   latest, cleared, barred>>

RotateOld(e) ==
    /\ pc[e] = "revoke"
    /\ Goto(e, "insert")
    /\ RevokeRows(client[e], "rotated")
    /\ latest' = [latest EXCEPT ![client[e]] = e]
    /\ UNCHANGED <<clock, client, expires_at, checkVars, held, tokens, failures,
                   revocations, cleared, barred>>

InsertNew(e) ==
    /\ pc[e] = "insert"
    /\ IndexAllows(client[e])
    /\ Goto(e, "enqueue")
    /\ row' = [row EXCEPT ![e] = "active"]
    /\ cleared' = cleared \ {client[e]}
    /\ barred' = {k \in barred : ~(shown[k].kind = "token" /\ shown[k].id = client[e])}
    /\ UNCHANGED <<clock, client, expires_at, checkVars, held, tokens, failures,
                   revocations, latest>>

(* Mutant: the violation is caught and the enroll goes on. *)
InsertConflict_ignored(e) ==
    /\ pc[e] = "insert"
    /\ ~IndexAllows(client[e])
    /\ Goto(e, "enqueue")
    /\ UNCHANGED <<clock, tableVars, checkVars, held, tokens, failures, revocations,
                   latest, cleared, barred>>

(* Another enroll of the client inserted in between: UniqueViolation.      *)
InsertConflict(e) ==
    /\ pc[e] = "insert"
    /\ ~IndexAllows(client[e])
    /\ Goto(e, "failed")
    /\ UNCHANGED <<clock, tableVars, checkVars, held, tokens, failures, revocations,
                   latest, cleared, barred>>

(* psycopg2 raises before, or instead of, one of the two statements, or    *)
(* the pod dies there. A statement whose reply is lost is RotateOld        *)
(* followed by this, or InsertNew followed by two failures below.          *)
MintFails(e) ==
    /\ failures < MaxFailures
    /\ pc[e] \in {"revoke", "insert"}
    /\ Goto(e, "failed")
    /\ failures' = failures + 1
    /\ cleared' = IF pc[e] = "insert" THEN cleared \cup {client[e]} ELSE cleared
    /\ UNCHANGED <<clock, tableVars, checkVars, held, tokens, revocations, latest, barred>>

(* _enqueue_enroll_payload, or _persist_enroll_side_effects when it fails. *)
EnqueuePayload(e) ==
    /\ \/ pc[e] = "enqueue" /\ Goto(e, "reply") /\ UNCHANGED failures
       \/ /\ pc[e] = "enqueue" /\ failures < MaxFailures
          /\ Goto(e, "persist") /\ failures' = failures + 1
       \/ pc[e] = "persist" /\ Goto(e, "reply") /\ UNCHANGED failures
       \/ /\ pc[e] = "persist" /\ failures < MaxFailures
          /\ Goto(e, "failed") /\ failures' = failures + 1
    /\ UNCHANGED <<clock, tableVars, checkVars, held, tokens, revocations, latest,
                   cleared, barred>>

(* The 201 reaches the device, which stores the credential, or is lost.    *)
Reply(e) ==
    /\ pc[e] = "reply"
    /\ \/ Goto(e, "answered") /\ held' = [held EXCEPT ![client[e]] = e]
       \/ Goto(e, "lost") /\ UNCHANGED held
    /\ UNCHANGED <<clock, tableVars, checkVars, tokens, failures, revocations, latest,
                   cleared, barred>>

-----------------------------------------------------------------------------
(* POST /admin/devices/{client_uuid}/revoke-relay: one transaction.        *)
DeviceRevokeRelay(c) ==
    /\ revocations < MaxRevocations
    /\ revocations' = revocations + 1
    /\ RevokeRows(c, "revoked-by-admin")
    /\ cleared' = cleared \cup {c}
    /\ UNCHANGED <<clock, client, expires_at, pc, checkVars, held, tokens, failures,
                   latest, barred>>

-----------------------------------------------------------------------------
(* Requests that present a credential. *)

(* _relay_allowed_targets at enrollment, and the older rows'               *)
(* backward compatibility at verification.                                 *)
RelayAllowedTargets ==
    (IF CsvTargets = {} THEN {"keycloak"} ELSE CsvTargets) \cup {"config", "telemetry", "llm"}

EffectiveTargets(allowed) ==
    allowed \cup (IF "config" \in allowed THEN {"telemetry", "llm"} ELSE {})

Unexpired(c, t) == \E e \in ActiveRow(c) : expires_at[e] > t

(* _verify_relay_credentials reads the clock before the row.               *)
PresentKey(k, e, target) ==
    /\ step[k] = "new"
    /\ pc[e] = "answered"
    /\ step' = [step EXCEPT ![k] = "select"]
    /\ shown' = [shown EXCEPT ![k] = [kind |-> "key", id |-> e, target |-> target]]
    /\ now' = [now EXCEPT ![k] = clock]
    /\ barred' = IF row[e] # "active" \/ expires_at[e] <= clock
                 THEN barred \cup {k} ELSE barred
    /\ UNCHANGED <<clock, tableVars, pc, verdict, held, tokens, failures, revocations,
                   latest, cleared>>

VerifyKey(k) ==
    LET e == shown[k].id
        ok == /\ row[e] = "active"
              /\ expires_at[e] > now[k]
              /\ shown[k].target \in EffectiveTargets(RelayAllowedTargets)
    IN  /\ step[k] = "select" /\ shown[k].kind = "key"
        /\ verdict' = [verdict EXCEPT ![k] = IF ok THEN "ok" ELSE "refused"]
        /\ step' = [step EXCEPT ![k] =
                       IF ok /\ shown[k].target = "config" THEN "mint" ELSE "done"]
        /\ UNCHANGED <<clock, tableVars, pc, shown, now, held, tokens, failures,
                       revocations, latest, cleared, barred>>

(* /config with a verified key: _apply_llm_proxy_overrides mints a token.  *)
MintToken(k) ==
    /\ step[k] = "mint"
    /\ step' = [step EXCEPT ![k] = "done"]
    /\ tokens' = tokens \cup {<<client[shown[k].id], clock + TokenTTL>>}
    /\ UNCHANGED <<clock, tableVars, pc, shown, now, verdict, held, failures,
                   revocations, latest, cleared, barred>>

(* LlmAuthenticator.resolve: signature and exp first ...                   *)
PresentToken(k, tok) ==
    /\ step[k] = "new"
    /\ tok \in tokens
    /\ shown' = [shown EXCEPT ![k] = [kind |-> "token", id |-> tok[1], exp |-> tok[2]]]
    /\ now' = [now EXCEPT ![k] = clock]
    /\ \/ /\ tok[2] <= clock
          /\ step' = [step EXCEPT ![k] = "done"]
          /\ verdict' = [verdict EXCEPT ![k] = "refused"]
       \/ /\ tok[2] > clock
          /\ step' = [step EXCEPT ![k] = "select"]
          /\ UNCHANGED verdict
    /\ barred' = IF ~Unexpired(tok[1], clock) THEN barred \cup {k} ELSE barred
    /\ UNCHANGED <<clock, tableVars, pc, held, tokens, failures, revocations, latest,
                   cleared>>

(* Mutant: the row is looked up whether it is revoked or not. *)
VerifyToken_unrevoked(k) ==
    /\ step[k] = "select" /\ shown[k].kind = "token"
    /\ verdict' = [verdict EXCEPT ![k] =
                      IF \E e \in Enroll : /\ client[e] = shown[k].id /\ row[e] # "none"
                                           /\ expires_at[e] > clock
                      THEN "ok" ELSE "refused"]
    /\ step' = [step EXCEPT ![k] = "done"]
    /\ UNCHANGED <<clock, tableVars, pc, shown, now, held, tokens, failures, revocations,
                   latest, cleared, barred>>

(* ... then _client_uuid_is_active, against the clock of the database.     *)
VerifyToken(k) ==
    /\ step[k] = "select" /\ shown[k].kind = "token"
    /\ verdict' = [verdict EXCEPT ![k] =
                      IF Unexpired(shown[k].id, clock) THEN "ok" ELSE "refused"]
    /\ step' = [step EXCEPT ![k] = "done"]
    /\ UNCHANGED <<clock, tableVars, pc, shown, now, held, tokens, failures, revocations,
                   latest, cleared, barred>>

(* The SELECT raises: the request ends with a 500 and no verdict.          *)
VerifyFails(k) ==
    /\ failures < MaxFailures
    /\ step[k] = "select"
    /\ step' = [step EXCEPT ![k] = "done"]
    /\ failures' = failures + 1
    /\ UNCHANGED <<clock, tableVars, pc, shown, now, verdict, held, tokens, revocations,
                   latest, cleared, barred>>

-----------------------------------------------------------------------------
Tick == /\ clock < MaxTime
        /\ clock' = clock + 1
        /\ UNCHANGED <<tableVars, pc, checkVars, held, tokens, failures, revocations,
                       latest, cleared, barred>>

Next == \/ \E e \in Enroll : \/ BeginEnroll(e) \/ RotateOld(e) \/ InsertNew(e)
                             \/ InsertConflict(e) \/ MintFails(e) \/ EnqueuePayload(e)
                             \/ Reply(e)
        \/ \E c \in Client : DeviceRevokeRelay(c)
        \/ \E k \in Check : \/ \E e \in Enroll, t \in Target : PresentKey(k, e, t)
                            \/ \E tok \in tokens : PresentToken(k, tok)
                            \/ VerifyKey(k) \/ MintToken(k) \/ VerifyToken(k)
                            \/ VerifyFails(k)
        \/ Tick

Spec == Init /\ [][Next]_vars

-----------------------------------------------------------------------------
(* uq_relay_active_client: however enrolls of a device interleave, it has  *)
(* at most one credential that is not revoked.                             *)
OneActive ==
    \A c \in Client : \A e, f \in ActiveRow(c) : e = f

(* The two statements of _mint_or_rotate_relay_credentials are no          *)
(* transaction, and of two racing enrolls one ends in a unique violation;  *)
(* yet a device that was enrolled has an active credential, or is about to *)
(* have one, unless an admin revoked it or an INSERT was never run.        *)
ClientCovered ==
    \A c \in Client :
        (\E e \in Enroll : client[e] = c /\ row[e] # "none") =>
            \/ ActiveRow(c) # {}
            \/ \E e \in Enroll : client[e] = c /\ pc[e] = "insert"
            \/ c \in cleared

(* The device that stored the answer of the last enroll to rotate its      *)
(* credentials holds one that only an admin can have revoked.              *)
LastEnrollWins ==
    \A c \in Client :
        held[c] # NoEnroll /\ held[c] = latest[c] =>
            row[held[c]] \in {"active", "revoked-by-admin"}

(* device_revoke_relay "takes effect immediately": a request that began    *)
(* with a revoked or expired credential, or with a token of a client that  *)
(* had none left and got none since, is not accepted, whatever the clock   *)
(* and the table do between its steps.                                     *)
RefusedWhenVoid ==
    \A k \in barred : verdict[k] # "ok"
=============================================================================
