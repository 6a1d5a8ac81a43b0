----------------------------- MODULE ConfigCache -----------------------------
(***************************************************************************)
(* GET /config/config.json and its response cache. Every pod has a cache   *)
(* of its own; a request reads the cache, the catalog, the environment,    *)
(* the catalog and the environment again, then stores its answer. What it  *)
(* reads may change in between: the catalog is edited on some pod, whose   *)
(* middleware then clears the cache of that pod alone, or an override      *)
(* reaches a pod, which assigns its keys one by one and runs the reload    *)
(* hook. Contents are named by versions: of the catalog tables, and of the *)
(* overrides. The pods are those /config is routed to, in the role api;    *)
(* their one reloading thread is the one of RuntimeConfigSync. Admin pods  *)
(* have a cache that no client reads.                                      *)
(***************************************************************************)
EXTENDS Integers, Sequences

CONSTANTS ApiPod,       \* the api pods
          Key,          \* cache keys, device:profile
          Request,      \* concurrent GET requests
          Kinds,        \* what the headers of a request may be, see Kind
          NoEntry,      \* nothing cached under a key
          TTL,          \* _CONFIG_CACHE_TTL
          MaxEdits,     \* bound on edits of the catalog and on edits of the overrides
          MaxClears,    \* bound on POST /config/cache/clear
          MaxErrors     \* bound on database errors

(* The headers of a request: none, X-Platform-* or X-Manifest-Version      *)
(* only, one that names the device or user, or relay credentials.          *)
Kind == {"generic", "platform", "identity", "relay"}

ASSUME CacheAssumption ==
    /\ Kinds \subseteq Kind
    /\ TTL \in Nat \ {0} /\ MaxEdits \in Nat /\ MaxClears \in Nat /\ MaxErrors \in Nat

VARIABLES (* database *)
          catalog,      \* version of plugins, overrides, flags, campaigns
          overrides,    \* version of config_overrides
          (* per pod *)
          environ,      \* version of os.environ, per group of keys
          loaded,       \* overrides a reload has fetched
          reload,       \* position of the reload in ReloadOrder, 0 when there is none
          answering,    \* mutations committed whose response is on its way out
          cache,        \* _CONFIG_CACHE
          (* per request *)
          stage, pod, key, kind,
          doc,          \* the answer under construction
          (* counters *)
          clears, errors,
          (* history *)
          early,        \* requests that began before the last clear of their pod
          seen          \* catalog version at the last clear of a pod

cachedVars == <<environ, loaded, reload, cache>>
requestVars == <<stage, pod, key, kind, doc>>
cacheVars == <<catalog, overrides, cachedVars, answering, requestVars, clears, errors,
               early, seen>>

Version == 0 .. MaxEdits

(* "base": PUBLIC_BASE_URL and what _apply_overrides reads; "llm": what    *)
(* _apply_llm_proxy_overrides reads. Assigned and read in this order.      *)
EnvKey == {"base", "llm"}

Doc == [template : Version, base : Version, plugin : Version, llm : Version,
        flags : Version, degraded : BOOLEAN, kind : Kind]

BlankDoc(kd) == [template |-> 0, base |-> 0, plugin |-> 0, llm |-> 0, flags |-> 0,
                 degraded |-> FALSE, kind |-> kd]

Entry == [doc : Doc, left : 1 .. TTL, early : BOOLEAN]

Stage == {"idle", "template", "base", "plugin", "llm", "flags", "store", "answered"}

CacheTypeOK == /\ catalog \in Version /\ overrides \in Version
               /\ environ \in [ApiPod -> [EnvKey -> Version]]
               /\ loaded \in [ApiPod -> Version]
               /\ reload \in [ApiPod -> 0 .. 3]
               /\ answering \in [ApiPod -> Nat]
               /\ cache \in [ApiPod -> [Key -> Entry \cup {NoEntry}]]
               /\ stage \in [Request -> Stage]
               /\ pod \in [Request -> ApiPod]
               /\ key \in [Request -> Key]
               /\ kind \in [Request -> Kind]
               /\ doc \in [Request -> Doc]
               /\ clears \in 0 .. MaxClears /\ errors \in 0 .. MaxErrors
               /\ early \in SUBSET Request
               /\ seen \in [ApiPod -> Version]

CacheInit == /\ catalog = 0 /\ overrides = 0
             /\ environ = [p \in ApiPod |-> [v \in EnvKey |-> 0]]
             /\ loaded = [p \in ApiPod |-> 0]
             /\ reload = [p \in ApiPod |-> 0]
             /\ answering = [p \in ApiPod |-> 0]
             /\ cache = [p \in ApiPod |-> [k \in Key |-> NoEntry]]
             /\ stage = [r \in Request |-> "idle"]
             /\ pod \in [Request -> ApiPod]
             /\ key \in [Request -> Key]
             /\ kind = [r \in Request |-> "generic"]
             /\ doc = [r \in Request |-> BlankDoc("generic")]
             /\ clears = 0 /\ errors = 0
             /\ early = {}
             /\ seen = [p \in ApiPod |-> 0]

-----------------------------------------------------------------------------
(* The cache; each operation holds _CONFIG_CACHE_LOCK.                     *)

Entries(p) == {cache[p][k] : k \in Key} \ {NoEntry}

CacheSet(p, k, x) == cache' = [cache EXCEPT ![p][k] = x]

InFlight(p) == {r \in Request : pod[r] = p /\ stage[r] \notin {"idle", "answered"}}

(* _config_cache_clear on pod p. *)
CacheClear(p) ==
    /\ cache' = [cache EXCEPT ![p] = [k \in Key |-> NoEntry]]
    /\ early' = early \cup InFlight(p)
    /\ seen' = [seen EXCEPT ![p] = catalog]

-----------------------------------------------------------------------------
(* GET /config/config.json *)

(* Mutant: relay credentials do not bypass the cache. *)
Cacheable_relay(kd) == kd # "identity"

Cacheable(kd) == kd \notin {"identity", "relay"}

GoOn(r, label) == stage' = [stage EXCEPT ![r] = label]

(* The handler is over and its locals are gone. *)
Forget(r) ==
    /\ GoOn(r, "idle")
    /\ doc' = [doc EXCEPT ![r] = BlankDoc("generic")]
    /\ early' = early \ {r}

Lookup(r, p, k, kd) ==
    LET hit == Cacheable(kd) /\ cache[p][k] # NoEntry
    IN  /\ stage[r] = "idle"
        /\ GoOn(r, IF hit THEN "answered" ELSE "template")
        /\ doc' = [doc EXCEPT ![r] = IF hit THEN cache[p][k].doc ELSE BlankDoc(kd)]
        /\ pod' = [pod EXCEPT ![r] = p]
        /\ key' = [key EXCEPT ![r] = k]
        /\ kind' = [kind EXCEPT ![r] = kd]
        /\ UNCHANGED <<catalog, overrides, cachedVars, answering, clears, errors, early,
                       seen>>

(* A read of the request that gives the answer's part its present version. *)
Take(r, part, v, next) ==
    /\ doc' = [doc EXCEPT ![r][part] = v]
    /\ GoOn(r, next)
    /\ UNCHANGED <<errors, early>>

(* A database error that the handler swallows: the part is left out, or    *)
(* comes from the files of the image.                                      *)
Miss(r, next) ==
    /\ errors < MaxErrors
    /\ errors' = errors + 1
    /\ doc' = [doc EXCEPT ![r].degraded = TRUE]
    /\ GoOn(r, next)
    /\ UNCHANGED early

(* 400 (unknown device), 500 (no template, no database), access denied:    *)
(* never cached.                                                           *)
Refuse(r) == Forget(r) /\ UNCHANGED errors

(* _resolve_device and _load_config_template. Without a connection the     *)
(* device may be known by its type only, and the catalog is not asked      *)
(* again.                                                                  *)
ReadTemplate(r) ==
    /\ stage[r] = "template"
    /\ Take(r, "template", catalog, "base") \/ Miss(r, "base") \/ Refuse(r)
    /\ UNCHANGED <<catalog, overrides, cachedVars, answering, pod, key, kind, clears, seen>>

(* _substitute_env and _apply_overrides. *)
ReadBase(r) ==
    /\ stage[r] = "base"
    /\ \/ Take(r, "base", environ[pod[r]]["base"], "plugin")
       \/ /\ doc[r].degraded
          /\ Take(r, "base", environ[pod[r]]["base"], "llm")
    /\ UNCHANGED <<catalog, overrides, cachedVars, answering, pod, key, kind, clears, seen>>

(* _apply_catalog_overrides and _check_plugin_access. *)
ReadPlugin(r) ==
    /\ stage[r] = "plugin"
    /\ Take(r, "plugin", catalog, "llm") \/ Miss(r, "llm") \/ Refuse(r)
    /\ UNCHANGED <<catalog, overrides, cachedVars, answering, pod, key, kind, clears, seen>>

(* _relay_auth_from_request, which asks the database about a key and does  *)
(* not catch its errors, _scrub_secret_values and                          *)
(* _apply_llm_proxy_overrides.                                             *)
ReadLlm(r) ==
    /\ stage[r] = "llm"
    /\ \/ Take(r, "llm", environ[pod[r]]["llm"], "flags")
       \/ kind[r] = "relay" /\ Refuse(r)
    /\ UNCHANGED <<catalog, overrides, cachedVars, answering, pod, key, kind, clears, seen>>

(* Cohorts, flags, campaign and update directive. *)
ReadFlags(r) ==
    /\ stage[r] = "flags"
    /\ Take(r, "flags", catalog, "store") \/ Miss(r, "store")
    /\ UNCHANGED <<catalog, overrides, cachedVars, answering, pod, key, kind, clears, seen>>

Respond(r) ==
    /\ stage[r] = "store"
    /\ GoOn(r, "answered")
    /\ IF Cacheable(kind[r])
       THEN CacheSet(pod[r], key[r], [doc |-> doc[r], left |-> TTL, early |-> r \in early])
       ELSE UNCHANGED cache
    /\ UNCHANGED <<catalog, overrides, environ, loaded, reload, answering, pod, key, kind, doc,
                   clears, errors, early, seen>>

(* The client has its answer. *)
Close(r) ==
    /\ stage[r] = "answered"
    /\ Forget(r)
    /\ UNCHANGED <<catalog, overrides, cachedVars, answering, pod, key, kind, clears,
                   errors, seen>>

GetConfig(r) ==
    \/ ReadTemplate(r) \/ ReadBase(r) \/ ReadPlugin(r) \/ ReadLlm(r) \/ ReadFlags(r)
    \/ Respond(r) \/ Close(r)

-----------------------------------------------------------------------------
(* Edits *)

(* A mutation of the catalog is committed by a handler of an admin pod, or *)
(* by one of the REST API on an api pod p ...                              *)
EditCatalog ==
    /\ catalog < MaxEdits
    /\ catalog' = catalog + 1
    /\ \/ UNCHANGED answering
       \/ \E p \in ApiPod : answering' = [answering EXCEPT ![p] = @ + 1]
    /\ UNCHANGED <<overrides, cachedVars, requestVars, clears, errors, early, seen>>

(* ... and its response passes security_headers.                           *)
SecurityHeaders(p) ==
    /\ answering[p] > 0
    /\ answering' = [answering EXCEPT ![p] = @ - 1]
    /\ CacheClear(p)
    /\ UNCHANGED <<catalog, overrides, environ, loaded, reload, requestVars, clears, errors>>

ClearConfigCache(p) ==
    /\ clears < MaxClears
    /\ clears' = clears + 1
    /\ CacheClear(p)
    /\ UNCHANGED <<catalog, overrides, environ, loaded, reload, answering, requestVars, errors>>

(* config_set or config_reset on an admin pod. *)
EditOverrides ==
    /\ overrides < MaxEdits
    /\ overrides' = overrides + 1
    /\ UNCHANGED <<catalog, cachedVars, answering, requestVars, clears, errors, early, seen>>

(* reload_overrides has fetched the rows and enters apply_state. *)
FetchRows(p) ==
    /\ reload[p] = 0
    /\ loaded[p] # overrides
    /\ loaded' = [loaded EXCEPT ![p] = overrides]
    /\ reload' = [reload EXCEPT ![p] = 1]
    /\ UNCHANGED <<catalog, overrides, environ, cache, answering, requestVars, clears,
                   errors, early, seen>>

(* Mutant: the hooks run before the keys are assigned. *)
ReloadOrder_hookFirst == <<"hook", "base", "llm">>

(* apply_state: the keys in the order of EDITABLE_KEYS, then the hooks.    *)
ReloadOrder == <<"base", "llm", "hook">>

ApplyStateStep(p) ==
    /\ reload[p] > 0
    /\ reload' = [reload EXCEPT ![p] = (@ + 1) % (Len(ReloadOrder) + 1)]
    /\ LET part == ReloadOrder[reload[p]]
       IN  IF part = "hook"
           THEN CacheClear(p) /\ UNCHANGED environ
           ELSE /\ environ' = [environ EXCEPT ![p][part] = loaded[p]]
                /\ UNCHANGED <<cache, early, seen>>
    /\ UNCHANGED <<catalog, overrides, loaded, answering, requestVars, clears, errors>>

-----------------------------------------------------------------------------
(* Mutant: the expiry of an entry is not looked at. *)
Older_kept(x) == x

(* Time brings an entry closer to its expiry. _config_cache_get treats one *)
(* that has expired as missing, and the next fill overwrites it.           *)
Older(x) == IF x = NoEntry \/ x.left = 1 THEN NoEntry ELSE [x EXCEPT !.left = @ - 1]

Tick == /\ \E p \in ApiPod : Entries(p) # {}
        /\ cache' = [p \in ApiPod |-> [k \in Key |-> Older(cache[p][k])]]
        /\ UNCHANGED <<catalog, overrides, environ, loaded, reload, answering, requestVars,
                       clears, errors, early, seen>>

CacheNext == \/ \E r \in Request : \/ \E p \in ApiPod, k \in Key, kd \in Kinds : Lookup(r, p, k, kd)
                                   \/ GetConfig(r)
             \/ \E p \in ApiPod : \/ SecurityHeaders(p) \/ ClearConfigCache(p)
                                  \/ FetchRows(p) \/ ApplyStateStep(p)
             \/ EditCatalog \/ EditOverrides \/ Tick

CacheSpec == CacheInit /\ [][CacheNext]_cacheVars

(* Handlers and sync loops keep running and time passes. Nobody has to ask *)
(* for /config, to edit or to clear.                                       *)
CacheFairness == /\ \A r \in Request : WF_cacheVars(GetConfig(r))
                 /\ \A p \in ApiPod : /\ WF_cacheVars(SecurityHeaders(p))
                                      /\ WF_cacheVars(FetchRows(p))
                                      /\ WF_cacheVars(ApplyStateStep(p))
                 /\ WF_cacheVars(Tick)

FairCacheSpec == CacheSpec /\ CacheFairness

-----------------------------------------------------------------------------
(* What apply_state and the middleware are for: once a reload is through,  *)
(* a pod's cache holds neither older nor mixed settings, and once it has   *)
(* answered a mutation no older catalog, except in answers of requests     *)
(* that were already running then (or that met a database error).          *)
OnlyOverlapsAreStale ==
    \A p \in ApiPod : \A x \in Entries(p) : ~x.early =>
        /\ reload[p] = 0 => x.doc.base = environ[p]["base"] /\ x.doc.llm = environ[p]["llm"]
        /\ ~x.doc.degraded => /\ x.doc.template >= seen[p]
                              /\ x.doc.plugin >= seen[p]
                              /\ x.doc.flags >= seen[p]

(* main.py:2565: answers that hold values of one client "ne doivent jamais *)
(* alimenter ni sortir du cache partage".                                  *)
PersonalStaysOut ==
    /\ \A p \in ApiPod : \A x \in Entries(p) : x.doc.kind \notin {"identity", "relay"}
    /\ \A r \in Request : stage[r] = "answered" /\ kind[r] \in {"identity", "relay"} =>
                              doc[r].kind = kind[r]

(* Whatever slipped into a cache (a fill that overlapped an edit, an edit  *)
(* made on another pod, an answer built during a database error) is gone   *)
(* after its TTL: once edits and errors are over, every answer is complete *)
(* and the latest.                                                         *)
Latest(d) == /\ ~d.degraded
             /\ d.template = catalog /\ d.plugin = catalog /\ d.flags = catalog
             /\ d.base = overrides /\ d.llm = overrides

AnswersConverge ==
    <>[](\A r \in Request : stage[r] = "answered" => Latest(doc[r]))
=============================================================================
