---------------------------- MODULE FeatureFlags ----------------------------
(***************************************************************************)
(* The feature flags of the plugins of one device type: the templates and  *)
(* the four ways to import one, the flag catalog each import is reconciled *)
(* with, the admin operations on flags, overrides and cohorts, and what    *)
(* /config serves to a device from all of them.                            *)
(*                                                                         *)
(* The handlers of the admin UI run one transaction, which takes effect    *)
(* when it commits; updating a plugin's row locks it until then.  The API  *)
(* deployment commits every statement.  Templates keep their toggles only. *)
(***************************************************************************)
EXTENDS Integers, FiniteSets, FiniteSetsExt

CONSTANTS
  Plugin,   \* plugin ids; the greatest is the one created last
  Name,     \* flag names
  Cohort,
  Template, \* the templates to import: per section, the toggles it sets
  Imported, \* the templates the plugins may have at the start
  Call,     \* bound on imports at a time
  MaxOps    \* bound on imports, admin operations and failures together

ASSUME PluginAssumption == Plugin \subseteq Nat \ {0} /\ Plugin # {} /\ MaxOps \in Nat

VARIABLES
  template,  \* plugins.config_template
  flags,     \* feature_flags, by scope and name
  overrides, \* feature_flag_overrides, by scope, name and cohort
  cohorts,   \* the cohorts that exist; the device belongs to all of them
  calls,     \* the imports under way
  lock,      \* the call whose transaction updated a plugin's row
  ops,
  admin,     \* the state an admin last gave to each flag
  acked,     \* the template last reported as imported for each plugin
  touched,   \* flags an admin created or deleted since the last import
  drifted    \* plugins whose last import failed, overlapped another or
             \* was not meant for them

vars == <<template, flags, overrides, cohorts, calls, lock, ops, admin, acked, touched, drifted>>

Global == 0                   \* plugin_slug = ''
Scope == Plugin \cup {Global}
Flag == Scope \X Name
State == {"transparent", "on", "off"}
Gate == {0, 2}                \* min_plugin_version; 0 is none
Version == {0, 1, 2}          \* of the device's plugin; 0 is unknown
Profile == {"dev", "prod"}
NoTemplate == [default |-> << >>, prod |-> << >>, none |-> TRUE]
NoFlag == [state |-> "absent", deprecated |-> FALSE, gate |-> 0]
NoOverride == [value |-> "absent", gate |-> 0]
Idle == [step |-> "idle", kind |-> "save", plugin |-> 0, t |-> NoTemplate,
         existing |-> {}, todo |-> {}, alone |-> TRUE]

\* The union of the toggles of all sections of a template.
Listed(t) == DOMAIN t.default \cup DOMAIN t.prod

\* Templates toggle flags by their names.
ASSUME TemplateAssumption ==
  /\ NoTemplate \notin Template /\ Imported \subseteq [Plugin -> Template \cup {NoTemplate}]
  /\ \A t \in Template : Listed(t) \subseteq Name

\* Some plugins already have a template, reconciled with the catalog.
Init ==
  /\ template \in Imported
  /\ flags = [f \in Flag |->
                IF f[1] # Global /\ f[2] \in Listed(template[f[1]])
                THEN [NoFlag EXCEPT !.state = "transparent"] ELSE NoFlag]
  /\ overrides = [f \in Flag |-> [c \in Cohort |-> NoOverride]]
  /\ cohorts = Cohort
  /\ calls = [c \in Call |-> Idle]
  /\ lock = [p \in Plugin |-> {}]
  /\ ops = 0
  /\ admin = [f \in Flag |-> "transparent"]
  /\ acked = template
  /\ touched = {}
  /\ drifted = {}

-----------------------------------------------------------------------------
(* What a device is served.                                                *)

\* _build_config_from_template: the toggles of default, then of the profile.
Toggles(t, profile) ==
  LET own == IF profile = "prod" THEN t.prod ELSE << >>
  IN [n \in DOMAIN t.default \cup DOMAIN own |->
        IF n \in DOMAIN own THEN own[n] ELSE t.default[n]]

\* _load_config_template: the plugin's own, else that of the newest plugin of
\* the device type that has one, else an empty one.
Loaded(p) ==
  LET has == {q \in Plugin : template[q] # NoTemplate}
  IN IF p \in has THEN template[p]
     ELSE IF has # {} THEN template[Max(has)] ELSE NoTemplate

\* A gate lets no unknown version and no older one through.
Gated(gate, v) == gate # 0 /\ (v = 0 \/ v < gate)

(* Mutant: flags of every plugin apply. *)
InScope_any(p) == Scope

InScope(p) == {Global, p}

\* _resolve_feature_flags: the overrides of the device's cohorts for a name.
CohortValues(p, v, n) ==
  {value \in {"on", "off"} :
     \E f \in InScope(p) \X {n}, c \in cohorts :
        /\ overrides[f][c].value = value
        /\ ~flags[f].deprecated
        /\ ~Gated(flags[f].gate, v) /\ ~Gated(overrides[f][c].gate, v)}

\* _resolve_forced_flags: rows in no order, the last one wins.
ForcedValues(p, v, n) ==
  {flags[f].state : f \in
     {f \in InScope(p) \X {n} :
        /\ flags[f].state \in {"on", "off"}
        /\ ~flags[f].deprecated /\ ~Gated(flags[f].gate, v)}}

(* Mutant: the template's value wins over the forced one. *)
Served_template(p, profile, v, n) ==
  LET cohort == CohortValues(p, v, n)
      toggles == Toggles(Loaded(p), profile)
  IN IF cohort # {} THEN {IF "off" \in cohort THEN "off" ELSE "on"}
     ELSE IF n \in DOMAIN toggles THEN {toggles[n]}
     ELSE IF ForcedValues(p, v, n) # {} THEN ForcedValues(p, v, n) ELSE {"absent"}

\* The values /config can serve for a name: the cohorts' (false wins), else
\* the forced one, else the template's.
Served(p, profile, v, n) ==
  LET cohort == CohortValues(p, v, n)
      toggles == Toggles(Loaded(p), profile)
  IN IF cohort # {} THEN {IF "off" \in cohort THEN "off" ELSE "on"}
     ELSE IF ForcedValues(p, v, n) # {} THEN ForcedValues(p, v, n)
     ELSE {IF n \in DOMAIN toggles THEN toggles[n] ELSE "absent"}

-----------------------------------------------------------------------------
(* reconcile_catalog_from_template.                                        *)

(* Mutant: an orphan that comes back stays deprecated. *)
Upserted_asIs(fs, p, names) ==
  [f \in Flag |->
     IF f[1] # p \/ f[2] \notin names \/ fs[f] # NoFlag THEN fs[f]
     ELSE [NoFlag EXCEPT !.state = "transparent"]]

(* Mutant: the template resets what an admin set. *)
Upserted_reset(fs, p, names) ==
  [f \in Flag |->
     IF f[1] # p \/ f[2] \notin names THEN fs[f]
     ELSE [fs[f] EXCEPT !.state = "transparent", !.deprecated = FALSE]]

\* A new flag is transparent; a known one keeps its state and is no orphan.
Upserted(fs, p, names) ==
  [f \in Flag |->
     IF f[1] # p \/ f[2] \notin names THEN fs[f]
     ELSE IF fs[f] = NoFlag THEN [NoFlag EXCEPT !.state = "transparent"]
     ELSE [fs[f] EXCEPT !.deprecated = FALSE]]

\* Flags seen at the start of the reconciliation and no longer listed.
Orphaned(fs, p, names) ==
  [f \in Flag |->
     IF f[1] = p /\ f[2] \in names /\ fs[f] # NoFlag
     THEN [fs[f] EXCEPT !.deprecated = TRUE] ELSE fs[f]]

\* The names a reconciliation reads as known and not deprecated.
Existing(p) == {n \in Name : flags[<<p, n>>] # NoFlag /\ ~flags[<<p, n>>].deprecated}

-----------------------------------------------------------------------------
(* The imports.                                                            *)

Running == {c \in Call : calls[c].step # "idle"}

Does(op) == ops < MaxOps /\ ops' = ops + op

\* A call starts; calls that overlap know of each other.
Started(c, kind, p, t, step) ==
  [d \in Call |->
     IF d = c THEN [Idle EXCEPT !.step = step, !.kind = kind, !.plugin = p, !.t = t,
                      !.existing = Existing(p), !.alone = Running = {}]
     ELSE IF calls[d] = Idle THEN Idle
     ELSE [calls[d] EXCEPT !.alone = FALSE]]

\* A call ends: reported says whether its template is reported as imported,
\* clean whether it was stored and reconciled.
Ends(c, reported, clean) ==
  LET p == calls[c].plugin
      fine == clean /\ calls[c].alone
  IN /\ calls' = [calls EXCEPT ![c] = Idle]
     /\ lock' = [q \in Plugin |-> lock[q] \ {c}]
     /\ acked' = IF reported THEN [acked EXCEPT ![p] = calls[c].t] ELSE acked
     /\ touched' = IF fine THEN {f \in touched : f[1] # p} ELSE touched
     /\ drifted' = (IF fine THEN drifted \ {p} ELSE drifted \cup {p}) \cup
                   (IF calls[c].kind = "wizard" THEN Plugin \ {p} ELSE {})

\* The plugins whose row an import updates: the wizard's UPDATE is by device
\* type; the upload passes its template as a dict, which the driver refuses.
Rows(kind, p) ==
  CASE kind = "save" -> {p}
    [] kind = "wizard" -> Plugin
    [] kind = "upload" -> {}

\* A transaction updates the rows, then reads the catalog: the template
\* editor (save), the deployment wizard (which reconciles the newest plugin
\* of the device type), a version upload.
ImportBegins(c) ==
  /\ calls[c] = Idle
  /\ Does(1)
  /\ \E kind \in {"save", "wizard", "upload"}, p \in Plugin, t \in Template :
       /\ kind = "wizard" => p = Max(Plugin)
       /\ \A q \in Rows(kind, p) : lock[q] = {}
       /\ lock' = [q \in Plugin |-> IF q \in Rows(kind, p) THEN {c} ELSE lock[q]]
       /\ calls' = Started(c, kind, p, t, "transaction")
  /\ UNCHANGED <<template, flags, overrides, cohorts, admin, acked, touched, drifted>>

\* The transaction commits its template and the reconciled catalog.
ImportCommits(c) ==
  LET k == calls[c]
  IN /\ k.step = "transaction"
     /\ template' = [q \in Plugin |-> IF q \in Rows(k.kind, k.plugin) THEN k.t ELSE template[q]]
     /\ flags' = Orphaned(Upserted(flags, k.plugin, Listed(k.t)), k.plugin,
                          k.existing \ Listed(k.t))
     /\ Ends(c, TRUE, k.kind # "upload")
     /\ UNCHANGED <<overrides, cohorts, ops, admin>>

\* The reconciliation fails and its error is swallowed, but the transaction
\* is void: the editor's commit rolls back and still reports success, the
\* others fail on their next statement.
ImportVoid(c) ==
  /\ calls[c].step = "transaction"
  /\ Does(1)
  /\ Ends(c, calls[c].kind = "save", FALSE)
  /\ UNCHANGED <<template, flags, overrides, cohorts, admin>>

\* The API deployment stores the template at once, or swallows the error.
DeployBegins(c) ==
  /\ calls[c] = Idle
  /\ Does(1)
  /\ \E p \in Plugin, t \in Template :
       /\ lock[p] = {}
       /\ template' \in {[template EXCEPT ![p] = t], template}
       /\ calls' = Started(c, "deploy", p, t, "read")
  /\ UNCHANGED <<flags, overrides, cohorts, lock, admin, acked, touched, drifted>>

DeployReads(c) ==
  /\ calls[c].step = "read"
  /\ calls' = [calls EXCEPT ![c].step = "upsert",
                            ![c].existing = Existing(calls[c].plugin),
                            ![c].todo = Listed(calls[c].t)]
  /\ UNCHANGED <<template, flags, overrides, cohorts, lock, ops, admin, acked, touched, drifted>>

DeployUpserts(c) ==
  /\ calls[c].step = "upsert"
  /\ \E n \in calls[c].todo :
       /\ flags' = Upserted(flags, calls[c].plugin, {n})
       /\ calls' = [calls EXCEPT ![c].todo = @ \ {n}]
  /\ UNCHANGED <<template, overrides, cohorts, lock, ops, admin, acked, touched, drifted>>

DeployMarks(c) ==
  LET k == calls[c]
  IN /\ k.step = "upsert" /\ k.todo = {}
     /\ flags' = Orphaned(flags, k.plugin, k.existing \ Listed(k.t))
     /\ Ends(c, TRUE, template[k.plugin] = k.t)
     /\ UNCHANGED <<template, overrides, cohorts, ops, admin>>

\* Its reconciliation fails at some statement; the deployment goes on.
DeployCutShort(c) ==
  /\ calls[c].step \in {"read", "upsert"}
  /\ Does(1)
  /\ Ends(c, TRUE, FALSE)
  /\ UNCHANGED <<template, flags, overrides, cohorts, admin>>

-----------------------------------------------------------------------------
(* The admin's operations.                                                 *)

\* A flag created or deleted beside an import: the import may or may not see it.
Touch(f) ==
  /\ touched' = touched \cup {f}
  /\ calls' = [c \in Call |->
                 IF calls[c] # Idle /\ calls[c].plugin = f[1]
                 THEN [calls[c] EXCEPT !.alone = FALSE] ELSE calls[c]]

FlagCreate(f) ==
  /\ flags[f] = NoFlag
  /\ Does(1)
  /\ \E s \in State, g \in Gate :
       /\ flags' = [flags EXCEPT ![f] = [state |-> s, deprecated |-> FALSE, gate |-> g]]
       /\ admin' = [admin EXCEPT ![f] = s]
  /\ Touch(f)
  /\ UNCHANGED <<template, overrides, cohorts, lock, acked, drifted>>

FlagUpdateDefault(f) ==
  /\ flags[f] # NoFlag
  /\ Does(1)
  /\ \E s \in State \ {flags[f].state} :
       /\ flags' = [flags EXCEPT ![f].state = s]
       /\ admin' = [admin EXCEPT ![f] = s]
  /\ UNCHANGED <<template, overrides, cohorts, calls, lock, acked, touched, drifted>>

FlagDelete(f) ==
  /\ flags[f] # NoFlag
  /\ Does(1)
  /\ flags' = [flags EXCEPT ![f] = NoFlag]
  /\ overrides' = [overrides EXCEPT ![f] = [c \in Cohort |-> NoOverride]]
  /\ admin' = [admin EXCEPT ![f] = "transparent"]
  /\ Touch(f)
  /\ UNCHANGED <<template, cohorts, lock, acked, drifted>>

\* An override of an existing flag for an existing cohort, new or replaced.
FlagAddOverride(f) ==
  /\ flags[f] # NoFlag
  /\ Does(1)
  /\ \E c \in cohorts, value \in {"on", "off"}, g \in Gate :
       overrides' = [overrides EXCEPT ![f][c] = [value |-> value, gate |-> g]]
  /\ UNCHANGED <<template, flags, cohorts, calls, lock, admin, acked, touched, drifted>>

FlagDeleteOverride(f) ==
  /\ Does(1)
  /\ \E c \in Cohort :
       /\ overrides[f][c] # NoOverride
       /\ overrides' = [overrides EXCEPT ![f][c] = NoOverride]
  /\ UNCHANGED <<template, flags, cohorts, calls, lock, admin, acked, touched, drifted>>

\* A cohort goes with its overrides (ON DELETE CASCADE).
CohortDelete(c) ==
  /\ c \in cohorts
  /\ Does(1)
  /\ cohorts' = cohorts \ {c}
  /\ overrides' = [f \in Flag |-> [overrides[f] EXCEPT ![c] = NoOverride]]
  /\ UNCHANGED <<template, flags, calls, lock, admin, acked, touched, drifted>>

Next ==
  \/ \E c \in Call :
       \/ ImportBegins(c) \/ ImportCommits(c) \/ ImportVoid(c)
       \/ DeployBegins(c) \/ DeployReads(c) \/ DeployUpserts(c) \/ DeployMarks(c)
       \/ DeployCutShort(c)
  \/ \E f \in Flag :
       \/ FlagCreate(f) \/ FlagUpdateDefault(f) \/ FlagDelete(f)
       \/ FlagAddOverride(f) \/ FlagDeleteOverride(f)
  \/ \E c \in Cohort : CohortDelete(c)

Spec == Init /\ [][Next]_vars

-----------------------------------------------------------------------------
(* Properties.                                                             *)

\* No import, whole, failed or overlapping others, changes the state an admin
\* gave a flag, through deprecation and reactivation: reconciliation "ne
\* reecrit JAMAIS un etat admin".
AdminStateKept == \A f \in Flag : flags[f] # NoFlag => flags[f].state = admin[f]

\* Between imports, a plugin whose last import met no failure and no other
\* import has the template reported for it, and its active flags are the ones
\* that template lists, but for those an admin created or deleted since.
ImportsTakeEffect ==
  Running = {} =>
    \A p \in Plugin \ drifted :
      /\ template[p] = acked[p]
      /\ \A n \in Name : <<p, n>> \notin touched =>
           (n \in Existing(p) <=> n \in Listed(template[p]))

\* A feature an admin forced off for every version, with no override for the
\* device and no global flag of its name, is not served on, whatever is
\* imported meanwhile: only a catalog that drifted or an API deployment
\* between its template and its reconciliation can bring it back.
ForcedOffHolds ==
  \A p \in Plugin, n \in Name, profile \in Profile, v \in Version :
    LET f == <<p, n>>
    IN (/\ admin[f] = "off" /\ flags[f].gate = 0
        /\ flags[<<Global, n>>] = NoFlag /\ CohortValues(p, v, n) = {}
        /\ "on" \in Served(p, profile, v, n))
       => \/ p \in drifted \/ f \in touched
          \/ \E c \in Call : calls[c].step # "idle" /\ calls[c].kind = "deploy" /\ calls[c].plugin = p

\* What a plugin's devices are served changes only with the plugin's own
\* template and flags, the global flags and the cohorts, unless the plugin
\* has no template: _load_config_template then takes another plugin's.
Isolated ==
  [][\A p \in Plugin :
       (/\ template[p] # NoTemplate /\ template'[p] = template[p]
        /\ cohorts' = cohorts
        /\ \A f \in {Global, p} \X Name : flags'[f] = flags[f] /\ overrides'[f] = overrides[f])
       => \A profile \in Profile, v \in Version, n \in Name :
            Served(p, profile, v, n)' = Served(p, profile, v, n)]_vars
=============================================================================
