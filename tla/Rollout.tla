------------------------------ MODULE Rollout ------------------------------
(***************************************************************************)
(* Update campaigns: how admins create, pause, resume and stop them        *)
(* (app/main.py, app/admin/router.py, app/admin/services/campaigns.py,     *)
(* app/admin/services/cohorts.py), how a /config check-in of a device is   *)
(* answered with an update directive, and how the device's report of what  *)
(* it did with it comes back.                                              *)
(*                                                                         *)
(* Five handlers create a campaign.  Three of them ("form", "wizard" and   *)
(* "upload") run in one transaction of a READ COMMITTED connection; two    *)
(* ("api" and "deploy") commit every statement on its own.  In all five    *)
(* the UPDATE that completes the older campaigns works on the rows it saw  *)
(* when it began, and the INSERT comes later.                              *)
(*                                                                         *)
(* Versions are numbers (0: the device does not say), hosts' versions too. *)
(* Time is counted in hours.  The device itself is outside the repository: *)
(* it is modelled from the directive it is given and the report it sends.  *)
(***************************************************************************)
EXTENDS Naturals, Sequences, FiniteSets, FiniteSetsExt

CONSTANTS Device, Plugin, Cohort,
          PluginOf,      \* the plugin a device runs
          Host,          \* the version of the device's host application
          Rank,          \* md5(client_uuid) % 100
          Percentile,    \* sha256(client_uuid) % 100
          FirstVersion,  \* the version a device starts with
          FirstPublished,\* the version every plugin has published at first
          Plans,         \* the campaigns admins ask for, one admin each
          NoPlugin, NoCohort, Idle, None,
          FirstCohorts,  \* the cohorts at first
          MaxCampaigns, MaxHours,
          MaxUpsets      \* admin interventions and faults, together

VARIABLES campaigns,   \* the campaigns table, in the order of the ids
          calls,       \* what the creating call for each plan is doing
          cohorts,     \* the cohorts table with cohort_members
          published,   \* the version the catalog serves, per plugin
          now,
          installed,   \* the version each device runs
          inflight,    \* the check-in resolved but not yet recorded, per device
          offered,     \* the directive the device holds
          reports,     \* POST /update/status on their way
          cds,         \* campaign_device_status
          upsets,
          auto,        \* history: campaigns a creating call has completed
          stranded,    \* history: those whose call then failed
          done,        \* history: <<campaign, device>> really installed
          via,         \* history: the campaign of a device's last install
          muddled      \* history: ... while another exchange was under way

adminVars == <<campaigns, calls, cohorts, published, auto, stranded>>
deviceVars == <<installed, inflight, offered, reports, cds, done, via, muddled>>
vars == <<adminVars, deviceVars, now, upsets>>

\* One more admin intervention or fault.
Upset == upsets < MaxUpsets /\ upsets' = upsets + 1

Admin == DOMAIN Plans
Campaigns == DOMAIN campaigns
Statuses == {"draft", "active", "paused", "completed", "rolled_back"}

-----------------------------------------------------------------------------
(* What a check-in is answered. *)

\* Manual cohorts list members; a percentage cohort takes the devices below
\* its percentage.  The other types need a configuration that no handler
\* writes (a pattern), or a list that nobody fetches (a Keycloak group).
Member(d, k) ==
  CASE cohorts[k].type = "manual" -> d \in cohorts[k].members
    [] cohorts[k].type = "percentage" -> Percentile[d] < cohorts[k].percent
    [] OTHER -> FALSE

DeviceCohorts(d) == {k \in Cohort : Member(d, k)}

Targets(c, d) == campaigns[c].cohort = NoCohort \/ campaigns[c].cohort \in DeviceCohorts(d)

\* The host versions from min_host_version up to max_host_version.
HostFits(c, d) == Host[d] \in campaigns[c].hosts

\* The newest active campaign that targets the device; its host filter is
\* applied to that one campaign only.
Newest(d) ==
  LET S == {c \in Campaigns : campaigns[c].status = "active" /\ Targets(c, d)}
  IN {c \in S : \A e \in S : campaigns[e].stamp <= campaigns[c].stamp}

ActiveCampaigns(d) == {c \in Newest(d) : HostFits(c, d)}

StageEnd(stages, i) == MapThenSumSet(LAMBDA j : stages[j].hours, 1..i)

\* What the body of a creating request says.
Request ==
  [path : {"form", "wizard", "upload", "api", "deploy"}, of : Plugin,
   version : Nat, rollback : Nat, target : {"all", "existing", "percent", "emails"},
   cohort : Cohort, members : SUBSET Device,
   stages : Seq([percent : Nat, hours : Nat]), hosts : SUBSET Nat, start : Statuses]

\* What a creating call has found and is about to do.
Call ==
  [plan : Request, phase : {"match", "complete", "insert", "commit"}, victims : SUBSET Nat,
   seen : SUBSET Nat, began : Nat, stamp : Nat, waits : SUBSET Admin]

ASSUME PlansAssumption ==
  /\ IsFiniteSet(Admin) /\ MaxCampaigns \in Nat
  /\ \A a \in Admin :
       /\ Plans[a] \in Request
       /\ \A i \in DOMAIN Plans[a].stages : StageEnd(Plans[a].stages, i) \in Nat
  /\ Idle \notin Call
  /\ FirstVersion \in [Device -> Nat]

(* Mutant: the stage after the current one is taken. *)
RolloutPercent_next(c) ==
  LET stages == campaigns[c].stages
      open == {i \in DOMAIN stages : now - campaigns[c].created < StageEnd(stages, i)}
  IN IF open = {} THEN 100 ELSE stages[Min(open \cup {1}) + 1].percent

RolloutPercent(c) ==
  LET stages == campaigns[c].stages
      open == {i \in DOMAIN stages :
                 \/ now - campaigns[c].created < StageEnd(stages, i)
                 \/ stages[i].percent = 100}
  IN IF open = {} THEN 100 ELSE stages[Min(open)].percent

Eligible(c, d) == Rank[d] < RolloutPercent(c)

(* Mutant: the same version is not recognised as such. *)
Directive_again(c, d, v) ==
  IF v = 0 \/ v > campaigns[c].version \/ ~Eligible(c, d) THEN None
  ELSE [campaign |-> c, action |-> "update", version |-> campaigns[c].version]

\* The directive campaign c gives device d on version v, None when there is
\* nothing to do.
Directive(c, d, v) ==
  LET to == campaigns[c].version
      back == campaigns[c].rollback
  IN IF v = 0 \/ v = to \/ ~Eligible(c, d) THEN None
     ELSE IF v < to
     THEN [campaign |-> c, action |-> "update", version |-> to]
     ELSE IF back # 0
     THEN [campaign |-> c, action |-> "rollback", version |-> back]
     ELSE None

-----------------------------------------------------------------------------
(* Creating a campaign. *)

\* The plugin a creating handler writes into the campaign: the admin form
\* leaves it NULL, the others resolve it.
Scope(plan) == IF plan.path = "form" THEN NoPlugin ELSE plan.of

\* create_campaign and POST /api/campaigns complete the active campaigns, the
\* deploy endpoint the paused ones too.
Completable(plan) == IF plan.path = "deploy" THEN {"active", "paused"} ELSE {"active"}

(* Mutant: a campaign without a plugin is not completed. *)
AutoCompleted_ofPlugin(plan) ==
  {c \in Campaigns :
     /\ plan.start = "active"
     /\ campaigns[c].status \in Completable(plan)
     /\ Scope(plan) = NoPlugin \/ campaigns[c].plugin = Scope(plan)}

\* The campaigns an active creation completes.
AutoCompleted(plan) ==
  {c \in Campaigns :
     /\ plan.start = "active"
     /\ campaigns[c].status \in Completable(plan)
     /\ Scope(plan) = NoPlugin \/ campaigns[c].plugin \in {Scope(plan), NoPlugin}}

(* Mutant: the connection of the admin form commits every statement. *)
Transactional_notForm(plan) == plan.path \in {"wizard", "upload"}

Transactional(plan) == plan.path \in {"form", "wizard", "upload"}

\* created_at has both the hour the stages count from and its place in the
\* order of the campaigns.
NextStamp ==
  1 + Max({0} \cup {campaigns[c].stamp : c \in Campaigns}
              \cup {calls[b].stamp : b \in {b \in Admin : calls[b] # Idle}})

\* The completing UPDATE begins: it sees the rows of this moment and queues
\* behind the transactions that have locked one of them.
Matching(plan) ==
  LET victims == AutoCompleted(plan)
  IN [plan |-> plan, phase |-> IF Transactional(plan) THEN "commit" ELSE "complete",
      victims |-> victims, seen |-> Campaigns, began |-> now, stamp |-> IF Transactional(plan) THEN NextStamp ELSE 0,
      waits |-> {b \in Admin : /\ calls[b] # Idle
                               /\ calls[b].phase = "commit"
                               /\ calls[b].victims \cap victims # {}}]

\* The call of a is over: nobody waits for its row locks any longer.
Released(a, call) ==
  [b \in Admin |-> IF b = a THEN call
                   ELSE IF calls[b] = Idle THEN Idle
                   ELSE [calls[b] EXCEPT !.waits = @ \ {a}]]

Locked(c) == \E b \in Admin : calls[b] # Idle /\ calls[b].phase = "commit" /\ c \in calls[b].victims

\* A row the UPDATE saw is completed unless it has changed status meanwhile.
Completed(table, call) ==
  [c \in DOMAIN table |-> IF c \in call.victims /\ table[c].status \in Completable(call.plan)
                          THEN [table[c] EXCEPT !.status = "completed"] ELSE table[c]]

\* The rows of the INSERT: the campaign, created at the time its transaction
\* (or its statement) began.
Inserted(table, call) ==
  Append(table, [status |-> call.plan.start, plugin |-> Scope(call.plan), of |-> call.plan.of,
                 version |-> call.plan.version, rollback |-> call.plan.rollback,
                 cohort |-> IF call.plan.target = "all" THEN NoCohort ELSE call.plan.cohort,
                 stages |-> call.plan.stages, hosts |-> call.plan.hosts,
                 created |-> IF Transactional(call.plan) THEN call.began ELSE now,
                 stamp |-> IF Transactional(call.plan) THEN call.stamp ELSE NextStamp,
                 seen |-> call.seen, hand |-> FALSE])

\* The wizard and the upload page create the cohort they target; a percentage
\* cohort gets no configuration, which reads as 0%.  Cohort names are unique.
CohortReady(plan) ==
  CASE plan.target = "all" -> TRUE
    [] plan.target = "existing" -> cohorts[plan.cohort].type # "absent"
    [] OTHER -> cohorts[plan.cohort].type = "absent"

CohortsWith(plan) ==
  CASE plan.target = "percent" ->
         [cohorts EXCEPT ![plan.cohort] = [type |-> "percentage", members |-> {}, percent |-> 0]]
    [] plan.target = "emails" ->
         [cohorts EXCEPT ![plan.cohort] = [type |-> "manual", members |-> plan.members, percent |-> 0]]
    [] OTHER -> cohorts

Ask(a, path) ==
  /\ calls[a] = Idle
  /\ Plans[a].path = path
  /\ Len(campaigns) + Cardinality({b \in Admin : calls[b] # Idle}) < MaxCampaigns

Begins(a) ==
  /\ calls' = [calls EXCEPT ![a] = Matching(Plans[a])]
  /\ UNCHANGED <<campaigns, cohorts, published, auto, stranded, deviceVars, now, upsets>>

AskForm(a) == Ask(a, "form") /\ Begins(a)
AskWizard(a) == Ask(a, "wizard") /\ Begins(a)
AskUpload(a) == Ask(a, "upload") /\ Begins(a)
AskApi(a) == Ask(a, "api") /\ Begins(a)

\* The deploy endpoint has published the version before it looks at the
\* campaigns.
AskDeploy(a) ==
  /\ Ask(a, "deploy")
  /\ published' = [published EXCEPT ![Plans[a].of] = Plans[a].version]
  /\ calls' = [calls EXCEPT ![a] = [Matching(Plans[a]) EXCEPT !.phase = "match", !.victims = {}, !.waits = {}]]
  /\ UNCHANGED <<campaigns, cohorts, auto, stranded, deviceVars, now, upsets>>

DeployMatches(a) ==
  /\ calls[a] # Idle /\ calls[a].phase = "match"
  /\ calls' = [calls EXCEPT ![a] = Matching(Plans[a])]
  /\ UNCHANGED <<campaigns, cohorts, published, auto, stranded, deviceVars, now, upsets>>

\* Autocommit: the completing UPDATE takes effect at once.
CompleteOlder(a) ==
  /\ calls[a] # Idle /\ calls[a].phase = "complete" /\ calls[a].waits = {}
  /\ campaigns' = Completed(campaigns, calls[a])
  /\ auto' = auto \cup calls[a].victims
  /\ calls' = [calls EXCEPT ![a].phase = "insert"]
  /\ UNCHANGED <<cohorts, published, stranded, deviceVars, now, upsets>>

InsertCampaign(a) ==
  /\ calls[a] # Idle /\ calls[a].phase = "insert"
  /\ CohortReady(calls[a].plan)
  /\ campaigns' = Inserted(campaigns, calls[a])
  /\ calls' = [calls EXCEPT ![a] = Idle]
  /\ UNCHANGED <<cohorts, published, auto, stranded, deviceVars, now, upsets>>

\* One transaction: the cohort, the older campaigns, the new one and, for an
\* upload, the published version appear together.
Commit(a) ==
  /\ calls[a] # Idle /\ calls[a].phase = "commit" /\ calls[a].waits = {}
  /\ CohortReady(calls[a].plan)
  /\ campaigns' = Inserted(Completed(campaigns, calls[a]), calls[a])
  /\ auto' = auto \cup calls[a].victims
  /\ cohorts' = CohortsWith(calls[a].plan)
  /\ published' = IF calls[a].plan.path = "upload"
                  THEN [published EXCEPT ![calls[a].plan.of] = calls[a].plan.version]
                  ELSE published
  /\ calls' = Released(a, Idle)
  /\ UNCHANGED <<stranded, deviceVars, now, upsets>>

\* A statement raises: a transaction is rolled back, an autocommitted call
\* answers 500 and what it has done stays.
CallFails(a) ==
  /\ calls[a] # Idle
  /\ \/ ~CohortReady(calls[a].plan) /\ UNCHANGED upsets
     \/ Upset
  /\ stranded' = IF calls[a].plan.path \in {"api", "deploy"} /\ calls[a].phase = "insert"
                THEN stranded \cup calls[a].victims ELSE stranded
  /\ calls' = Released(a, Idle)
  /\ UNCHANGED <<campaigns, cohorts, published, auto, deviceVars, now>>

-----------------------------------------------------------------------------
(* The other admin operations. *)

\* Start, activate, pause, resume, complete and abort write the status
\* whatever it was; the UPDATE waits for a transaction that holds the row.
CampaignAction(c, status) ==
  /\ Upset
  /\ ~Locked(c)
  /\ campaigns' = [campaigns EXCEPT ![c].status = status,
                                   ![c].hand = @ \/ status = "active"]
  /\ UNCHANGED <<calls, cohorts, published, auto, stranded, deviceVars, now>>

\* PATCH /api/campaigns/{id}/start, pause, resume and abort do the same, in
\* a statement of their own; the API has no 'complete'.
ApiCampaignAction(c, status) == status # "completed" /\ CampaignAction(c, status)

CreateCohort(k, type, members) ==
  /\ Upset
  /\ cohorts[k].type = "absent"
  /\ cohorts' = [cohorts EXCEPT ![k] = [type |-> type, percent |-> 0,
                                        members |-> IF type = "manual" THEN members ELSE {}]]
  /\ UNCHANGED <<campaigns, calls, published, auto, stranded, deviceVars, now>>

AddMember(k, d) ==
  /\ Upset
  /\ cohorts[k].type # "absent"
  /\ cohorts' = [cohorts EXCEPT ![k].members = @ \cup {d}]
  /\ UNCHANGED <<campaigns, calls, published, auto, stranded, deviceVars, now>>

\* The foreign key of campaigns.target_cohort_id refuses a targeted cohort.
DeleteCohort(k) ==
  /\ Upset
  /\ cohorts[k].type # "absent"
  /\ \A c \in Campaigns : campaigns[c].cohort # k
  /\ cohorts' = [cohorts EXCEPT ![k] = [type |-> "absent", members |-> {}, percent |-> 0]]
  /\ UNCHANGED <<campaigns, calls, published, auto, stranded, deviceVars, now>>

\* External: the operating procedure widens a percentage cohort in SQL.
WidenCohort(k, percent) ==
  /\ Upset
  /\ cohorts[k].type = "percentage" /\ cohorts[k].percent < percent
  /\ cohorts' = [cohorts EXCEPT ![k].percent = percent]
  /\ UNCHANGED <<campaigns, calls, published, auto, stranded, deviceVars, now>>

Tick ==
  /\ now < MaxHours
  /\ now' = now + 1
  /\ UNCHANGED <<adminVars, deviceVars, upsets>>

-----------------------------------------------------------------------------
(* Devices. *)

(* Mutant: a device that was notified once is not answered again. *)
CheckIn_once(d, c) ==
  /\ inflight[d] = Idle
  /\ c \in ActiveCampaigns(d)
  /\ Directive(c, d, installed[d]) # None /\ cds[c][d] = "none"
  /\ inflight' = [inflight EXCEPT ![d] = Directive(c, d, installed[d])]
  /\ UNCHANGED <<adminVars, installed, offered, reports, cds, done, via, muddled, now, upsets>>

\* GET /config resolves the campaign and the directive; a check-in that has
\* nothing to do changes nothing here.
CheckIn(d, c) ==
  /\ inflight[d] = Idle
  /\ c \in ActiveCampaigns(d)
  /\ Directive(c, d, installed[d]) # None
  /\ inflight' = [inflight EXCEPT ![d] = Directive(c, d, installed[d])]
  /\ UNCHANGED <<adminVars, installed, offered, reports, cds, done, via, muddled, now, upsets>>

\* ... then writes 'notified' over whatever the row says, and answers.
Notify(d) ==
  /\ inflight[d] # Idle
  /\ cds' = [cds EXCEPT ![inflight[d].campaign][d] = "notified"]
  /\ offered' = [offered EXCEPT ![d] = inflight[d]]
  /\ inflight' = [inflight EXCEPT ![d] = Idle]
  /\ UNCHANGED <<adminVars, installed, reports, done, via, muddled, now, upsets>>

\* The answer is lost on the way.
NotifyInVain(d) ==
  /\ inflight[d] # Idle
  /\ Upset
  /\ cds' = [cds EXCEPT ![inflight[d].campaign][d] = "notified"]
  /\ inflight' = [inflight EXCEPT ![d] = Idle]
  /\ UNCHANGED <<adminVars, installed, offered, reports, done, via, muddled, now>>

\* What GET /catalog/{slug}/download serves the device is the version its
\* plugin has published; it passes the directive's checksum only if it is
\* the artifact the campaign names.
Reachable(d, dir) ==
  /\ campaigns[dir.campaign].of = PluginOf[d]
  /\ published[PluginOf[d]] = dir.version

Report(d, status) == [campaign |-> offered[d].campaign, device |-> d, status |-> status]

\* Another exchange about the same campaign is still under way.
Overlaps(d) ==
  \/ inflight[d] # Idle /\ inflight[d].campaign = offered[d].campaign
  \/ \E m \in reports : m.device = d /\ m.campaign = offered[d].campaign

\* External: the device downloads, checks and installs, then reports.
Install(d) ==
  /\ offered[d] # None
  /\ Reachable(d, offered[d])
  /\ installed' = [installed EXCEPT ![d] = offered[d].version]
  /\ reports' = reports \cup {Report(d, "installed")}
  /\ done' = done \cup {<<offered[d].campaign, d>>}
  /\ via' = [via EXCEPT ![d] = offered[d].campaign]
  /\ muddled' = IF Overlaps(d) THEN muddled \cup {<<offered[d].campaign, d>>} ELSE muddled
  /\ offered' = [offered EXCEPT ![d] = None]
  /\ UNCHANGED <<adminVars, inflight, cds, now, upsets>>

\* External: it could not (a wrong checksum, a failed download), or the user
\* deferred the update.
GiveUp(d) ==
  /\ offered[d] # None
  /\ \/ /\ ~Reachable(d, offered[d])
        /\ reports' = reports \cup {Report(d, "checksum_error")}
        /\ UNCHANGED upsets
     \/ /\ Upset
        /\ reports' = reports \cup {Report(d, "deferred")}
  /\ offered' = [offered EXCEPT ![d] = None]
  /\ UNCHANGED <<adminVars, installed, inflight, cds, done, via, muddled, now>>

ReportedAs(status) == IF status = "installed" THEN "updated" ELSE "failed"

\* POST /update/status: every status but "installed" is written as failed.
ReportArrives(m) ==
  /\ m \in reports
  /\ cds' = [cds EXCEPT ![m.campaign][m.device] = ReportedAs(m.status)]
  /\ reports' = reports \ {m}
  /\ UNCHANGED <<adminVars, installed, inflight, offered, done, via, muddled, now, upsets>>

\* The report, or the statement it causes, fails: the error is only logged.
ReportLost(m) ==
  /\ m \in reports
  /\ Upset
  /\ reports' = reports \ {m}
  /\ muddled' = muddled \cup {<<m.campaign, m.device>>}
  /\ UNCHANGED <<adminVars, installed, inflight, offered, cds, done, via, now>>

-----------------------------------------------------------------------------
Init ==
  /\ campaigns = <<>>
  /\ calls = [a \in Admin |-> Idle]
  /\ cohorts = FirstCohorts
  /\ published = [p \in Plugin |-> FirstPublished]
  /\ now = 0
  /\ installed = FirstVersion
  /\ inflight = [d \in Device |-> Idle]
  /\ offered = [d \in Device |-> None]
  /\ reports = {}
  /\ cds = [c \in 1..MaxCampaigns |-> [d \in Device |-> "none"]]
  /\ upsets = 0
  /\ auto = {} /\ stranded = {} /\ done = {} /\ muddled = {}
  /\ via = [d \in Device |-> 0]

Creates(a) ==
  \/ AskForm(a)
  \/ AskWizard(a)
  \/ AskUpload(a)
  \/ AskApi(a)
  \/ AskDeploy(a)
  \/ DeployMatches(a)
  \/ CompleteOlder(a)
  \/ InsertCampaign(a)
  \/ Commit(a)
  \/ CallFails(a)

Manages ==
  \/ \E c \in Campaigns, status \in Statuses \ {"draft"} :
       CampaignAction(c, status) \/ ApiCampaignAction(c, status)
  \/ \E k \in Cohort :
       \/ \E type \in {"manual", "percentage"}, D \in SUBSET Device : CreateCohort(k, type, D)
       \/ \E d \in Device : AddMember(k, d)
       \/ DeleteCohort(k)
       \/ \E percent \in {50} : WidenCohort(k, percent)

Polls(d) ==
  \/ \E c \in Campaigns : CheckIn(d, c)
  \/ Notify(d)
  \/ NotifyInVain(d)
  \/ Install(d)
  \/ GiveUp(d)

Next ==
  \/ \E a \in Admin : Creates(a)
  \/ Manages
  \/ \E d \in Device : Polls(d)
  \/ \E m \in reports : ReportArrives(m) \/ ReportLost(m)
  \/ Tick

Spec == Init /\ [][Next]_vars

\* Devices poll, carry out what they are told and time passes; nobody makes
\* the admins do anything.
FairSpec ==
  /\ Spec
  /\ WF_vars(Tick)
  /\ \A d \in Device :
       /\ WF_vars(\E c \in Campaigns : CheckIn(d, c))
       /\ WF_vars(Notify(d))
       /\ WF_vars(Install(d) \/ GiveUp(d))

-----------------------------------------------------------------------------
(* Properties. *)

\* A staged rollout holds back the devices it should: until a stage has run
\* its hours, counted from the campaign's creation through pauses and
\* resumptions, no device beyond that stage's percentage has a status row
\* (_get_current_rollout_percent, _build_update_directive).
StagedRollout ==
  \A c \in Campaigns, d \in Device :
    LET stages == campaigns[c].stages
    IN cds[c][d] # "none" =>
         \A i \in DOMAIN stages :
           now - campaigns[c].created < StageEnd(stages, i) =>
             \E j \in 1..i : Rank[d] < stages[j].percent

Overlapped(c, e) == e \notin campaigns[c].seen /\ c \notin campaigns[e].seen

SameScope(c, e) ==
  \/ NoPlugin \in {campaigns[c].plugin, campaigns[e].plugin}
  \/ campaigns[c].plugin = campaigns[e].plugin

\* Two campaigns over the same plugin are active together only if an admin
\* activated one of them by hand, or their creating calls overlapped: a
\* creating call leaves no older active campaign beside its own
\* (create_campaign, _create_campaign_db_work, _deploy_plugin_db_work).
OnlyOverlapsCoexist ==
  \A c, e \in Campaigns :
    (/\ c # e
     /\ campaigns[c].status = "active" /\ campaigns[e].status = "active"
     /\ SameScope(c, e))
    => campaigns[c].hand \/ campaigns[e].hand \/ Overlapped(c, e)

\* A campaign is completed for the sake of a newer one: once no creating
\* call is under way, the newer one exists, except after a failed call of
\* the two endpoints that commit every statement on its own.
CompletedForANewerOne ==
  \A c \in auto :
    \/ \E e \in Campaigns : c \in campaigns[e].seen
    \/ \E a \in Admin : calls[a] # Idle /\ calls[a].plan.path \in {"api", "deploy"}
    \/ c \in stranded

\* The counts of get_campaign_stats and /api/campaigns/{id}/progress.
Stats(c) == [status \in {"notified", "updated", "failed"} |-> {d \in Device : cds[c][d] = status}]

Quiet(c, d) ==
  /\ inflight[d] # Idle => inflight[d].campaign # c
  /\ offered[d] # None => offered[d].campaign # c
  /\ \A m \in reports : m.device = d => m.campaign # c

\* The dashboard is right.  It shows no device as updated that has not
\* installed what the campaign told it to; and a device that runs the version
\* its campaign told it to install, and whose exchanges about it are over, is
\* shown as updated, unless its install overlapped another check-in or report
\* about the campaign, or a report was lost: nothing else writes 'notified'
\* over 'updated' (_update_campaign_device_status_sync,
\* _upsert_campaign_device_status).
DashboardIsRight ==
  /\ \A c \in Campaigns : \A d \in Stats(c)["updated"] : <<c, d>> \in done
  /\ \A d \in Device :
       LET c == via[d]
       IN (/\ c # 0
           /\ installed[d] = campaigns[c].version
           /\ Quiet(c, d)
           /\ <<c, d>> \notin muddled)
          => cds[c][d] = "updated"

\* A device is done when no campaign has a directive for it that it could
\* carry out.
Settled(d) ==
  \A c \in ActiveCampaigns(d) :
    LET dir == Directive(c, d, installed[d]) IN dir # None => ~Reachable(d, dir)

\* A polling device gets there: again and again it is left with nothing to
\* do, or only with a directive for something its catalog page does not
\* serve; update and rollback directives never chase each other for ever.
Converges == \A d \in Device : []<>Settled(d)
=============================================================================
