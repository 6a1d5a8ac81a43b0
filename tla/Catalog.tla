------------------------------ MODULE Catalog ------------------------------
(***************************************************************************)
(* The plugin catalog: plugins, their slugs and aliases, their versions,   *)
(* the artifacts and platform variants behind the versions, the binaries   *)
(* on the admin volume and in the caches of the API pods, and the          *)
(* downloads and update manifests served from them (app/main.py,           *)
(* app/admin/router.py, app/admin/services/catalog.py and artifacts.py).   *)
(*                                                                         *)
(* The admin UI works in one transaction of a READ COMMITTED connection,   *)
(* but the binary is written to disk before it commits.  The deploy        *)
(* endpoint of the API commits every statement on its own.                 *)
(*                                                                         *)
(* All plugins are of one device type.  A file is a record: "of" says what *)
(* it was published as, n makes it unique, and the SHA-256 of a file is    *)
(* the file.  The binaries are in mode "local".                            *)
(***************************************************************************)
EXTENDS Naturals, Functions

CONSTANTS Plugin,      \* plugin ids
          Name,        \* slugs and aliases
          Version,
          Variant,     \* platform variants; "" is the binary without one
          Pod,         \* API pods, each with its cache of binaries
          Call,        \* publications that may be under way at once
          FirstPlugins,\* the plugins table at first
          NoPlugin, Nothing,
          MaxOps       \* publications, admin operations and faults, together

VARIABLES plugins,     \* slug and status of every plugin id
          aliases,     \* plugin_aliases: the plugin of an alias
          versions,    \* plugin_versions
          artifacts,   \* artifacts, by <<platform_variant, version>>
          links,       \* plugin_version_artifacts: <<plugin, version, variant>>
          campaigns,   \* the plugin, artifact and status of the campaigns
          disk,        \* the admin pod's volume
          cache,       \* the binaries each API pod holds
          calls,       \* publications under way
          now,         \* the order of the published_at stamps
          writes, upsets,
          rewritten,   \* history: what has been published more than once
          lost,        \* history: paths that were not forwarded
          had,         \* history: plugins that had a published version
          hand,        \* history: plugins whose versions were set by hand
          cut,         \* history: plugins a deploy has left half done
          crossed      \* history: plugins with overlapping publications

catalogVars == <<plugins, aliases>>
releaseVars == <<versions, artifacts, links, campaigns, now>>
fileVars == <<disk, cache, writes, rewritten, lost>>
historyVars == <<had, hand, cut, crossed>>
vars == <<catalogVars, releaseVars, fileVars, calls, upsets, historyVars>>

Put(f, k, v) == [x \in DOMAIN f \cup {k} |-> IF x = k THEN v ELSE f[x]]

\* One more binary; one more admin operation or fault.
Write == writes + upsets < MaxOps /\ writes' = writes + 1
Upset == writes + upsets < MaxOps /\ upsets' = upsets + 1

\* The modes of distribution: by this server, or by a URL.
Mode == {"managed", "download_link"}

NoVersion == [status |-> "absent", art |-> Nothing, mode |-> "managed", at |-> 0]

\* A row of plugins, of plugin_versions and of campaigns, an artifact's key, the
\* path of a binary, a binary, and what a publication holds.
PluginRow ==
  [slug : Name \cup {Nothing},
   status : {"absent", "active", "deprecated", "removed", "purged"}]

Key == Variant \X Version

Release ==
  [status : {"absent", "draft", "published", "deprecated", "yanked"},
   art : Key \cup {Nothing}, mode : Mode, at : Nat]

Campaign ==
  [plugin : Plugin \cup {NoPlugin}, art : Key, status : {"active", "completed"}]

Path == {"ui", "api", "artifact"} \X (Name \cup {Nothing}) \X Variant \X Version

File == [of : Path, plugin : Plugin \cup {NoPlugin}, n : Nat]

Publication ==
  [kind : {"ui", "api"}, plugin : Plugin, variant : Variant, version : Version,
   path : Path, older : SUBSET Version, stamp : Nat, file : File,
   step : {"written", "persisted", "stored", "deprecated"}]

ASSUME CatalogAssumption ==
  /\ FirstPlugins \in [Plugin -> PluginRow]
  /\ "" \in Variant
  /\ NoPlugin \notin Plugin
  /\ Nothing \notin File \cup Publication

Present(p) == plugins[p].status \notin {"absent", "purged"}

\* The versions of p that are published.
Current(p) == {v \in Version : versions[p][v].status = "published"}

-----------------------------------------------------------------------------
(* Names. *)

BySlug(n) == {p \in Plugin : plugins[p].slug = n /\ plugins[p].status = "active"}

ByAlias(n) == {p \in Plugin : aliases[n] = p /\ plugins[p].status = "active"}

(* Mutant: the aliases are looked up first. *)
ResolveDevice_aliasFirst(n) == IF ByAlias(n) # {} THEN ByAlias(n) ELSE BySlug(n)

\* _resolve_device: the plugin of a slug, else of an alias.
ResolveDevice(n) == IF BySlug(n) # {} THEN BySlug(n) ELSE ByAlias(n)

\* The partial unique index on the slugs of plugins that are not removed.
SlugFree(n, p) ==
  \A q \in Plugin \ {p} :
     plugins[q].slug = n => plugins[q].status \in {"absent", "removed", "purged"}

-----------------------------------------------------------------------------
(* Versions and artifacts. *)

(* Mutant: the versions published before stay published. *)
Deprecate_none(vs, older) == vs

\* The UPDATE that deprecates the published versions in older.
Deprecate(vs, older) ==
  [v \in Version |-> IF v \in older /\ vs[v].status = "published"
                     THEN [vs[v] EXCEPT !.status = "deprecated"] ELSE vs[v]]

\* The upsert of (plugin, version) of create_version.
CreateVersion(vs, v, art, mode, status, stamp) ==
  [vs EXCEPT ![v] =
     [status |-> status, mode |-> mode,
      art |-> IF art = Nothing THEN vs[v].art ELSE art,
      at |-> IF status = "published" /\ vs[v].at = 0 THEN stamp ELSE vs[v].at]]

Publish(vs, older, v, art, mode, stamp) ==
  CreateVersion(Deprecate(vs, older \ {v}), v, art, mode, "published", stamp)

(* Mutant: the conflict is on the variant, whatever the version. *)
CreateArtifact_anyVersion(a, path, file) ==
  [b \in DOMAIN artifacts \cup {a} |->
     IF b[1] = a[1] THEN [path |-> path, sum |-> file] ELSE artifacts[b]]

\* The upsert of (device_type, platform_variant, version) of create_artifact.
CreateArtifact(a, path, file) == Put(artifacts, a, [path |-> path, sum |-> file])

(* Mutant: the versions' artifacts are not spared. *)
Orphans_versions(vs, cs) == {a \in DOMAIN artifacts : \A c \in cs : c.art # a}

\* What "Clean orphan artifacts" deletes, after the rows of the handler.
Orphans(vs, cs) ==
  {a \in DOMAIN artifacts : /\ \A p \in Plugin, v \in Version : vs[p][v].art # a
                            /\ \A c \in cs : c.art # a}

\* The deletion of versions cascades to their links.
LinksWithout(p, old) == {l \in links : l[1] # p \/ l[2] \notin old}

\* The deletion, which cascades to plugin_version_artifacts.
CleanOrphans(vs, cs, ls) ==
  LET gone == Orphans(vs, cs)
  IN /\ versions' = vs
     /\ campaigns' = cs
     /\ artifacts' = Restrict(artifacts, DOMAIN artifacts \ gone)
     /\ links' = {l \in ls : <<l[3], l[2]>> \notin gone}

\* An active campaign completes the active ones of its plugin and of none; one
\* without a plugin completes them all.
WithCampaign(p, a) ==
  {IF c.status = "active" /\ (p = NoPlugin \/ c.plugin \in {p, NoPlugin})
   THEN [c EXCEPT !.status = "completed"] ELSE c : c \in campaigns}
  \cup {[plugin |-> p, art |-> a, status |-> "active"]}

-----------------------------------------------------------------------------
(* Publishing a binary. *)

\* {slug}-{version}[-{variant}] for the UI, {version}_{filename} for the API.
PathOf(kind, slug, x, v) == <<kind, slug, x, v>>

\* Every file there is.
Files ==
  Range(disk) \cup (UNION {Range(cache[h]) : h \in Pod})
  \cup {calls[c].file : c \in {d \in Call : calls[d] # Nothing}}

Again(what) == IF what \in {f.of : f \in Files} THEN rewritten \cup {what} ELSE rewritten

\* The record of a publication that begins: the file, and the versions its
\* UPDATE will find published.
Begin(c, kind, p, x, v, step) ==
  LET slug == plugins[p].slug
      what == <<kind, slug, x, v>>
      others == {d \in Call : calls[d] # Nothing /\ calls[d].plugin = p}
  IN /\ calls[c] = Nothing
     /\ Write
     /\ calls' = [calls EXCEPT ![c] =
           [kind |-> kind, plugin |-> p, variant |-> x, version |-> v,
            path |-> PathOf(kind, slug, x, v), older |-> Current(p) \ {v},
            stamp |-> now + 1,
            file |-> [of |-> what, plugin |-> p, n |-> writes'], step |-> step]]
     /\ rewritten' = Again(what)
     /\ crossed' = IF others = {} THEN crossed ELSE crossed \cup {p}

\* The admin uploads a version: the file is on disk before the transaction
\* commits.
Upload(c, p, x, v) ==
  /\ Present(p)
  /\ Begin(c, "ui", p, x, v, "written")
  /\ disk' = Put(disk, calls'[c].path, calls'[c].file)
  /\ now' = now + 1
  /\ UNCHANGED <<catalogVars, versions, artifacts, links, campaigns, cache, lost, upsets, had, hand, cut>>

\* The rows of the upload, with the campaign when it deploys.  A mode other
\* than the default counts as an intervention.
UploadCommits(c) ==
  LET k == calls[c]
      a == <<k.variant, k.version>>
  IN /\ k # Nothing /\ k.kind = "ui"
     /\ Present(k.plugin)
     /\ artifacts' = CreateArtifact(a, k.path, k.file)
     /\ \E mode \in Mode :
          /\ versions' = [versions EXCEPT ![k.plugin] =
                            Publish(@, k.older, k.version, a, mode, k.stamp)]
          /\ IF mode = "managed" THEN UNCHANGED upsets ELSE Upset
     /\ links' = IF k.variant = "" THEN links
                 ELSE links \cup {<<k.plugin, k.version, k.variant>>}
     /\ campaigns' \in {campaigns, WithCampaign(k.plugin, a)}
     /\ calls' = [calls EXCEPT ![c] = Nothing]
     /\ had' = had \cup {k.plugin}
     /\ cut' = cut \ {k.plugin}
     /\ UNCHANGED <<catalogVars, now, fileVars, hand, crossed>>

(* Mutant: the binary stays on the pod that received it. *)
Forwarded_not(path, file) == disk

\* The copy of the binary that the API pod sends to the admin pod.
Forwarded(path, file) == Put(disk, path, file)

\* POST /api/plugins/{slug}/deploy: the pod that got it keeps the binary and
\* forwards it; a forward that fails is logged.
Deploy(c, h, p, v) ==
  /\ plugins[p].status = "active"
  /\ Begin(c, "api", p, "", v, "persisted")
  /\ cache' = [cache EXCEPT ![h] = Put(@, calls'[c].path, calls'[c].file)]
  /\ \/ /\ disk' = Forwarded(calls'[c].path, calls'[c].file)
        /\ UNCHANGED <<lost, upsets>>
     \/ /\ Upset
        /\ lost' = lost \cup {calls'[c].path}
        /\ UNCHANGED disk
  /\ UNCHANGED <<catalogVars, releaseVars, had, hand, cut>>

\* Each statement of the deploy is committed on its own.
DeployArtifact(c) ==
  LET k == calls[c]
  IN /\ k # Nothing /\ k.step = "persisted"
     /\ artifacts' = CreateArtifact(<<"", k.version>>, k.path, k.file)
     /\ calls' = [calls EXCEPT ![c].step = "stored"]
     /\ UNCHANGED <<catalogVars, versions, links, campaigns, now, fileVars, upsets,
                    historyVars>>

DeployDeprecates(c) ==
  LET k == calls[c]
  IN /\ k # Nothing /\ k.step = "stored"
     /\ versions' = [versions EXCEPT ![k.plugin] =
                       Deprecate(@, Current(k.plugin) \ {k.version})]
     /\ calls' = [calls EXCEPT ![c].step = "deprecated"]
     /\ cut' = IF Current(k.plugin) = {} \/ k.version \in Current(k.plugin) THEN cut
               ELSE cut \cup {k.plugin}
     /\ UNCHANGED <<catalogVars, artifacts, links, campaigns, now, fileVars, upsets,
                    had, hand, crossed>>

DeployPublishes(c) ==
  LET k == calls[c]
      a == <<"", k.version>>
  IN /\ k # Nothing /\ k.step = "deprecated"
     /\ Present(k.plugin) /\ a \in DOMAIN artifacts
     /\ versions' = [versions EXCEPT ![k.plugin] =
                       CreateVersion(@, k.version, a, @[k.version].mode, "published", now + 1)]
     /\ now' = now + 1
     /\ campaigns' = WithCampaign(k.plugin, a)
     /\ calls' = [calls EXCEPT ![c] = Nothing]
     /\ had' = had \cup {k.plugin}
     /\ cut' = cut \ {k.plugin}
     /\ UNCHANGED <<catalogVars, artifacts, links, fileVars, upsets, hand, crossed>>

\* A foreign key of its next INSERT has nothing to refer to: the plugin was
\* purged, or the artifact cleaned away as an orphan.
Doomed(c) ==
  \/ ~Present(calls[c].plugin)
  \/ calls[c].step = "deprecated" /\ <<"", calls[c].version>> \notin DOMAIN artifacts

\* The call ends in an error: a transaction leaves the file behind, the
\* statements of a deploy stay.
CallFails(c) ==
  /\ calls[c] # Nothing
  /\ \/ Upset
     \/ Doomed(c) /\ UNCHANGED upsets
  /\ calls' = [calls EXCEPT ![c] = Nothing]
  /\ UNCHANGED <<catalogVars, releaseVars, fileVars, historyVars>>

-----------------------------------------------------------------------------
(* The other operations of the admin. *)

\* An artifact uploaded on its own, for a campaign or a version to come.
UploadArtifact(x, v) ==
  LET what == <<"artifact", Nothing, x, v>>
      file == [of |-> what, plugin |-> NoPlugin, n |-> writes + 1]
  IN /\ Upset
     /\ writes' = writes + 1
     /\ disk' = Put(disk, what, file)
     /\ artifacts' = CreateArtifact(<<x, v>>, what, file)
     /\ rewritten' = Again(what)
     /\ UNCHANGED <<catalogVars, versions, links, campaigns, now, cache, lost, calls,
                    historyVars>>

\* create_plugin: a removed plugin gives its slug away.
NewPlugin(p, n) ==
  /\ Upset
  /\ plugins[p].status = "absent" /\ SlugFree(n, p)
  /\ plugins' = [q \in Plugin |->
        IF q = p THEN [slug |-> n, status |-> "active"]
        ELSE IF plugins[q] = [slug |-> n, status |-> "removed"]
        THEN [plugins[q] EXCEPT !.slug = Nothing] ELSE plugins[q]]
  /\ UNCHANGED <<calls, cache, lost, links, campaigns, hand, cut, crossed>>

\* The form may carry a binary, which is published as the first version.
CreatePlugin(p, n, also) ==
  /\ NewPlugin(p, n)
  /\ aliases' = [m \in Name |-> IF m \in also /\ aliases[m] = NoPlugin THEN p ELSE aliases[m]]
  /\ \/ UNCHANGED <<versions, artifacts, now, disk, writes, rewritten, had>>
     \/ \E v \in Version :
          LET what == PathOf("ui", n, "", v)
              file == [of |-> what, plugin |-> p, n |-> writes + 1]
          IN /\ writes' = writes + 1
             /\ disk' = Put(disk, what, file)
             /\ rewritten' = Again(what)
             /\ artifacts' = CreateArtifact(<<"", v>>, what, file)
             /\ versions' = [versions EXCEPT ![p] = Publish(@, {}, v, <<"", v>>, "managed", now + 1)]
             /\ now' = now + 1
             /\ had' = had \cup {p}

\* The copy takes a slug that no plugin has, removed ones included.
DuplicatePlugin(p, q, n) ==
  /\ Present(q)
  /\ \A r \in Plugin : plugins[r].slug # n
  /\ NewPlugin(p, n)
  /\ UNCHANGED <<aliases, versions, artifacts, now, disk, writes, rewritten, had>>

\* Any status may be set by hand, within the unique index.
PluginStatus(p, status) ==
  /\ Upset
  /\ Present(p) /\ plugins[p].status # status
  /\ status # "removed" => SlugFree(plugins[p].slug, p)
  /\ plugins' = [plugins EXCEPT ![p].status = status]
  /\ UNCHANGED <<aliases, releaseVars, fileVars, calls, historyVars>>

AliasAdd(n, p) ==
  /\ Upset
  /\ Present(p) /\ aliases[n] = NoPlugin
  /\ aliases' = [aliases EXCEPT ![n] = p]
  /\ UNCHANGED <<plugins, releaseVars, fileVars, calls, historyVars>>

AliasDelete(n) ==
  /\ Upset
  /\ aliases[n] # NoPlugin
  /\ aliases' = [aliases EXCEPT ![n] = NoPlugin]
  /\ UNCHANGED <<plugins, releaseVars, fileVars, calls, historyVars>>

\* The version form: an artifact or a download URL, any mode and status.
VersionCreate(p, v, a, mode, status) ==
  /\ Upset
  /\ Present(p) /\ a \in DOMAIN artifacts \cup {Nothing}
  /\ versions' = [versions EXCEPT ![p] =
        CreateVersion(IF status = "published" THEN Deprecate(@, Version \ {v}) ELSE @,
                      v, a, mode, status, now + 1)]
  /\ now' = now + 1
  /\ hand' = hand \cup {p}
  /\ had' = IF status = "published" THEN had \cup {p} ELSE had
  /\ UNCHANGED <<catalogVars, artifacts, links, campaigns, fileVars, calls, cut, crossed>>

\* Publishing by hand does not deprecate the others.
VersionStatus(p, v, status) ==
  /\ Upset
  /\ versions[p][v].status \notin {"absent", status}
  /\ versions' = [versions EXCEPT ![p][v].status = status,
                                  ![p][v].at = IF status = "published" THEN now + 1 ELSE @]
  /\ now' = now + 1
  /\ hand' = hand \cup {p}
  /\ had' = IF status = "published" THEN had \cup {p} ELSE had
  /\ UNCHANGED <<catalogVars, artifacts, links, campaigns, fileVars, calls, cut, crossed>>

\* A campaign of the admin form has no plugin.
FormCampaign(a) ==
  /\ Upset
  /\ campaigns' = WithCampaign(NoPlugin, a)
  /\ UNCHANGED <<catalogVars, versions, artifacts, links, now, fileVars, calls,
                 historyVars>>

EndCampaign(c) ==
  /\ Upset
  /\ c.status = "active"
  /\ campaigns' = (campaigns \ {c}) \cup {[c EXCEPT !.status = "completed"]}
  /\ UNCHANGED <<catalogVars, versions, artifacts, links, now, fileVars, calls,
                 historyVars>>

\* The deprecated and yanked versions go, their variants with them.
VersionsPurge(p) ==
  LET old == {v \in Version : versions[p][v].status \in {"deprecated", "yanked"}}
  IN /\ Upset
     /\ CleanOrphans([versions EXCEPT ![p] =
                         [v \in Version |-> IF v \in old THEN NoVersion ELSE @[v]]],
                     campaigns,
                     LinksWithout(p, old))
     /\ UNCHANGED <<catalogVars, now, fileVars, calls, historyVars>>

\* The ended campaigns of the plugin go, and those of no plugin.
DeploymentsPurge(p) ==
  /\ Upset
  /\ CleanOrphans(versions,
                  {c \in campaigns : c.status = "active" \/ c.plugin \notin {p, NoPlugin}},
                  links)
  /\ UNCHANGED <<catalogVars, now, fileVars, calls, historyVars>>

\* The removed plugins go with all that refers to them; no artifact does.
PurgeRemoved ==
  LET gone == {p \in Plugin : plugins[p].status = "removed"}
  IN /\ Upset
     /\ gone # {}
     /\ plugins' = [p \in Plugin |-> IF p \in gone THEN [slug |-> Nothing, status |-> "purged"]
                                     ELSE plugins[p]]
     /\ aliases' = [n \in Name |-> IF aliases[n] \in gone THEN NoPlugin ELSE aliases[n]]
     /\ versions' = [p \in Plugin |-> IF p \in gone THEN [v \in Version |-> NoVersion]
                                      ELSE versions[p]]
     /\ links' = {l \in links : l[1] \notin gone}
     /\ campaigns' = {c \in campaigns : c.plugin \notin gone}
     /\ UNCHANGED <<artifacts, now, fileVars, calls, historyVars>>

-----------------------------------------------------------------------------
(* Downloads and update manifests. *)

\* What a pod sends for a path: its own copy, else the one it pulls.
Bytes(h, path) ==
  IF path \in DOMAIN cache[h] THEN cache[h][path]
  ELSE IF path \in DOMAIN disk THEN disk[path] ELSE Nothing

\* A pod that misses the binary pulls it from the admin pod and keeps it.
Fetch(h, path) ==
  /\ path \notin DOMAIN cache[h] /\ path \in DOMAIN disk
  /\ cache' = [cache EXCEPT ![h] = Put(@, path, disk[path])]
  /\ UNCHANGED <<catalogVars, releaseVars, disk, writes, rewritten, lost, calls, upsets,
                 historyVars>>

\* The artifacts behind the published versions, and behind the variants of
\* any version, published or not.
Primary(p) == {versions[p][v].art : v \in {w \in Current(p) : versions[p][w].mode = "managed"}}
                \ {Nothing}

VariantsOf(p) == {<<l[3], l[2]>> : l \in {k \in links : k[1] = p}}

NewestOf(p, S) == {v \in S : \A w \in S : versions[p][w].at <= versions[p][v].at}

\* The release an update manifest announces for a variant.
LatestVariantRelease(p, x) == NewestOf(p, {v \in Current(p) : <<p, v, x>> \in links})

\* GET /updates/{slug}/{target}.xml and .json: the version and its file.
Announced(p, x) ==
  {[version |-> v, file |-> artifacts[<<x, v>>].path] : v \in LatestVariantRelease(p, x)}

(* Mutant: the version in the file name is not compared. *)
ByFilename_prefix(p, path) ==
  {a \in VariantsOf(p) : \A i \in 1..3 : artifacts[a].path[i] = path[i]}

\* The artifacts of p that a file name finds.
ByFilename(p, path) == {a \in VariantsOf(p) : artifacts[a].path = path}

ServeVariant(h, n, path) ==
  /\ \E p \in ResolveDevice(n) : ByFilename(p, path) # {}
  /\ Fetch(h, path)

\* GET /catalog/{slug}/download/{slug}-{version}: slugs only.
ServePluginDownload(h, n, v) ==
  \E p \in BySlug(n) :
    /\ v \in Current(p) /\ versions[p][v].art \in Primary(p)
    /\ Fetch(h, artifacts[versions[p][v].art].path)

\* GET /catalog/{slug}/download: the newest of the published versions.
CatalogDownload(h, n) ==
  \E p \in BySlug(n) : \E v \in NewestOf(p, Current(p)) : ServePluginDownload(h, n, v)

-----------------------------------------------------------------------------
Init ==
  /\ plugins = FirstPlugins
  /\ aliases = [n \in Name |-> NoPlugin]
  /\ versions = [p \in Plugin |-> [v \in Version |-> NoVersion]]
  /\ artifacts = <<>> /\ links = {} /\ campaigns = {}
  /\ disk = <<>> /\ cache = [h \in Pod |-> <<>>]
  /\ calls = [c \in Call |-> Nothing]
  /\ now = 0 /\ writes = 0 /\ upsets = 0
  /\ rewritten = {} /\ lost = {} /\ had = {} /\ hand = {} /\ cut = {} /\ crossed = {}

Publishing ==
  \E c \in Call :
     \/ \E p \in Plugin, v \in Version : \/ \E x \in Variant : Upload(c, p, x, v)
                                        \/ \E h \in Pod : Deploy(c, h, p, v)
     \/ UploadCommits(c) \/ DeployArtifact(c) \/ DeployDeprecates(c) \/ DeployPublishes(c)
     \/ CallFails(c)

Administration ==
  \/ \E x \in Variant, v \in Version : UploadArtifact(x, v)
  \/ \E p \in Plugin, n \in Name :
        \/ \E also \in {{}} \cup {{m} : m \in Name \ {n}} : CreatePlugin(p, n, also)
        \/ \E q \in Plugin : DuplicatePlugin(p, q, n)
        \/ AliasAdd(n, p)
  \/ \E p \in Plugin, status \in {"active", "deprecated", "removed"} :
        PluginStatus(p, status)
  \/ \E n \in Name : AliasDelete(n)
  \/ \E p \in Plugin, v \in Version :
        \/ \E a \in DOMAIN artifacts \cup {Nothing}, mode \in Mode,
             status \in {"draft", "published"} : VersionCreate(p, v, a, mode, status)
        \/ \E status \in {"draft", "published", "yanked"} :
              VersionStatus(p, v, status)
  \/ \E a \in DOMAIN artifacts : FormCampaign(a)
  \/ \E c \in campaigns : EndCampaign(c)
  \/ \E p \in Plugin : VersionsPurge(p) \/ DeploymentsPurge(p)
  \/ PurgeRemoved

Downloading ==
  \E h \in Pod, n \in Name :
     \/ \E path \in DOMAIN disk : ServeVariant(h, n, path)
     \/ \E v \in Version : ServePluginDownload(h, n, v)
     \/ CatalogDownload(h, n)

Next == Publishing \/ Administration \/ Downloading

Spec == Init /\ [][Next]_vars

-----------------------------------------------------------------------------
(* The tables have their types and their foreign keys hold: an artifact a  *)
(* version, a variant or a campaign refers to is there, and an alias has a *)
(* plugin that is.                                                         *)
TypeOK ==
  /\ \A p \in Plugin : plugins[p].slug \in Name \cup {Nothing}
  /\ \A n \in Name : aliases[n] # NoPlugin => Present(aliases[n])
  /\ DOMAIN artifacts \subseteq Variant \X Version
  /\ \A p \in Plugin, v \in Version :
       versions[p][v].art = Nothing \/ versions[p][v].art \in DOMAIN artifacts
  /\ \A l \in links : /\ versions[l[1]][l[2]].status # "absent"
                     /\ <<l[3], l[2]>> \in DOMAIN artifacts
  /\ \A c \in campaigns : c.art \in DOMAIN artifacts

(* Every pod sends, for every binary of a published version, the one whose *)
(* checksum the catalog holds, whatever purges and failures there were and *)
(* while publications are under way.  Two exceptions: a deploy whose copy  *)
(* to the admin pod failed leaves the other pods without it; and a version *)
(* published again under its old file name, because a pod keeps the binary *)
(* it pulled for ever and the file is overwritten before the row is.       *)
DownloadsMatch ==
  \A p \in Plugin, h \in Pod : \A a \in Primary(p) \cup VariantsOf(p) :
     LET file == Bytes(h, artifacts[a].path)
     IN \/ file = artifacts[a].sum
        \/ file = Nothing /\ artifacts[a].path \in lost
        \/ file # Nothing /\ artifacts[a].sum.of \in rewritten

(* A plugin that had a published version has one and no more.  It has two  *)
(* only if an admin published one by hand or two publications overlapped   *)
(* (each deprecates only the versions it sees), and none only if an admin  *)
(* set the status by hand or a deploy stopped between the UPDATE that      *)
(* deprecates the old version and the INSERT of the new one.               *)
OneCurrent ==
  /\ \A p \in Plugin : (\A v, w \in Current(p) : v = w) \/ p \in hand \cup crossed
  /\ \A p \in had : Current(p) = {} /\ Present(p) => p \in hand \cup cut

(* The file an update manifest names for a variant is found under that     *)
(* name as the binary of this very variant and version, and of no other.   *)
ManifestServed ==
  \A n \in Name : \A p \in ResolveDevice(n), x \in Variant \ {""} :
     \A m \in Announced(p, x) : ByFilename(p, m.file) = {<<x, m.version>>}

(* A name that devices use goes over from one plugin to another only when  *)
(* the old one is no longer active or when the new one has the name as its *)
(* slug: an alias never takes a name away from a slug.                     *)
NoSilentMove ==
  [][\A n \in Name : \A p \in ResolveDevice(n), q \in ResolveDevice(n)' :
        p # q => plugins'[p].status # "active" \/ plugins'[q].slug = n]_vars

(* A plugin's version is served with the binary of another plugin only     *)
(* when both were published under one version number and variant: the row  *)
(* of artifacts does not say whose it is, and the later publication takes  *)
(* it over.                                                                *)
OnlySameVersionShared ==
  \A p \in Plugin \ hand : \A a \in Primary(p) :
     LET file == artifacts[a].sum
     IN file.plugin \in {p, NoPlugin} \/ <<file.of[3], file.of[4]>> = a

(* schema.sql: the links add the variants of a release; "Clean orphan      *)
(* artifacts" takes away what nobody refers to.  So a version that stays   *)
(* published keeps its variants.                                           *)
VariantsKept ==
  [][\A l \in links \ links' : versions'[l[1]][l[2]].status # "published"]_vars

=============================================================================
