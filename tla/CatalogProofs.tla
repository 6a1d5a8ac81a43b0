--------------------------- MODULE CatalogProofs ---------------------------
(***************************************************************************)
(* The inductive invariant of Catalog, its theorems, and that names do not *)
(* move silently.  For any plugins, names, versions, platform variants,    *)
(* API pods, overlapping publications and number of operations.            *)
(***************************************************************************)
EXTENDS Catalog, TLAPS

(* The tables and the files have their types.                              *)
Types ==
  /\ plugins \in [Plugin -> PluginRow]
  /\ aliases \in [Name -> Plugin \cup {NoPlugin}]
  /\ versions \in [Plugin -> [Version -> Release]]
  /\ DOMAIN artifacts \subseteq Key
  /\ artifacts \in [DOMAIN artifacts -> [path : Path, sum : File]]
  /\ links \subseteq Plugin \X Version \X Variant /\ campaigns \subseteq Campaign
  /\ disk \in [DOMAIN disk -> File]
  /\ cache = [h \in Pod |-> cache[h]]
  /\ \A h \in Pod : cache[h] \in [DOMAIN cache[h] -> File]
  /\ calls \in [Call -> Publication \cup {Nothing}]
  /\ now \in Nat /\ writes \in Nat /\ had \subseteq Plugin

(* The binaries: all that were published under one name are one, or the    *)
(* name has been published again.                                          *)
Held(path) == path \in DOMAIN disk \/ \E h \in Pod : path \in DOMAIN cache[h]

Sums == Files \cup {artifacts[a].sum : a \in DOMAIN artifacts}

StoreOK ==
  /\ \A path \in DOMAIN disk : disk[path].of = path
  /\ \A h \in Pod : \A path \in DOMAIN cache[h] : cache[h][path].of = path

AgreeOK ==
  \A f \in Sums :
    /\ Held(f.of)
    /\ \A g \in Sums : f.of = g.of => f = g \/ f.of \in rewritten

ArtifactOK(a) ==
  /\ artifacts[a].path = artifacts[a].sum.of
  /\ <<artifacts[a].path[3], artifacts[a].path[4]>> = a
  /\ artifacts[a].path \in DOMAIN disk \cup lost

CallOK(c) ==
  calls[c] # Nothing =>
    /\ calls[c].path = calls[c].file.of
    /\ calls[c].path[3] = calls[c].variant /\ calls[c].path[4] = calls[c].version
    /\ calls[c].kind = "api" => calls[c].variant = ""
    /\ calls[c].path \in DOMAIN disk \cup lost
    /\ calls[c].kind = "ui" <=> calls[c].step = "written"

FilesInv ==
  /\ StoreOK /\ AgreeOK
  /\ \A a \in DOMAIN artifacts : ArtifactOK(a)
  /\ \A c \in Call : CallOK(c)

(* What refers to an artifact, a version or a plugin finds it.             *)
RefsInv ==
  /\ \A p \in Plugin, v \in Version :
       versions[p][v].art = Nothing \/ versions[p][v].art \in DOMAIN artifacts
  /\ \A l \in links : /\ versions[l[1]][l[2]].status # "absent"
                     /\ <<l[3], l[2]>> \in DOMAIN artifacts
  /\ \A c \in campaigns : c.art \in DOMAIN artifacts

NamesInv == \A n \in Name : aliases[n] # NoPlugin => Present(aliases[n])

(* The published versions of a plugin.                                     *)
Sole(p) ==
  \A c, d \in Call :
    (/\ calls[c] # Nothing /\ calls[d] # Nothing
     /\ calls[c].plugin = p /\ calls[d].plugin = p) => c = d

Prepared(c) ==
  /\ calls[c].kind = "ui" => Current(calls[c].plugin) \ {calls[c].version} \subseteq calls[c].older
  /\ calls[c].step = "deprecated" => Current(calls[c].plugin) \subseteq {calls[c].version}

CurrentOK(p) ==
  /\ plugins[p].status = "absent" =>
       /\ p \notin had
       /\ \A v \in Version : versions[p][v].status = "absent"
       /\ \A c \in Call : calls[c] # Nothing => calls[c].plugin # p
  /\ p \notin crossed => Sole(p)
  /\ p \notin hand \cup crossed =>
       /\ \A v, w \in Current(p) : v = w
       /\ \A c \in Call : calls[c] # Nothing /\ calls[c].plugin = p => Prepared(c)
  /\ p \in had /\ Current(p) = {} /\ Present(p) => p \in hand \cup cut

CurrentInv == \A p \in Plugin : CurrentOK(p)

IInv == Types /\ FilesInv /\ RefsInv /\ NamesInv /\ CurrentInv

-----------------------------------------------------------------------------
(* What the helpers compute.                                               *)

Puts(f, k, v, S, new) ==
  /\ new \in [DOMAIN new -> S] /\ DOMAIN new = DOMAIN f \cup {k}
  /\ new[k] = v /\ \A x \in DOMAIN f : x # k => new[x] = f[x]

(* An upsert, or a file written over another.                              *)
LEMMA PutIs ==
  ASSUME NEW S, NEW f, f \in [DOMAIN f -> S], NEW k, NEW v \in S, NEW new, new = Put(f, k, v)
  PROVE  Puts(f, k, v, S, new)
<1>1. /\ DOMAIN new = DOMAIN f \cup {k}
      /\ \A x \in DOMAIN f \cup {k} : new[x] = IF x = k THEN v ELSE f[x]
  BY Zenon DEF Put
<1>2. \A x \in DOMAIN f \cup {k} : new[x] \in S
  BY <1>1, Zenon
<1>3. new = [x \in DOMAIN new |-> new[x]]
  BY Zenon DEF Put
<1>4. new \in [DOMAIN new -> S]
  BY <1>1, <1>2, <1>3, Zenon
<1> QED
  BY <1>1, <1>4, Zenon DEF Puts

Deprecates(vs, older, new) ==
  /\ new \in [Version -> Release]
  /\ \A v \in Version :
       /\ new[v].art = vs[v].art /\ new[v].mode = vs[v].mode
       /\ new[v].status = "absent" <=> vs[v].status = "absent"
       /\ new[v].status = "published" <=> vs[v].status = "published" /\ v \notin older

(* The UPDATE that deprecates keeps the rows and their artifacts.          *)
LEMMA DeprecateIs ==
  ASSUME NEW vs \in [Version -> Release], NEW older, NEW new, new = Deprecate(vs, older)
  PROVE  Deprecates(vs, older, new)
<1>1. ASSUME NEW v \in Version
      PROVE  /\ new[v] \in Release /\ new[v].art = vs[v].art /\ new[v].mode = vs[v].mode
             /\ new[v].status = "absent" <=> vs[v].status = "absent"
             /\ new[v].status = "published" <=> vs[v].status = "published" /\ v \notin older
  <2>1. PICK r \in Release : r = vs[v]
    BY Zenon
  <2>2. CASE v \in older /\ r.status = "published"
    <3>1. new[v] = [r EXCEPT !.status = "deprecated"]
      BY <2>1, <2>2, Zenon DEF Deprecate
    <3>2. new[v].status = "deprecated" /\ new[v].art = r.art /\ new[v].mode = r.mode
          /\ new[v] \in Release
      BY <3>1, Zenon DEF Release
    <3> QED
      BY <2>1, <2>2, <3>2, SMT
  <2>3. CASE ~(v \in older /\ r.status = "published")
    <3>1. new[v] = r
      BY <2>1, <2>3, Zenon DEF Deprecate
    <3> QED
      BY <2>1, <2>3, <3>1, Zenon
  <2> QED
    BY <2>2, <2>3, Zenon
<1>2. new = [v \in Version |-> new[v]]
  BY Zenon DEF Deprecate
<1>3. new \in [Version -> Release]
  BY <1>1, <1>2, Zenon
<1> QED
  BY <1>1, <1>3, Zenon DEF Deprecates

Creates(vs, v, art, status, new) ==
  /\ new \in [Version -> Release] /\ \A w \in Version : w # v => new[w] = vs[w]
  /\ new[v].status = status
  /\ new[v].art = IF art = Nothing THEN vs[v].art ELSE art

(* create_version's upsert changes one row.                                *)
LEMMA CreateIs ==
  ASSUME NEW vs \in [Version -> Release], NEW v \in Version, NEW art \in Key \cup {Nothing},
         NEW mode \in Mode, NEW status \in {"draft", "published"}, NEW stamp \in Nat,
         NEW new, new = CreateVersion(vs, v, art, mode, status, stamp)
  PROVE  Creates(vs, v, art, status, new)
<1>1. PICK row : row = [status |-> status, mode |-> mode,
                        art |-> IF art = Nothing THEN vs[v].art ELSE art,
                        at |-> IF status = "published" /\ vs[v].at = 0 THEN stamp ELSE vs[v].at]
  BY Zenon
<1>2. new = [vs EXCEPT ![v] = row]
  BY <1>1, Zenon DEF CreateVersion
<1>3. vs[v] \in Release
  BY Zenon
<1>4. /\ (IF art = Nothing THEN vs[v].art ELSE art) \in Key \cup {Nothing}
      /\ (IF status = "published" /\ vs[v].at = 0 THEN stamp ELSE vs[v].at) \in Nat
      /\ status \in {"absent", "draft", "published", "deprecated", "yanked"}
  BY <1>3, Zenon DEF Release
<1>5. row \in Release
  BY <1>1, <1>4, Zenon DEF Release
<1>6. row.status = status /\ row.art = IF art = Nothing THEN vs[v].art ELSE art
  BY <1>1, Zenon
<1>7. new \in [Version -> Release] /\ new[v] = row /\ \A w \in Version : w # v => new[w] = vs[w]
  BY <1>2, <1>5, Zenon
<1> QED
  BY <1>6, <1>7, Zenon DEF Creates

(* A new row in one plugin's part of plugin_versions.                      *)
Rows(p, new) ==
  /\ versions' \in [Plugin -> [Version -> Release]]
  /\ versions'[p] = new /\ \A q \in Plugin : q # p => versions'[q] = versions[q]

(* The update of one row leaves the rows of the other plugins as they were. *)
LEMMA RowsAre ==
  ASSUME versions \in [Plugin -> [Version -> Release]], NEW p \in Plugin,
         NEW new \in [Version -> Release], versions' = [versions EXCEPT ![p] = new]
  PROVE  Rows(p, new)
BY Zenon DEF Rows

(* A campaign that begins has its artifact, the others keep theirs.        *)
Campaigned(a, new) ==
  new \subseteq Campaign /\ \A c \in new : c.art = a \/ \E d \in campaigns : c.art = d.art

(* A completed campaign is a campaign of the same artifact.                *)
LEMMA CompletedIs ==
  ASSUME NEW d \in Campaign, NEW c, c = [d EXCEPT !.status = "completed"]
  PROVE  c \in Campaign /\ c.art = d.art
<1>1. "completed" \in {"active", "completed"}
  BY Zenon
<1> QED
  BY <1>1, Zenon DEF Campaign

(* So is every campaign after one begins, which completes those before it. *)
LEMMA WithCampaignIs ==
  ASSUME campaigns \subseteq Campaign, NEW p \in Plugin \cup {NoPlugin}, NEW a \in Key,
         NEW new, new = WithCampaign(p, a)
  PROVE  Campaigned(a, new)
<1>1. SUFFICES ASSUME NEW c \in new
               PROVE  c \in Campaign /\ (c.art = a \/ \E d \in campaigns : c.art = d.art)
  BY Zenon DEF Campaigned
<1>2. CASE c = [plugin |-> p, art |-> a, status |-> "active"]
  <2>1. "active" \in {"active", "completed"}
    BY Zenon
  <2> QED
    BY <1>2, <2>1, Zenon DEF Campaign
<1>3. CASE \E d \in campaigns : c = [d EXCEPT !.status = "completed"] \/ c = d
  <2>1. PICK d \in campaigns : c = [d EXCEPT !.status = "completed"] \/ c = d
    BY <1>3, Zenon
  <2>2. c \in Campaign /\ c.art = d.art
    BY <2>1, CompletedIs, Zenon
  <2> QED
    BY <2>2, Zenon
<1> QED
  BY <1>1, <1>2, <1>3, Zenon DEF WithCampaign

-----------------------------------------------------------------------------
(* The binaries.                                                           *)

(* Every binary and checksum has its place.                                *)
IsSum(f) ==
  \/ \E x \in DOMAIN disk : f = disk[x]
  \/ \E h \in Pod : \E x \in DOMAIN cache[h] : f = cache[h][x]
  \/ \E c \in Call : calls[c] # Nothing /\ f = calls[c].file
  \/ \E a \in DOMAIN artifacts : f = artifacts[a].sum

(* Sums collects exactly those.                                            *)
LEMMA SumsAre == \A f : f \in Sums <=> IsSum(f)
<1> TAKE f
<1>1. PICK A, B, C, D : /\ A = Range(disk) /\ B = (UNION {Range(cache[h]) : h \in Pod})
                        /\ C = ({calls[c].file : c \in {d \in Call : calls[d] # Nothing}})
                        /\ D = ({artifacts[a].sum : a \in DOMAIN artifacts})
  BY Zenon
<1>2. f \in A <=> \E x \in DOMAIN disk : f = disk[x]
  BY <1>1, Zenon DEF Range
<1>3. f \in B <=> \E h \in Pod : \E x \in DOMAIN cache[h] : f = cache[h][x]
  BY <1>1, SMT DEF Range
<1>4. f \in C <=> \E c \in {d \in Call : calls[d] # Nothing} : f = calls[c].file
  BY <1>1, Zenon
<1>5. f \in D <=> \E a \in DOMAIN artifacts : f = artifacts[a].sum
  BY <1>1, Zenon
<1>6. Sums = (A \cup B \cup C) \cup D
  BY <1>1, Zenon DEF Sums, Files
<1> QED
  BY <1>2, <1>3, <1>4, <1>5, <1>6, Zenon DEF IsSum

(* The same after a step.                                                  *)
LEMMA SumsAreNext == \A f : f \in Sums' <=> IsSum(f)'
<1> TAKE f
<1>1. PICK A, B, C, D : /\ A = Range(disk)' /\ B = (UNION {Range(cache[h]) : h \in Pod})'
                        /\ C = ({calls[c].file : c \in {d \in Call : calls[d] # Nothing}})'
                        /\ D = ({artifacts[a].sum : a \in DOMAIN artifacts})'
  BY Zenon
<1>2. f \in A <=> \E x \in DOMAIN disk' : f = disk'[x]
  BY <1>1, Zenon DEF Range
<1>3. f \in B <=> \E h \in Pod : \E x \in DOMAIN cache'[h] : f = cache'[h][x]
  BY <1>1, SMT DEF Range
<1>4. f \in C <=> \E c \in {d \in Call : calls'[d] # Nothing} : f = calls'[c].file
  BY <1>1, Zenon
<1>5. f \in D <=> \E a \in DOMAIN artifacts' : f = artifacts'[a].sum
  BY <1>1, Zenon
<1>6. Sums' = (A \cup B \cup C) \cup D
  BY <1>1, Zenon DEF Sums, Files
<1> QED
  BY <1>2, <1>3, <1>4, <1>5, <1>6, Zenon DEF IsSum

(* A binary that is not new, is published again, or is the first of its    *)
(* name, keeps the agreement.                                              *)
Fresh(f) ==
  Held(f.of)' /\ (f.of \in rewritten' \/ \A g \in Sums : g.of # f.of)

(* A step that adds at most one such binary keeps AgreeOK.                 *)
LEMMA AgreeStep ==
  ASSUME AgreeOK, NEW F, \A f \in Sums' : f \in Sums \/ (f = F /\ Fresh(F)),
         \A x : Held(x) => Held(x)', rewritten \subseteq rewritten'
  PROVE  AgreeOK'
<1>1. ASSUME NEW f \in Sums'
      PROVE  Held(f.of)'
  BY <1>1, Zenon DEF AgreeOK, Fresh
<1>2. ASSUME NEW f \in Sums', NEW g \in Sums', f.of = g.of
      PROVE  f = g \/ f.of \in rewritten'
  <2>1. CASE f \in Sums /\ g \in Sums
    BY <1>2, <2>1, Zenon DEF AgreeOK
  <2>2. CASE f \in Sums /\ g = F /\ Fresh(F)
    BY <1>2, <2>2, Zenon DEF Fresh
  <2>3. CASE g \in Sums /\ f = F /\ Fresh(F)
    BY <1>2, <2>3, Zenon DEF Fresh
  <2> QED
    BY <1>2, <2>1, <2>2, <2>3, Zenon
<1>3. \A f \in Sums' : Held(f.of)'
  BY <1>1, Zenon
<1>4. \A f, g \in Sums' : f.of = g.of => f = g \/ f.of \in rewritten'
  BY <1>2, Zenon
<1> QED
  BY <1>3, <1>4, Zenon DEF AgreeOK

(* A publication that goes on, or that has ended.                          *)
SameCall(c) ==
  calls'[c] # Nothing =>
    /\ calls[c] # Nothing
    /\ calls'[c].path = calls[c].path /\ calls'[c].file = calls[c].file
    /\ calls'[c].variant = calls[c].variant /\ calls'[c].version = calls[c].version
    /\ calls'[c].kind = calls[c].kind
    /\ calls'[c].step = "written" <=> calls[c].step = "written"

(* One that begins.                                                        *)
Opens(c, P, F) ==
  /\ calls'[c] # Nothing /\ calls'[c].path = P /\ calls'[c].file = F
  /\ calls'[c].variant = P[3] /\ calls'[c].version = P[4]
  /\ calls'[c].kind = "api" => P[3] = ""
  /\ calls'[c].kind = "ui" <=> calls'[c].step = "written"

(* A step that writes no binary: the rows it makes are those of its call.  *)
FilesStill ==
  /\ UNCHANGED <<disk, cache, rewritten, lost>>
  /\ \A a \in DOMAIN artifacts' :
       \/ a \in DOMAIN artifacts /\ artifacts'[a] = artifacts[a]
       \/ \E c \in Call : /\ calls[c] # Nothing /\ a = <<calls[c].variant, calls[c].version>>
                          /\ artifacts'[a].path = calls[c].path /\ artifacts'[a].sum = calls[c].file
  /\ \A c \in Call : SameCall(c)

(* Such a step keeps the binaries in order.                                *)
LEMMA FilesFrame ==
  ASSUME FilesInv, FilesStill
  PROVE  FilesInv'
<1>1. disk' = disk /\ cache' = cache /\ rewritten' = rewritten /\ lost' = lost
  BY Zenon DEF FilesStill
<1>2. StoreOK'
  BY <1>1, Zenon DEF FilesInv, StoreOK
<1>3. \A x : Held(x) => Held(x)'
  BY <1>1, Zenon DEF Held
<1>4. ASSUME NEW f \in Sums'
      PROVE  f \in Sums
  <2>1. IsSum(f)'
    BY SumsAreNext, Zenon
  <2>2. CASE \E c \in Call : calls'[c] # Nothing /\ f = calls'[c].file
    BY <2>2, SumsAre, Zenon DEF FilesStill, SameCall, IsSum
  <2>3. CASE \E a \in DOMAIN artifacts' : f = artifacts'[a].sum
    <3>1. PICK a \in DOMAIN artifacts' : f = artifacts'[a].sum
      BY <2>3, Zenon
    <3>2. CASE a \in DOMAIN artifacts /\ artifacts'[a] = artifacts[a]
      BY <3>1, <3>2, SumsAre, Zenon DEF IsSum
    <3>3. CASE \E c \in Call : calls[c] # Nothing
                 /\ artifacts'[a].path = calls[c].path /\ artifacts'[a].sum = calls[c].file
      BY <3>1, <3>3, SumsAre, Zenon DEF IsSum
    <3> QED
      BY <3>1, <3>2, <3>3, Zenon DEF FilesStill
  <2>4. CASE \/ \E x \in DOMAIN disk' : f = disk'[x]
             \/ \E h \in Pod : \E x \in DOMAIN cache'[h] : f = cache'[h][x]
    BY <1>1, <2>4, SumsAre, Zenon DEF IsSum
  <2> QED
    BY <2>1, <2>2, <2>3, <2>4, Zenon DEF IsSum
<1>5. AgreeOK'
  <2>1. rewritten \subseteq rewritten'
    BY <1>1, Zenon
  <2> QED
    BY <1>3, <1>4, <2>1, AgreeStep, Zenon DEF FilesInv
<1>6. ASSUME NEW c \in Call
      PROVE  CallOK(c)'
  <2>1. CallOK(c) /\ SameCall(c)
    BY Zenon DEF FilesInv, FilesStill
  <2> QED
    BY <1>1, <2>1, Zenon DEF CallOK, SameCall
<1>7. ASSUME NEW a \in DOMAIN artifacts'
      PROVE  ArtifactOK(a)'
  <2>1. CASE a \in DOMAIN artifacts /\ artifacts'[a] = artifacts[a]
    BY <1>1, <2>1, Zenon DEF FilesInv, ArtifactOK
  <2>2. CASE \E c \in Call : /\ calls[c] # Nothing /\ a = <<calls[c].variant, calls[c].version>>
                             /\ artifacts'[a].path = calls[c].path /\ artifacts'[a].sum = calls[c].file
    <3>1. PICK c \in Call : /\ calls[c] # Nothing /\ a = <<calls[c].variant, calls[c].version>>
                            /\ artifacts'[a].path = calls[c].path /\ artifacts'[a].sum = calls[c].file
      BY <2>2, Zenon
    <3>2. CallOK(c)
      BY Zenon DEF FilesInv
    <3> QED
      BY <1>1, <3>1, <3>2, Zenon DEF CallOK, ArtifactOK
  <2> QED
    BY <2>1, <2>2, Zenon DEF FilesStill
<1> QED
  BY <1>2, <1>5, <1>6, <1>7, Zenon DEF FilesInv

(* A step that puts binary F at P, on the volume, in a cache or in both: a *)
(* binary it publishes, or one it copies.                                  *)
MayPut(f, P, F, new) == new = f \/ new = Put(f, P, F)

Stored(P, F) ==
  /\ F \in File /\ F.of = P
  /\ MayPut(disk, P, F, disk') /\ \A h \in Pod : MayPut(cache[h], P, F, cache'[h])
  /\ P \in DOMAIN disk' \/ \E h \in Pod : P \in DOMAIN cache'[h]
  /\ lost \subseteq lost' /\ P \in DOMAIN disk' \cup lost'
  /\ rewritten' = Again(P) \/ (F \in Sums /\ rewritten' = rewritten)
  /\ \A a \in DOMAIN artifacts' :
       \/ a \in DOMAIN artifacts /\ artifacts'[a] = artifacts[a]
       \/ a = <<P[3], P[4]>> /\ artifacts'[a].path = P /\ artifacts'[a].sum = F
  /\ \A c \in Call : SameCall(c) \/ Opens(c, P, F)

(* What a volume or a cache holds after it.                                *)
Holds(f, P, F, new) ==
  /\ DOMAIN f \subseteq DOMAIN new /\ new \in [DOMAIN new -> File]
  /\ \A x \in DOMAIN new : (x \in DOMAIN f /\ new[x] = f[x]) \/ (x = P /\ new[x] = F)

(* A write puts one file there and keeps the others.                       *)
LEMMA HoldsIs ==
  ASSUME NEW f, f \in [DOMAIN f -> File], NEW P, NEW F \in File, NEW new, MayPut(f, P, F, new)
  PROVE  Holds(f, P, F, new)
<1>1. CASE new = f
  BY <1>1, Zenon DEF Holds
<1>2. CASE new = Put(f, P, F)
  <2>1. Puts(f, P, F, File, new)
    BY <1>2, PutIs, Zenon
  <2> QED
    BY <2>1, Zenon DEF Puts, Holds
<1> QED
  BY <1>1, <1>2, Zenon DEF MayPut

(* A name not in Files has no checksum either.                             *)
LEMMA AgainIs ==
  ASSUME FilesInv, NEW P, rewritten' = Again(P)
  PROVE  /\ rewritten \subseteq rewritten'
         /\ P \in rewritten' \/ \A g \in Sums : g.of # P
<1>1. CASE P \in {f.of : f \in Files}
  BY <1>1, Zenon DEF Again
<1>2. CASE P \notin {f.of : f \in Files}
  <2>1. rewritten' = rewritten
    BY <1>2, Zenon DEF Again
  <2>2. ASSUME NEW g \in Sums, g.of = P
        PROVE  FALSE
    <3>1. Held(P)
      BY <2>2, Zenon DEF FilesInv, AgreeOK
    <3>2. CASE P \in DOMAIN disk
      <4>1. disk[P].of = P
        BY <3>2, Zenon DEF FilesInv, StoreOK
      <4>2. disk[P] \in Range(disk)
        BY <3>2, Zenon DEF Range
      <4> QED
        BY <1>2, <4>1, <4>2, SMT DEF Files
    <3>3. ASSUME NEW h \in Pod, P \in DOMAIN cache[h]
          PROVE  FALSE
      <4>1. cache[h][P].of = P
        BY <3>3, Zenon DEF FilesInv, StoreOK
      <4>2. cache[h][P] \in Range(cache[h])
        BY <3>3, Zenon DEF Range
      <4> QED
        BY <1>2, <4>1, <4>2, SMT DEF Files
    <3> QED
      BY <3>1, <3>2, <3>3, Zenon DEF Held
  <2> QED
    BY <2>1, <2>2, Zenon
<1> QED
  BY <1>1, <1>2, Zenon

(* The part of the invariant about binaries survives every such write.     *)
LEMMA FilesWrite ==
  ASSUME Types, FilesInv, NEW P, NEW F, Stored(P, F)
  PROVE  FilesInv' /\ disk' \in [DOMAIN disk' -> File]
         /\ \A h \in Pod : cache'[h] \in [DOMAIN cache'[h] -> File]
<1>1. Holds(disk, P, F, disk') /\ \A h \in Pod : Holds(cache[h], P, F, cache'[h])
  BY HoldsIs, Zenon DEF Types, Stored
<1>2. F \in File /\ F.of = P
  BY Zenon DEF Stored
<1>3. StoreOK'
  <2>1. \A x \in DOMAIN disk' : disk'[x].of = x
    BY <1>1, <1>2, Zenon DEF FilesInv, StoreOK, Holds
  <2>2. ASSUME NEW h \in Pod, NEW x \in DOMAIN cache'[h]
        PROVE  cache'[h][x].of = x
    <3>1. (x \in DOMAIN cache[h] /\ cache'[h][x] = cache[h][x]) \/ (x = P /\ cache'[h][x] = F)
      BY <1>1, Zenon DEF Holds
    <3> QED
      BY <1>2, <3>1, Zenon DEF FilesInv, StoreOK
  <2> QED
    BY <2>1, <2>2, Zenon DEF StoreOK
<1>4. \A x : Held(x) => Held(x)'
  BY <1>1, Zenon DEF Held, Holds
<1>5. Held(P)'
  BY Zenon DEF Held, Stored
<1>6. ASSUME NEW f \in Sums', f # F
      PROVE  f \in Sums
  <2>1. IsSum(f)'
    BY SumsAreNext, Zenon
  <2>2. CASE \E c \in Call : calls'[c] # Nothing /\ f = calls'[c].file
    BY <1>6, <2>2, SumsAre, Zenon DEF Stored, SameCall, Opens, IsSum
  <2>3. CASE \E a \in DOMAIN artifacts' : f = artifacts'[a].sum
    BY <1>6, <2>3, SumsAre, Zenon DEF Stored, IsSum
  <2>4. CASE \E x \in DOMAIN disk' : f = disk'[x]
    BY <1>1, <1>6, <2>4, SumsAre, Zenon DEF IsSum, Holds
  <2>5. CASE \E h \in Pod : \E x \in DOMAIN cache'[h] : f = cache'[h][x]
    BY <1>1, <1>6, <2>5, SumsAre, Zenon DEF IsSum, Holds
  <2> QED
    BY <2>1, <2>2, <2>3, <2>4, <2>5, Zenon DEF IsSum
<1>7. rewritten \subseteq rewritten' /\ (F \in Sums \/ Fresh(F))
  <2>1. CASE rewritten' = Again(P)
    BY <1>2, <1>5, <2>1, AgainIs, Zenon DEF Fresh
  <2> QED
    BY <2>1, Zenon DEF Stored
<1>8. AgreeOK'
  BY <1>4, <1>6, <1>7, AgreeStep, Zenon DEF FilesInv
<1>9. ASSUME NEW c \in Call
      PROVE  CallOK(c)'
  <2>1. CallOK(c) /\ (SameCall(c) \/ Opens(c, P, F)) /\ lost \subseteq lost'
        /\ DOMAIN disk \subseteq DOMAIN disk' /\ P \in DOMAIN disk' \cup lost'
    BY <1>1, Zenon DEF FilesInv, Stored, Holds
  <2>2. CASE SameCall(c)
    BY <2>1, <2>2, Zenon DEF CallOK, SameCall
  <2>3. CASE Opens(c, P, F)
    BY <1>2, <2>1, <2>3, Zenon DEF CallOK, Opens
  <2> QED
    BY <2>1, <2>2, <2>3, Zenon
<1>10. ASSUME NEW a \in DOMAIN artifacts'
       PROVE  ArtifactOK(a)'
  <2>1. lost \subseteq lost' /\ DOMAIN disk \subseteq DOMAIN disk' /\ P \in DOMAIN disk' \cup lost'
    BY <1>1, Zenon DEF Stored, Holds
  <2>2. CASE a \in DOMAIN artifacts /\ artifacts'[a] = artifacts[a]
    BY <2>1, <2>2, Zenon DEF FilesInv, ArtifactOK
  <2>3. CASE a = <<P[3], P[4]>> /\ artifacts'[a].path = P /\ artifacts'[a].sum = F
    BY <1>2, <2>1, <2>3, Zenon DEF ArtifactOK
  <2> QED
    BY <2>2, <2>3, Zenon DEF Stored
<1> QED
  BY <1>1, <1>3, <1>8, <1>9, <1>10, Zenon DEF FilesInv, Holds

-----------------------------------------------------------------------------
(* The references.                                                         *)

(* A step that deletes no artifact: what it refers to anew is there.       *)
RefsStill ==
  /\ DOMAIN artifacts \subseteq DOMAIN artifacts'
  /\ \A p \in Plugin, v \in Version :
       \/ versions'[p][v].art = versions[p][v].art
       \/ versions'[p][v].art = Nothing
       \/ versions'[p][v].art \in DOMAIN artifacts'
  /\ \A l \in links' :
       \/ l \in links /\ (versions'[l[1]][l[2]].status = "absent"
                              => versions[l[1]][l[2]].status = "absent")
       \/ versions'[l[1]][l[2]].status # "absent" /\ <<l[3], l[2]>> \in DOMAIN artifacts'
  /\ \A c \in campaigns' : \/ \E d \in campaigns : c.art = d.art
                           \/ c.art \in DOMAIN artifacts'

(* Such a step leaves no reference to an artifact or a version dangling.   *)
LEMMA RefsFrame ==
  ASSUME RefsInv, RefsStill
  PROVE  RefsInv'
<1>1. \A p \in Plugin, v \in Version :
        versions'[p][v].art = Nothing \/ versions'[p][v].art \in DOMAIN artifacts'
  BY Zenon DEF RefsInv, RefsStill
<1>2. \A l \in links' : /\ versions'[l[1]][l[2]].status # "absent"
                        /\ <<l[3], l[2]>> \in DOMAIN artifacts'
  BY Zenon DEF RefsInv, RefsStill
<1>3. \A c \in campaigns' : c.art \in DOMAIN artifacts'
  BY Zenon DEF RefsInv, RefsStill
<1> QED
  BY <1>1, <1>2, <1>3, Zenon DEF RefsInv

-----------------------------------------------------------------------------
(* The published versions.                                                 *)

(* The publications of a plugin that go on as they were.                   *)
GoesOn(c, p) ==
  calls'[c] # Nothing /\ calls'[c].plugin = p =>
    /\ calls[c] # Nothing /\ calls[c].plugin = p
    /\ calls'[c].kind = calls[c].kind /\ calls'[c].version = calls[c].version
    /\ calls'[c].older = calls[c].older
    /\ calls'[c].step = "deprecated" => calls[c].step = "deprecated"

(* A step that publishes nothing of a plugin and takes nothing from it.    *)
CurrentStill(p) ==
  /\ plugins'[p].status = "absent" => plugins[p].status = "absent"
  /\ Present(p)' => Present(p)
  /\ \A v \in Version :
       /\ versions'[p][v].status = "published" => versions[p][v].status = "published"
       /\ versions[p][v].status = "absent" => versions'[p][v].status = "absent"
       /\ versions[p][v].status = "published" /\ Present(p)'
            => versions'[p][v].status = "published"
  /\ p \in had' => p \in had
  /\ (p \in hand => p \in hand') /\ (p \in crossed => p \in crossed')
  /\ p \in cut => p \in cut'
  /\ \A c \in Call : GoesOn(c, p)

(* Such a step keeps what is known of the published versions of p.         *)
LEMMA CurrentFrame ==
  ASSUME NEW p \in Plugin, CurrentOK(p), CurrentStill(p)
  PROVE  CurrentOK(p)'
<1>1. Current(p)' \subseteq Current(p) /\ (Present(p)' => Current(p) \subseteq Current(p)')
  BY Zenon DEF Current, CurrentStill
<1>2. \A c \in Call : GoesOn(c, p)
  BY Zenon DEF CurrentStill
<1>3. ASSUME plugins'[p].status = "absent"
      PROVE  /\ p \notin had'
             /\ \A v \in Version : versions'[p][v].status = "absent"
             /\ \A c \in Call : calls'[c] # Nothing => calls'[c].plugin # p
  <2>1. plugins[p].status = "absent"
    BY <1>3, Zenon DEF CurrentStill
  <2>2. p \notin had' /\ \A v \in Version : versions'[p][v].status = "absent"
    BY <2>1, Zenon DEF CurrentStill, CurrentOK
  <2> QED
    BY <1>2, <2>1, <2>2, Zenon DEF CurrentOK, GoesOn
<1>4. ASSUME p \notin crossed'
      PROVE  Sole(p)'
  <2>1. Sole(p)
    BY <1>4, Zenon DEF CurrentOK, CurrentStill
  <2> QED
    BY <1>2, <2>1, Zenon DEF Sole, GoesOn
<1>5. ASSUME p \notin hand' \cup crossed'
      PROVE  /\ \A v, w \in Current(p)' : v = w
             /\ \A c \in Call : (calls[c] # Nothing /\ calls[c].plugin = p => Prepared(c))'
  <2>1. p \notin hand \cup crossed
    BY <1>5, Zenon DEF CurrentStill
  <2>2. \A v, w \in Current(p)' : v = w
    BY <1>1, <2>1, Zenon DEF CurrentOK
  <2>3. ASSUME NEW c \in Call, calls'[c] # Nothing, calls'[c].plugin = p
        PROVE  Prepared(c)'
    <3>1. GoesOn(c, p) /\ calls[c] # Nothing /\ calls[c].plugin = p
      BY <1>2, <2>3, Zenon DEF GoesOn
    <3>2. Prepared(c)
      BY <2>1, <3>1, Zenon DEF CurrentOK
    <3>3. ASSUME calls'[c].kind = "ui"
          PROVE  Current(p)' \ {calls'[c].version} \subseteq calls'[c].older
      BY <1>1, <2>3, <3>1, <3>2, <3>3, Zenon DEF GoesOn, Prepared
    <3>4. ASSUME calls'[c].step = "deprecated"
          PROVE  Current(p)' \subseteq {calls'[c].version}
      BY <1>1, <2>3, <3>1, <3>2, <3>4, Zenon DEF GoesOn, Prepared
    <3> QED
      BY <2>3, <3>3, <3>4, Zenon DEF Prepared, Current
  <2> QED
    BY <2>2, <2>3, Zenon
<1>6. ASSUME p \in had', Current(p)' = {}, Present(p)'
      PROVE  p \in hand' \cup cut'
  <2>1. p \in had /\ Current(p) = {} /\ Present(p)
    BY <1>1, <1>6, Zenon DEF CurrentStill
  <2> QED
    BY <2>1, Zenon DEF CurrentOK, CurrentStill
<1> QED
  BY <1>3, <1>4, <1>5, <1>6, Zenon DEF CurrentOK

-----------------------------------------------------------------------------
(* A publication begins.                                                   *)

Begun(c, k, kind, p, x, v, step) ==
  /\ k \in Publication /\ calls[c] = Nothing /\ calls' = [calls EXCEPT ![c] = k]
  /\ k.kind = kind /\ k.plugin = p /\ k.variant = x /\ k.version = v /\ k.step = step
  /\ k.older = Current(p) \ {v} /\ k.path[3] = x /\ k.path[4] = v
  /\ k.file \in File /\ k.file.of = k.path
  /\ rewritten' = Again(k.path) /\ crossed \subseteq crossed'
  /\ p \notin crossed' => \A d \in Call : calls[d] # Nothing => calls[d].plugin # p

(* Both kinds of publication begin this way.                               *)
LEMMA BeginIs ==
  ASSUME Types, NEW c \in Call, NEW kind \in {"ui", "api"}, NEW p \in Plugin, NEW x \in Variant,
         NEW v \in Version, NEW step \in {"written", "persisted"}, Begin(c, kind, p, x, v, step)
  PROVE  writes' \in Nat /\ \E k : Begun(c, k, kind, p, x, v, step)
<1>1. PICK slug, n, stamp, older : /\ slug = plugins[p].slug /\ n = writes' /\ stamp = now + 1
                                   /\ older = Current(p) \ {v}
  BY Zenon
<1>2. PICK path : path = <<kind, slug, x, v>>
  BY Zenon
<1>3. PICK file : file = [of |-> path, plugin |-> p, n |-> n]
  BY Zenon
<1>4. PICK k : k = [kind |-> kind, plugin |-> p, variant |-> x, version |-> v, path |-> path,
                    older |-> older, stamp |-> stamp, file |-> file, step |-> step]
  BY Zenon
<1>5. writes' \in Nat /\ n \in Nat /\ stamp \in Nat
  <2>1. writes \in Nat /\ now \in Nat /\ writes' = writes + 1
    BY Zenon DEF Types, Begin, Write
  <2> QED
    BY <1>1, <2>1, SMT
<1>6. slug \in Name \cup {Nothing} /\ older \in SUBSET Version
  <2>1. plugins[p] \in PluginRow
    BY Zenon DEF Types
  <2>2. plugins[p].slug \in Name \cup {Nothing}
    BY <2>1, Zenon DEF PluginRow
  <2> QED
    BY <1>1, <2>2, Zenon DEF Current
<1>7. path \in Path /\ path[3] = x /\ path[4] = v
  <2>1. kind \in {"ui", "api", "artifact"}
    BY Zenon
  <2> QED
    BY <1>2, <1>6, <2>1, SMT DEF Path
<1>8. file \in File /\ file.of = path
  <2>1. p \in Plugin \cup {NoPlugin}
    BY Zenon
  <2> QED
    BY <1>3, <1>5, <1>7, <2>1, SMT DEF File
<1>9. k \in Publication
  <2>1. step \in {"written", "persisted", "stored", "deprecated"}
    BY Zenon
  <2> QED
    BY <1>4, <1>5, <1>6, <1>7, <1>8, <2>1, Zenon DEF Publication
<1>10. /\ k.kind = kind /\ k.plugin = p /\ k.variant = x /\ k.version = v /\ k.step = step
       /\ k.older = older /\ k.path = path /\ k.file = file
  BY <1>4, Zenon
<1>11. /\ calls[c] = Nothing /\ calls' = [calls EXCEPT ![c] = k] /\ rewritten' = Again(path)
       /\ crossed' = IF {d \in Call : calls[d] # Nothing /\ calls[d].plugin = p} = {}
                     THEN crossed ELSE crossed \cup {p}
  BY <1>1, <1>2, <1>3, <1>4, Zenon DEF Begin, PathOf
<1>12. crossed \subseteq crossed'
  BY <1>11, Zenon
<1>13. p \notin crossed' => \A d \in Call : calls[d] # Nothing => calls[d].plugin # p
  BY <1>11, Zenon
<1>14. Begun(c, k, kind, p, x, v, step)
  BY <1>1, <1>7, <1>8, <1>9, <1>10, <1>11, <1>12, <1>13, Zenon DEF Begun
<1> QED
  BY <1>5, <1>14, Zenon

(* The other calls go on.                                                  *)
LEMMA BegunCalls ==
  ASSUME Types, NEW c \in Call, NEW k, NEW kind, NEW p, NEW x, NEW v, NEW step,
         Begun(c, k, kind, p, x, v, step)
  PROVE  /\ calls' \in [Call -> Publication \cup {Nothing}] /\ calls'[c] = k /\ k # Nothing
         /\ \A d \in Call : d # c => calls'[d] = calls[d]
<1>1. calls \in [Call -> Publication \cup {Nothing}] /\ k \in Publication
      /\ calls' = [calls EXCEPT ![c] = k]
  BY Zenon DEF Types, Begun
<1> QED
  BY <1>1, CatalogAssumption, Zenon

(* The begun call is the only one that changes, and it opens its path.     *)
LEMMA BegunFiles ==
  ASSUME Types, NEW c \in Call, NEW k, NEW kind, NEW p, NEW x, NEW v, NEW step,
         Begun(c, k, kind, p, x, v, step), kind = "api" => x = "",
         kind = "ui" <=> step = "written"
  PROVE  \A d \in Call : SameCall(d) \/ Opens(d, k.path, k.file)
<1>1. /\ calls'[c] = k /\ k # Nothing
      /\ \A d \in Call : d # c => calls'[d] = calls[d]
  BY BegunCalls, Zenon
<1>2. Opens(c, k.path, k.file)
  BY <1>1, Zenon DEF Opens, Begun
<1>3. ASSUME NEW d \in Call, d # c
      PROVE  SameCall(d)
  <2>1. calls'[d] = calls[d]
    BY <1>1, <1>3, Zenon
  <2> QED
    BY <2>1, Zenon DEF SameCall
<1> QED
  BY <1>2, <1>3, Zenon

(* A publication sees the versions it will deprecate, or overlaps another. *)
LEMMA BegunCurrent ==
  ASSUME Types, CurrentInv, NEW c \in Call, NEW k, NEW kind, NEW p \in Plugin, NEW x, NEW v,
         NEW step \in {"written", "persisted"}, Begun(c, k, kind, p, x, v, step), Present(p),
         UNCHANGED <<plugins, versions, had, hand, cut>>
  PROVE  CurrentInv'
<1>1. /\ calls'[c] = k /\ k # Nothing
      /\ \A d \in Call : d # c => calls'[d] = calls[d]
  BY BegunCalls, Zenon
<1>2. plugins' = plugins /\ versions' = versions /\ had' = had /\ hand' = hand /\ cut' = cut
      /\ crossed \subseteq crossed' /\ k.plugin = p
  BY Zenon DEF Begun
<1>3. ASSUME NEW q \in Plugin, q # p
      PROVE  CurrentOK(q)'
  <2>1. \A d \in Call : GoesOn(d, q)
    BY <1>1, <1>2, <1>3, Zenon DEF GoesOn
  <2>2. CurrentStill(q)
    BY <1>2, <2>1, Zenon DEF CurrentStill, Present
  <2> QED
    BY <2>2, CurrentFrame, Zenon DEF CurrentInv
<1>4. CurrentOK(p)'
  <2>1. CurrentOK(p) /\ Current(p)' = Current(p) /\ (Present(p)' <=> Present(p))
    BY <1>2, Zenon DEF CurrentInv, Current, Present
  <2>2. plugins'[p].status # "absent"
    BY <1>2, Zenon DEF Present
  <2>3. p \notin crossed' => \A d \in Call : calls[d] # Nothing => calls[d].plugin # p
    BY Zenon DEF Begun
  <2>4. ASSUME p \notin crossed'
        PROVE  \A d \in Call : calls'[d] # Nothing /\ calls'[d].plugin = p => d = c
    BY <1>1, <2>3, <2>4, Zenon
  <2>5. p \notin crossed' => Sole(p)'
    BY <2>4, Zenon DEF Sole
  <2>6. ASSUME p \notin hand' \cup crossed'
        PROVE  /\ \A u, w \in Current(p)' : u = w
               /\ \A d \in Call : (calls[d] # Nothing /\ calls[d].plugin = p => Prepared(d))'
    <3>1. p \notin hand \cup crossed
      BY <1>2, <2>6, Zenon
    <3>2. \A u, w \in Current(p)' : u = w
      BY <2>1, <3>1, Zenon DEF CurrentOK
    <3>3. k.older = Current(p) \ {k.version} /\ k.step # "deprecated"
      <4>1. step # "deprecated"
        BY SMT
      <4> QED
        BY <4>1, Zenon DEF Begun
    <3>4. Prepared(c)'
      BY <1>1, <1>2, <2>1, <3>3, Zenon DEF Prepared
    <3> QED
      BY <2>4, <2>6, <3>2, <3>4, Zenon
  <2>7. p \in had' /\ Current(p)' = {} /\ Present(p)' => p \in hand' \cup cut'
    BY <1>2, <2>1, Zenon DEF CurrentOK
  <2> QED
    BY <2>2, <2>5, <2>6, <2>7, Zenon DEF CurrentOK
<1> QED
  BY <1>3, <1>4, Zenon DEF CurrentInv

(* The upload of a binary by the admin.                                    *)
LEMMA UploadKept ==
  ASSUME IInv, NEW c \in Call, NEW p \in Plugin, NEW x \in Variant, NEW v \in Version,
         Upload(c, p, x, v)
  PROVE  IInv'
<1>1. Begin(c, "ui", p, x, v, "written") /\ Present(p) /\ now' = now + 1
      /\ disk' = Put(disk, calls'[c].path, calls'[c].file)
      /\ UNCHANGED <<plugins, aliases, versions, artifacts, links, campaigns, cache, lost, had, hand, cut>>
  BY Zenon DEF Upload, catalogVars
<1>2. "ui" \in {"ui", "api"} /\ "written" \in {"written", "persisted"}
  BY Zenon
<1>3. writes' \in Nat /\ \E k : Begun(c, k, "ui", p, x, v, "written")
  BY <1>1, <1>2, BeginIs, Zenon DEF IInv
<1>4. PICK k : Begun(c, k, "ui", p, x, v, "written")
  BY <1>3, Zenon
<1>5. calls' \in [Call -> Publication \cup {Nothing}] /\ calls'[c] = k
  BY <1>4, BegunCalls, Zenon DEF IInv
<1>6. \A d \in Call : SameCall(d) \/ Opens(d, k.path, k.file)
  <2>1. "ui" = "api" => x = ""
    BY Zenon
  <2> QED
    BY <1>4, <2>1, BegunFiles, Zenon DEF IInv
<1>7. Stored(k.path, k.file)
  <2>1. disk' = Put(disk, k.path, k.file) /\ cache' = cache /\ lost' = lost
        /\ artifacts' = artifacts
    BY <1>1, <1>5, Zenon
  <2>2. k.path \in DOMAIN disk'
    BY <2>1, Zenon DEF Put
  <2>3. k.file \in File /\ k.file.of = k.path /\ rewritten' = Again(k.path)
    BY <1>4, Zenon DEF Begun
  <2> QED
    BY <1>6, <2>1, <2>2, <2>3, Zenon DEF Stored, MayPut
<1>8. FilesInv' /\ disk' \in [DOMAIN disk' -> File]
  BY <1>7, FilesWrite, Zenon DEF IInv
<1>9. now' \in Nat
  <2>1. now \in Nat
    BY Zenon DEF IInv, Types
  <2> QED
    BY <1>1, <2>1, SMT
<1>10. Types'
  BY <1>1, <1>3, <1>5, <1>8, <1>9, Zenon DEF IInv, Types
<1>11. RefsInv' /\ NamesInv'
  BY <1>1, Zenon DEF IInv, RefsInv, NamesInv, Present
<1>12. CurrentInv'
  BY <1>1, <1>2, <1>4, BegunCurrent, Zenon DEF IInv
<1> QED
  BY <1>8, <1>10, <1>11, <1>12, Zenon DEF IInv

(* The upload of a binary to a pod of the API.                             *)
LEMMA DeployKept ==
  ASSUME IInv, NEW c \in Call, NEW h \in Pod, NEW p \in Plugin, NEW v \in Version,
         Deploy(c, h, p, v)
  PROVE  IInv'
<1>1. /\ Begin(c, "api", p, "", v, "persisted") /\ plugins[p].status = "active"
      /\ cache' = [cache EXCEPT ![h] = Put(@, calls'[c].path, calls'[c].file)]
      /\ \/ disk' = Put(disk, calls'[c].path, calls'[c].file) /\ lost' = lost
         \/ disk' = disk /\ lost' = lost \cup {calls'[c].path}
      /\ UNCHANGED <<plugins, aliases, versions, artifacts, links, campaigns, now, had, hand, cut>>
  BY Zenon DEF Deploy, Forwarded, catalogVars, releaseVars
<1>2. "api" \in {"ui", "api"} /\ "persisted" \in {"written", "persisted"} /\ "" \in Variant
  BY CatalogAssumption, Zenon
<1>3. writes' \in Nat /\ \E k : Begun(c, k, "api", p, "", v, "persisted")
  BY <1>1, <1>2, BeginIs, Zenon DEF IInv
<1>4. PICK k : Begun(c, k, "api", p, "", v, "persisted")
  BY <1>3, Zenon
<1>5. calls' \in [Call -> Publication \cup {Nothing}] /\ calls'[c] = k
  BY <1>4, BegunCalls, Zenon DEF IInv
<1>6. \A d \in Call : SameCall(d) \/ Opens(d, k.path, k.file)
  <2>1. "api" = "ui" <=> "persisted" = "written"
    BY SMT
  <2>2. "api" = "api" => "" = ""
    BY Zenon
  <2> QED
    BY <1>4, <2>1, <2>2, BegunFiles, Zenon DEF IInv
<1>7. cache = [j \in Pod |-> cache[j]]
  BY Zenon DEF IInv, Types
<1>8. /\ cache' = [j \in Pod |-> cache'[j]] /\ cache'[h] = Put(cache[h], k.path, k.file)
      /\ \A j \in Pod : j # h => cache'[j] = cache[j]
  BY <1>1, <1>5, <1>7, Zenon
<1>9. Stored(k.path, k.file)
  <2>1. k.path \in DOMAIN cache'[h]
    BY <1>8, Zenon DEF Put
  <2>2. k.file \in File /\ k.file.of = k.path /\ rewritten' = Again(k.path)
    BY <1>4, Zenon DEF Begun
  <2>3. \A j \in Pod : MayPut(cache[j], k.path, k.file, cache'[j])
    BY <1>8, Zenon DEF MayPut
  <2>4. /\ MayPut(disk, k.path, k.file, disk')
        /\ lost \subseteq lost' /\ k.path \in DOMAIN disk' \cup lost'
    <3>1. CASE disk' = Put(disk, k.path, k.file) /\ lost' = lost
      BY <3>1, Zenon DEF MayPut, Put
    <3>2. CASE disk' = disk /\ lost' = lost \cup {k.path}
      BY <3>2, Zenon DEF MayPut
    <3> QED
      BY <1>1, <1>5, <3>1, <3>2, Zenon
  <2> QED
    BY <1>1, <1>6, <2>1, <2>2, <2>3, <2>4, Zenon DEF Stored
<1>10. FilesInv' /\ disk' \in [DOMAIN disk' -> File]
       /\ \A j \in Pod : cache'[j] \in [DOMAIN cache'[j] -> File]
  BY <1>9, FilesWrite, Zenon DEF IInv
<1>11. Types'
  BY <1>1, <1>3, <1>5, <1>8, <1>10, Zenon DEF IInv, Types
<1>12. RefsInv' /\ NamesInv'
  BY <1>1, Zenon DEF IInv, RefsInv, NamesInv, Present
<1>13. CurrentInv'
  <2>1. Present(p)
    BY <1>1, Zenon DEF Present
  <2> QED
    BY <1>1, <1>2, <1>4, <2>1, BegunCurrent, Zenon DEF IInv
<1> QED
  BY <1>10, <1>11, <1>12, <1>13, Zenon DEF IInv

-----------------------------------------------------------------------------
(* The steps of a publication.                                             *)

(* A call that ends leaves the others alone.                               *)
LEMMA CallEnds ==
  ASSUME Types, NEW c \in Call, calls' = [calls EXCEPT ![c] = Nothing]
  PROVE  /\ calls' \in [Call -> Publication \cup {Nothing}] /\ calls'[c] = Nothing
         /\ \A d \in Call : d # c => calls'[d] = calls[d]
         /\ \A d \in Call : SameCall(d) /\ \A q : GoesOn(d, q)
<1>1. calls \in [Call -> Publication \cup {Nothing}]
  BY Zenon DEF Types
<1>2. /\ calls' \in [Call -> Publication \cup {Nothing}] /\ calls'[c] = Nothing
      /\ \A d \in Call : d # c => calls'[d] = calls[d]
  BY <1>1, Zenon
<1> QED
  BY <1>2, Zenon DEF SameCall, GoesOn

(* A deploy that goes on to its next statement.                            *)
LEMMA CallSteps ==
  ASSUME Types, NEW c \in Call, calls[c] # Nothing, NEW s \in {"stored", "deprecated"},
         calls[c].step # "written", calls' = [calls EXCEPT ![c].step = s]
  PROVE  /\ calls' \in [Call -> Publication \cup {Nothing}] /\ calls'[c] # Nothing
         /\ calls'[c].step = s /\ calls'[c].plugin = calls[c].plugin
         /\ calls'[c].kind = calls[c].kind /\ calls'[c].version = calls[c].version
         /\ calls'[c].older = calls[c].older
         /\ \A d \in Call : d # c => calls'[d] = calls[d]
         /\ \A d \in Call : SameCall(d)
<1>1. PICK k \in Publication : k = calls[c]
  BY Zenon DEF Types
<1>2. PICK m : m = [k EXCEPT !.step = s]
  BY Zenon
<1>3. s \in {"written", "persisted", "stored", "deprecated"} /\ s # "written"
  BY Zenon
<1>4. /\ m \in Publication /\ m.step = s /\ m.plugin = k.plugin /\ m.kind = k.kind
      /\ m.version = k.version /\ m.older = k.older /\ m.path = k.path /\ m.file = k.file
      /\ m.variant = k.variant
  BY <1>2, <1>3, Zenon DEF Publication
<1>5. calls \in [Call -> Publication \cup {Nothing}]
  BY Zenon DEF Types
<1>6. calls' = [calls EXCEPT ![c] = m]
  BY <1>1, <1>2, <1>5, Zenon
<1>7. /\ calls' \in [Call -> Publication \cup {Nothing}] /\ calls'[c] = m
      /\ \A d \in Call : d # c => calls'[d] = calls[d]
  BY <1>4, <1>5, <1>6, ZenonT(40)
<1>8. m # Nothing
  BY <1>4, CatalogAssumption, Zenon
<1>9. ASSUME NEW d \in Call
      PROVE  SameCall(d)
  <2>1. CASE d = c
    BY <1>1, <1>3, <1>4, <1>7, <2>1, Zenon DEF SameCall
  <2>2. CASE d # c
    <3>1. calls'[d] = calls[d]
      BY <1>7, <2>2, Zenon
    <3> QED
      BY <3>1, Zenon DEF SameCall
  <2> QED
    BY <2>1, <2>2, Zenon
<1> QED
  BY <1>1, <1>4, <1>7, <1>8, <1>9, Zenon

(* The upsert of an artifact.                                              *)
Upserts(a, P, F) ==
  /\ DOMAIN artifacts' = DOMAIN artifacts \cup {a} /\ DOMAIN artifacts' \subseteq Key
  /\ artifacts' \in [DOMAIN artifacts' -> [path : Path, sum : File]]
  /\ \A b \in DOMAIN artifacts' :
       \/ b \in DOMAIN artifacts /\ artifacts'[b] = artifacts[b]
       \/ b = a /\ artifacts'[b].path = P /\ artifacts'[b].sum = F

(* The INSERT ... ON CONFLICT DO UPDATE of an artifact is such an upsert.  *)
LEMMA ArtifactIs ==
  ASSUME Types, NEW a \in Key, NEW P \in Path, NEW F \in File,
         artifacts' = CreateArtifact(a, P, F)
  PROVE  Upserts(a, P, F)
<1>1. PICK r : r = [path |-> P, sum |-> F]
  BY Zenon
<1>2. r \in [path : Path, sum : File] /\ r.path = P /\ r.sum = F
  BY <1>1, SMT
<1>3. artifacts \in [DOMAIN artifacts -> [path : Path, sum : File]] /\ DOMAIN artifacts \subseteq Key
  BY Zenon DEF Types
<1>4. artifacts' = Put(artifacts, a, r)
  BY <1>1, Zenon DEF CreateArtifact
<1>5. Puts(artifacts, a, r, [path : Path, sum : File], artifacts')
  BY <1>2, <1>3, <1>4, PutIs, Zenon
<1> QED
  BY <1>2, <1>3, <1>5, Zenon DEF Puts, Upserts

(* The publication of a version by a call that ends.                       *)
LEMMA PublishedKept ==
  ASSUME Types, CurrentInv, NEW c \in Call, calls[c] # Nothing,
         NEW p \in Plugin, p = calls[c].plugin, Present(p), NEW v,
         calls' = [calls EXCEPT ![c] = Nothing],
         UNCHANGED <<plugins, hand, crossed>>, had' = had \cup {p}, cut' = cut \ {p},
         \A q \in Plugin : q # p => versions'[q] = versions[q],
         v \in Current(p)', p \notin hand \cup crossed => Current(p)' \subseteq {v}
  PROVE  CurrentInv'
<1>1. /\ plugins' = plugins /\ hand' = hand /\ crossed' = crossed
      /\ calls'[c] = Nothing /\ \A d \in Call : d # c => calls'[d] = calls[d]
      /\ \A d \in Call : \A q : GoesOn(d, q)
  BY CallEnds, Zenon
<1>2. ASSUME NEW q \in Plugin, q # p
      PROVE  CurrentOK(q)'
  <2>1. versions'[q] = versions[q] /\ (q \in had' => q \in had) /\ (q \in cut => q \in cut')
    BY <1>2, Zenon
  <2>2. CurrentStill(q)
    BY <1>1, <2>1, Zenon DEF CurrentStill, Present
  <2> QED
    BY <2>2, CurrentFrame, Zenon DEF CurrentInv
<1>3. CurrentOK(p)'
  <2>1. CurrentOK(p)
    BY Zenon DEF CurrentInv
  <2>2. plugins'[p].status # "absent"
    BY <1>1, Zenon DEF Present
  <2>3. p \notin crossed' => Sole(p) /\ \A d \in Call : calls'[d] # Nothing => calls'[d].plugin # p
    <3>1. p \notin crossed' => Sole(p)
      BY <1>1, <2>1, Zenon DEF CurrentOK
    <3>2. ASSUME Sole(p), NEW d \in Call, calls'[d] # Nothing
          PROVE  calls'[d].plugin # p
      <4>1. d # c /\ calls'[d] = calls[d]
        BY <1>1, <3>2, Zenon
      <4> QED
        BY <3>2, <4>1, Zenon DEF Sole
    <3> QED
      BY <3>1, <3>2, Zenon
  <2>4. p \notin crossed' => Sole(p)'
    BY <2>3, Zenon DEF Sole
  <2>5. ASSUME p \notin hand' \cup crossed'
        PROVE  /\ \A u, w \in Current(p)' : u = w
               /\ \A d \in Call : (calls[d] # Nothing /\ calls[d].plugin = p => Prepared(d))'
    BY <1>1, <2>3, <2>5, Zenon
  <2>6. Current(p)' # {}
    BY Zenon
  <2> QED
    BY <2>2, <2>4, <2>5, <2>6, Zenon DEF CurrentOK
<1> QED
  BY <1>2, <1>3, Zenon DEF CurrentInv

(* The rows of an upload.                                                  *)
LEMMA UploadCommitsKept ==
  ASSUME IInv, NEW c \in Call, UploadCommits(c)
  PROVE  IInv'
<1>1. PICK k \in Publication : k = calls[c] /\ calls[c] # Nothing
  BY Zenon DEF UploadCommits, IInv, Types
<1>2. PICK p \in Plugin, x \in Variant, v \in Version, P \in Path, F \in File, older \in SUBSET Version,
           stamp \in Nat : /\ p = k.plugin /\ x = k.variant /\ v = k.version /\ P = k.path
                           /\ F = k.file /\ older = k.older /\ stamp = k.stamp
  BY Zenon DEF Publication
<1>3. PICK a : a = <<x, v>>
  BY Zenon
<1>4. a \in Key
  BY <1>3, Zenon DEF Key
<1>5. PICK mode \in Mode :
         versions' = [versions EXCEPT ![p] = Publish(versions[p], older, v, a, mode, stamp)]
  BY <1>1, <1>2, <1>3, Zenon DEF UploadCommits
<1>6. /\ k.kind = "ui" /\ Present(p) /\ artifacts' = CreateArtifact(a, P, F)
      /\ links' = IF x = "" THEN links ELSE links \cup {<<p, v, x>>}
      /\ campaigns' \in {campaigns, WithCampaign(p, a)}
      /\ calls' = [calls EXCEPT ![c] = Nothing] /\ had' = had \cup {p} /\ cut' = cut \ {p}
      /\ UNCHANGED <<plugins, aliases, now, disk, cache, writes, rewritten, lost, hand, crossed>>
  BY <1>1, <1>2, <1>3, Zenon DEF UploadCommits, catalogVars, fileVars
<1>7. versions \in [Plugin -> [Version -> Release]] /\ versions[p] \in [Version -> Release]
  BY Zenon DEF IInv, Types
<1>8. PICK dep : dep = Deprecate(versions[p], older \ {v})
  BY Zenon
<1>9. Deprecates(versions[p], older \ {v}, dep)
  BY <1>7, <1>8, DeprecateIs, Zenon
<1>10. PICK new : new = CreateVersion(dep, v, a, mode, "published", stamp)
  BY Zenon
<1>11. Creates(dep, v, a, "published", new)
  <2>1. a \in Key \cup {Nothing} /\ "published" \in {"draft", "published"}
        /\ dep \in [Version -> Release]
    BY <1>4, <1>9, Zenon DEF Deprecates
  <2> QED
    BY <1>10, <2>1, CreateIs, Zenon
<1>12. Rows(p, new)
  <2>1. new \in [Version -> Release] /\ versions' = [versions EXCEPT ![p] = new]
    BY <1>5, <1>8, <1>10, <1>11, Zenon DEF Publish, Creates
  <2> QED
    BY <1>7, <2>1, RowsAre, Zenon
<1>13. /\ DOMAIN artifacts' = DOMAIN artifacts \cup {a} /\ DOMAIN artifacts' \subseteq Key
       /\ artifacts' \in [DOMAIN artifacts' -> [path : Path, sum : File]]
       /\ \A b \in DOMAIN artifacts' :
            \/ b \in DOMAIN artifacts /\ artifacts'[b] = artifacts[b]
            \/ b = a /\ artifacts'[b].path = P /\ artifacts'[b].sum = F
  <2>1. Upserts(a, P, F)
    BY <1>4, <1>6, ArtifactIs, Zenon DEF IInv
  <2> QED
    BY <2>1, Zenon DEF Upserts
<1>14. campaigns' \subseteq Campaign
       /\ \A d \in campaigns' : d.art = a \/ \E e \in campaigns : d.art = e.art
  <2>1. campaigns \subseteq Campaign /\ p \in Plugin \cup {NoPlugin}
    BY Zenon DEF IInv, Types
  <2>2. CASE campaigns' = campaigns
    BY <2>1, <2>2, Zenon
  <2>3. CASE campaigns' = WithCampaign(p, a)
    <3>1. Campaigned(a, campaigns')
      BY <1>4, <2>1, <2>3, WithCampaignIs, Zenon
    <3> QED
      BY <3>1, Zenon DEF Campaigned
  <2> QED
    BY <1>6, <2>2, <2>3, Zenon
<1>15. links' \subseteq Plugin \X Version \X Variant
       /\ \A l \in links' : l \in links \/ l = <<p, v, x>>
  <2>1. <<p, v, x>> \in Plugin \X Version \X Variant
    BY SMT
  <2>2. links \subseteq Plugin \X Version \X Variant
    BY Zenon DEF IInv, Types
  <2> QED
    BY <1>6, <2>1, <2>2, Zenon
<1>16. calls' \in [Call -> Publication \cup {Nothing}] /\ \A d \in Call : SameCall(d)
  BY <1>6, CallEnds, Zenon DEF IInv
<1>17. Types'
  BY <1>6, <1>12, <1>13, <1>14, <1>15, <1>16, Zenon DEF IInv, Types, Rows
<1>18. FilesInv'
  <2>1. \A b \in DOMAIN artifacts' :
          \/ b \in DOMAIN artifacts /\ artifacts'[b] = artifacts[b]
          \/ \E d \in Call : /\ calls[d] # Nothing /\ b = <<calls[d].variant, calls[d].version>>
                             /\ artifacts'[b].path = calls[d].path /\ artifacts'[b].sum = calls[d].file
    BY <1>1, <1>2, <1>3, <1>13, Zenon
  <2>2. FilesStill
    BY <1>6, <1>16, <2>1, Zenon DEF FilesStill
  <2> QED
    BY <2>2, FilesFrame, Zenon DEF IInv
<1>19. RefsInv'
  <2>1. ASSUME NEW q \in Plugin, NEW w \in Version
        PROVE  \/ versions'[q][w].art = versions[q][w].art
               \/ versions'[q][w].art \in DOMAIN artifacts'
    <3>1. CASE q = p /\ w = v
      BY <1>9, <1>11, <1>12, <1>13, <3>1, Zenon DEF Rows, Creates, Deprecates
    <3>2. CASE q = p /\ w # v
      BY <1>9, <1>11, <1>12, <3>2, Zenon DEF Rows, Creates, Deprecates
    <3>3. CASE q # p
      BY <1>12, <3>3, Zenon DEF Rows
    <3> QED
      BY <3>1, <3>2, <3>3, Zenon
  <2>2. versions'[p][v].status # "absent"
    <3>1. versions'[p][v].status = "published"
      BY <1>11, <1>12, Zenon DEF Rows, Creates
    <3> QED
      BY <3>1, Zenon
  <2>3. ASSUME NEW q \in Plugin, NEW w \in Version, versions'[q][w].status = "absent"
        PROVE  versions[q][w].status = "absent"
    <3>1. CASE q = p
      <4>1. w # v
        BY <2>2, <2>3, <3>1, Zenon
      <4> QED
        BY <1>9, <1>11, <1>12, <2>3, <3>1, <4>1, Zenon DEF Rows, Creates, Deprecates
    <3>2. CASE q # p
      BY <1>12, <2>3, <3>2, Zenon DEF Rows
    <3> QED
      BY <3>1, <3>2, Zenon
  <2>4. ASSUME NEW l \in links'
        PROVE  \/ l \in links /\ (versions'[l[1]][l[2]].status = "absent"
                                      => versions[l[1]][l[2]].status = "absent")
               \/ versions'[l[1]][l[2]].status # "absent" /\ <<l[3], l[2]>> \in DOMAIN artifacts'
    <3>1. CASE l \in links
      <4>1. l[1] \in Plugin /\ l[2] \in Version
        BY <1>15, SMT
      <4> QED
        BY <2>3, <3>1, <4>1, Zenon
    <3>2. CASE l = <<p, v, x>>
      <4>1. l[1] = p /\ l[2] = v /\ l[3] = x
        BY <3>2, SMT
      <4> QED
        BY <1>3, <1>13, <2>2, <4>1, Zenon
    <3> QED
      BY <1>15, <3>1, <3>2, Zenon
  <2>5. RefsStill
    BY <1>13, <1>14, <2>1, <2>4, Zenon DEF RefsStill
  <2> QED
    BY <2>5, RefsFrame, Zenon DEF IInv
<1>20. NamesInv'
  BY <1>6, Zenon DEF IInv, NamesInv, Present
<1>21. CurrentInv'
  <2>1. \A q \in Plugin : q # p => versions'[q] = versions[q]
    BY <1>12, Zenon DEF Rows
  <2>2. v \in Current(p)'
    BY <1>11, <1>12, Zenon DEF Rows, Creates, Current
  <2>3. ASSUME p \notin hand \cup crossed
        PROVE  Current(p)' \subseteq {v}
    <3>1. Prepared(c)
      BY <1>1, <1>2, <2>3, Zenon DEF IInv, CurrentInv, CurrentOK
    <3>2. Current(p) \ {v} \subseteq older
      BY <1>1, <1>2, <1>6, <3>1, Zenon DEF Prepared
    <3>3. ASSUME NEW w \in Version, w # v, versions'[p][w].status = "published"
          PROVE  FALSE
      <4>1. dep[w].status = "published"
        BY <1>11, <1>12, <3>3, Zenon DEF Rows, Creates
      <4>2. versions[p][w].status = "published" /\ w \notin older \ {v}
        BY <1>9, <4>1, Zenon DEF Deprecates
      <4> QED
        BY <3>2, <3>3, <4>2, Zenon DEF Current
    <3> QED
      BY <3>3, Zenon DEF Current
  <2> QED
    BY <1>1, <1>2, <1>6, <2>1, <2>2, <2>3, PublishedKept, Zenon DEF IInv
<1> QED
  BY <1>17, <1>18, <1>19, <1>20, <1>21, Zenon DEF IInv

(* A step of a deploy is that of a call without a variant.                 *)
LEMMA DeployCall ==
  ASSUME IInv, NEW c \in Call, calls[c] # Nothing, calls[c].step # "written"
  PROVE  \E p \in Plugin, v \in Version, P \in Path, F \in File :
           /\ p = calls[c].plugin /\ v = calls[c].version /\ P = calls[c].path /\ F = calls[c].file
           /\ <<"", v>> \in Key /\ calls[c].variant = ""
<1>1. PICK k \in Publication : k = calls[c]
  BY Zenon DEF IInv, Types
<1>2. PICK p \in Plugin, v \in Version, P \in Path, F \in File :
         p = k.plugin /\ v = k.version /\ P = k.path /\ F = k.file
  BY Zenon DEF Publication
<1>3. k.kind \in {"ui", "api"}
  BY Zenon DEF Publication
<1>4. CallOK(c)
  BY Zenon DEF IInv, FilesInv
<1>5. k.variant = ""
  BY <1>1, <1>3, <1>4, Zenon DEF CallOK
<1>6. <<"", v>> \in Key
  BY CatalogAssumption, Zenon DEF Key
<1> QED
  BY <1>1, <1>2, <1>5, <1>6, Zenon

(* The artifact of a deploy.                                               *)
LEMMA DeployArtifactKept ==
  ASSUME IInv, NEW c \in Call, DeployArtifact(c)
  PROVE  IInv'
<1>1. /\ calls[c] # Nothing /\ calls[c].step = "persisted"
      /\ artifacts' = CreateArtifact(<<"", calls[c].version>>, calls[c].path, calls[c].file)
      /\ calls' = [calls EXCEPT ![c].step = "stored"]
      /\ UNCHANGED <<plugins, aliases, versions, links, campaigns, now, disk, cache, writes,
                     rewritten, lost, had, hand, cut, crossed>>
  BY Zenon DEF DeployArtifact, catalogVars, fileVars, historyVars
<1>2. calls[c].step # "written" /\ "stored" \in {"stored", "deprecated"} /\ "stored" # "deprecated"
  BY <1>1, Zenon
<1>3. PICK p \in Plugin, v \in Version, P \in Path, F \in File :
           /\ p = calls[c].plugin /\ v = calls[c].version /\ P = calls[c].path /\ F = calls[c].file
           /\ <<"", v>> \in Key /\ calls[c].variant = ""
  BY <1>1, <1>2, DeployCall, Zenon
<1>4. PICK a \in Key : a = <<"", v>>
  BY <1>3, Zenon
<1>5. artifacts' = CreateArtifact(a, P, F)
  BY <1>1, <1>3, <1>4, Zenon
<1>6. /\ DOMAIN artifacts' = DOMAIN artifacts \cup {a} /\ DOMAIN artifacts' \subseteq Key
      /\ artifacts' \in [DOMAIN artifacts' -> [path : Path, sum : File]]
      /\ \A b \in DOMAIN artifacts' :
           \/ b \in DOMAIN artifacts /\ artifacts'[b] = artifacts[b]
           \/ b = a /\ artifacts'[b].path = P /\ artifacts'[b].sum = F
  <2>1. Upserts(a, P, F)
    BY <1>5, ArtifactIs, Zenon DEF IInv
  <2> QED
    BY <2>1, Zenon DEF Upserts
<1>7. /\ calls' \in [Call -> Publication \cup {Nothing}] /\ calls'[c] # Nothing
      /\ calls'[c].step = "stored" /\ calls'[c].plugin = calls[c].plugin
      /\ calls'[c].kind = calls[c].kind /\ calls'[c].version = calls[c].version
      /\ calls'[c].older = calls[c].older
      /\ \A d \in Call : d # c => calls'[d] = calls[d]
      /\ \A d \in Call : SameCall(d)
  BY <1>1, <1>2, CallSteps, Zenon DEF IInv
<1>8. Types'
  BY <1>1, <1>6, <1>7, Zenon DEF IInv, Types
<1>9. FilesInv'
  <2>1. \A b \in DOMAIN artifacts' :
          \/ b \in DOMAIN artifacts /\ artifacts'[b] = artifacts[b]
          \/ \E d \in Call : /\ calls[d] # Nothing /\ b = <<calls[d].variant, calls[d].version>>
                             /\ artifacts'[b].path = calls[d].path /\ artifacts'[b].sum = calls[d].file
    BY <1>1, <1>3, <1>4, <1>6, Zenon
  <2>2. FilesStill
    BY <1>1, <1>7, <2>1, Zenon DEF FilesStill
  <2> QED
    BY <2>2, FilesFrame, Zenon DEF IInv
<1>10. RefsInv' /\ NamesInv'
  <2>1. RefsStill
    BY <1>1, <1>6, Zenon DEF RefsStill
  <2>2. RefsInv'
    BY <2>1, RefsFrame, Zenon DEF IInv
  <2> QED
    BY <1>1, <2>2, Zenon DEF IInv, NamesInv, Present
<1>11. ASSUME NEW q \in Plugin
       PROVE  CurrentOK(q)'
  <2>1. \A d \in Call : GoesOn(d, q)
    BY <1>1, <1>2, <1>7, Zenon DEF GoesOn
  <2>2. CurrentStill(q)
    BY <1>1, <2>1, Zenon DEF CurrentStill, Present
  <2> QED
    BY <2>2, CurrentFrame, Zenon DEF IInv, CurrentInv
<1> QED
  BY <1>8, <1>9, <1>10, <1>11, Zenon DEF IInv, CurrentInv

(* The UPDATE of a deploy.                                                 *)
LEMMA DeployDeprecatesKept ==
  ASSUME IInv, NEW c \in Call, DeployDeprecates(c)
  PROVE  IInv'
<1>1. /\ calls[c] # Nothing /\ calls[c].step = "stored"
      /\ versions' = [versions EXCEPT ![calls[c].plugin] =
              Deprecate(versions[calls[c].plugin], Current(calls[c].plugin) \ {calls[c].version})]
      /\ calls' = [calls EXCEPT ![c].step = "deprecated"]
      /\ cut' = IF Current(calls[c].plugin) = {} \/ calls[c].version \in Current(calls[c].plugin)
                THEN cut ELSE cut \cup {calls[c].plugin}
      /\ UNCHANGED <<plugins, aliases, artifacts, links, campaigns, now, disk, cache, writes,
                     rewritten, lost, had, hand, crossed>>
  BY Zenon DEF DeployDeprecates, catalogVars, fileVars
<1>2. calls[c].step # "written" /\ "deprecated" \in {"stored", "deprecated"}
  BY <1>1, Zenon
<1>3. PICK p \in Plugin, v \in Version : p = calls[c].plugin /\ v = calls[c].version
  BY <1>1, <1>2, DeployCall, Zenon
<1>4. PICK new : new = Deprecate(versions[p], Current(p) \ {v})
  BY Zenon
<1>5. versions \in [Plugin -> [Version -> Release]] /\ versions[p] \in [Version -> Release]
  BY Zenon DEF IInv, Types
<1>6. Deprecates(versions[p], Current(p) \ {v}, new)
  BY <1>4, <1>5, DeprecateIs, Zenon
<1>7. Rows(p, new)
  <2>1. new \in [Version -> Release] /\ versions' = [versions EXCEPT ![p] = new]
    BY <1>1, <1>3, <1>4, <1>6, Zenon DEF Deprecates
  <2> QED
    BY <1>5, <2>1, RowsAre, Zenon
<1>8. /\ calls' \in [Call -> Publication \cup {Nothing}] /\ calls'[c] # Nothing
      /\ calls'[c].step = "deprecated" /\ calls'[c].plugin = calls[c].plugin
      /\ calls'[c].kind = calls[c].kind /\ calls'[c].version = calls[c].version
      /\ calls'[c].older = calls[c].older
      /\ \A d \in Call : d # c => calls'[d] = calls[d]
      /\ \A d \in Call : SameCall(d)
  BY <1>1, <1>2, CallSteps, Zenon DEF IInv
<1>9. Types'
  BY <1>1, <1>7, <1>8, Zenon DEF IInv, Types, Rows
<1>10. FilesInv'
  <2>1. FilesStill
    BY <1>1, <1>8, Zenon DEF FilesStill
  <2> QED
    BY <2>1, FilesFrame, Zenon DEF IInv
<1>11. RefsInv' /\ NamesInv'
  <2>1. ASSUME NEW q \in Plugin, NEW w \in Version
        PROVE  /\ versions'[q][w].art = versions[q][w].art
               /\ versions'[q][w].status = "absent" => versions[q][w].status = "absent"
    <3>1. CASE q = p
      BY <1>6, <1>7, <3>1, Zenon DEF Deprecates, Rows
    <3>2. CASE q # p
      BY <1>7, <3>2, Zenon DEF Rows
    <3> QED
      BY <3>1, <3>2, Zenon
  <2>2. \A l \in links : l[1] \in Plugin /\ l[2] \in Version
    <3>1. links \subseteq Plugin \X Version \X Variant
      BY Zenon DEF IInv, Types
    <3> QED
      BY <3>1, SMT
  <2>3. RefsStill
    BY <1>1, <2>1, <2>2, Zenon DEF RefsStill
  <2>4. RefsInv'
    BY <2>3, RefsFrame, Zenon DEF IInv
  <2> QED
    BY <1>1, <2>4, Zenon DEF IInv, NamesInv, Present
<1>12. ASSUME NEW q \in Plugin, q # p
       PROVE  CurrentOK(q)'
  <2>1. \A d \in Call : GoesOn(d, q)
    BY <1>3, <1>8, <1>12, Zenon DEF GoesOn
  <2>2. versions'[q] = versions[q] /\ (q \in cut => q \in cut')
    BY <1>1, <1>7, <1>12, Zenon DEF Rows
  <2>3. CurrentStill(q)
    BY <1>1, <2>1, <2>2, Zenon DEF CurrentStill, Present
  <2> QED
    BY <2>3, CurrentFrame, Zenon DEF IInv, CurrentInv
<1>13. CurrentOK(p)'
  <2>1. CurrentOK(p)
    BY Zenon DEF IInv, CurrentInv
  <2>2. \A w \in Version : versions'[p][w].status = "published" <=>
           versions[p][w].status = "published" /\ w \notin Current(p) \ {v}
    BY <1>6, <1>7, Zenon DEF Deprecates, Rows
  <2>3. \A w : w \in Current(p)' <=> w \in Current(p) /\ w = v
    BY <2>2, Zenon DEF Current
  <2>4. plugins'[p].status # "absent"
    BY <1>1, <1>3, <2>1, Zenon DEF CurrentOK
  <2>5. Sole(p) => Sole(p)' /\ \A d \in Call : calls'[d] # Nothing /\ calls'[d].plugin = p => d = c
    <3>1. \A d \in Call : calls'[d] # Nothing /\ calls'[d].plugin = p
                           => calls[d] # Nothing /\ calls[d].plugin = p
      BY <1>1, <1>3, <1>8, Zenon
    <3>2. calls[c] # Nothing /\ calls[c].plugin = p
      BY <1>1, <1>3, <1>8, Zenon
    <3> QED
      BY <3>1, <3>2, Zenon DEF Sole
  <2>6. ASSUME p \notin hand' \cup crossed'
        PROVE  /\ \A u, w \in Current(p)' : u = w
               /\ \A d \in Call : (calls[d] # Nothing /\ calls[d].plugin = p => Prepared(d))'
    <3>1. Sole(p)
      BY <1>1, <2>1, <2>6, Zenon DEF CurrentOK
    <3>2. \A u, w \in Current(p)' : u = w
      <4>1. \A u \in Current(p)' : u = v
        BY <2>3, Zenon
      <4> QED
        BY <4>1, Zenon
    <3>3. calls'[c].kind # "ui"
      <4>1. CallOK(c)
        BY Zenon DEF IInv, FilesInv
      <4> QED
        BY <1>1, <1>2, <1>8, <4>1, Zenon DEF CallOK
    <3>4. Prepared(c)'
      BY <1>3, <1>8, <2>3, <3>3, Zenon DEF Prepared
    <3> QED
      BY <2>5, <3>1, <3>2, <3>4, Zenon
  <2>7. ASSUME p \in had', Current(p)' = {}, Present(p)'
        PROVE  p \in hand' \cup cut'
    <3>1. p \in had /\ Present(p) /\ v \notin Current(p)
      BY <1>1, <2>3, <2>7, Zenon DEF Present
    <3>2. CASE Current(p) = {}
      BY <1>1, <1>3, <2>1, <3>1, <3>2, Zenon DEF CurrentOK
    <3>3. CASE Current(p) # {}
      BY <1>1, <1>3, <3>1, <3>3, Zenon
    <3> QED
      BY <3>2, <3>3, Zenon
  <2> QED
    BY <1>1, <2>1, <2>4, <2>5, <2>6, <2>7, Zenon DEF CurrentOK
<1> QED
  BY <1>9, <1>10, <1>11, <1>12, <1>13, Zenon DEF IInv, CurrentInv

(* One row of plugin_versions upserted: no other row changes its artifact, *)
(* and none goes away.                                                     *)
LEMMA RowRefs ==
  ASSUME NEW p \in Plugin, NEW v \in Version, NEW base, NEW a, NEW status, NEW new,
         \A w \in Version : /\ base[w].art = versions[p][w].art
                            /\ base[w].status = "absent" <=> versions[p][w].status = "absent",
         Creates(base, v, a, status, new), status # "absent", Rows(p, new),
         a \in DOMAIN artifacts' \cup {Nothing}
  PROVE  \A q \in Plugin, w \in Version :
           /\ versions'[q][w].art = versions[q][w].art \/ versions'[q][w].art \in DOMAIN artifacts'
           /\ versions'[q][w].status = "absent" => versions[q][w].status = "absent"
<1> SUFFICES ASSUME NEW q \in Plugin, NEW w \in Version
             PROVE  /\ versions'[q][w].art = versions[q][w].art
                         \/ versions'[q][w].art \in DOMAIN artifacts'
                    /\ versions'[q][w].status = "absent" => versions[q][w].status = "absent"
  BY Zenon
<1>1. CASE q = p /\ w = v
  <2>1. versions'[q][w] = new[v] /\ base[v].art = versions[q][w].art
    BY <1>1, Zenon DEF Rows
  <2>2. new[v].status = status /\ new[v].art = IF a = Nothing THEN base[v].art ELSE a
    BY Zenon DEF Creates
  <2> QED
    BY <2>1, <2>2, Zenon
<1>2. CASE q = p /\ w # v
  <2>1. versions'[q][w] = base[w]
    BY <1>2, Zenon DEF Rows, Creates
  <2> QED
    BY <1>2, <2>1, Zenon
<1>3. CASE q # p
  <2>1. versions'[q][w] = versions[q][w]
    BY <1>3, Zenon DEF Rows
  <2> QED
    BY <2>1, Zenon
<1> QED
  BY <1>1, <1>2, <1>3, Zenon

(* The columns of a variant's link.                                        *)
LEMMA LinkIs ==
  ASSUME Types, NEW l \in links
  PROVE  l[1] \in Plugin /\ l[2] \in Version /\ l[3] \in Variant
<1>1. l \in Plugin \X Version \X Variant
  BY Zenon DEF Types
<1> QED
  BY <1>1, SMT

(* The INSERT of a deploy.                                                 *)
LEMMA DeployPublishesKept ==
  ASSUME IInv, NEW c \in Call, DeployPublishes(c)
  PROVE  IInv'
<1>1. calls[c] # Nothing /\ calls[c].step = "deprecated"
  BY Zenon DEF DeployPublishes
<1>2. calls[c].step # "written"
  BY <1>1, Zenon
<1>3. PICK p \in Plugin, v \in Version :
         p = calls[c].plugin /\ v = calls[c].version /\ <<"", v>> \in Key
  BY <1>1, <1>2, DeployCall, Zenon
<1>4. PICK a \in Key : a = <<"", v>>
  BY <1>3, Zenon
<1>5. PICK mode, stamp : mode = versions[p][v].mode /\ stamp = now + 1
  BY Zenon
<1>6. PICK new : new = CreateVersion(versions[p], v, a, mode, "published", stamp)
  BY Zenon
<1>7. /\ Present(p) /\ a \in DOMAIN artifacts /\ versions' = [versions EXCEPT ![p] = new]
      /\ now' = stamp /\ campaigns' = WithCampaign(p, a)
      /\ calls' = [calls EXCEPT ![c] = Nothing] /\ had' = had \cup {p} /\ cut' = cut \ {p}
      /\ UNCHANGED <<plugins, aliases, artifacts, links, disk, cache, writes, rewritten, lost,
                     hand, crossed>>
  BY <1>3, <1>4, <1>5, <1>6, Zenon DEF DeployPublishes, catalogVars, fileVars
<1>8. versions \in [Plugin -> [Version -> Release]] /\ versions[p] \in [Version -> Release]
      /\ versions[p][v] \in Release /\ now \in Nat
  BY Zenon DEF IInv, Types
<1>9. mode \in Mode /\ stamp \in Nat
  <2>1. versions[p][v].mode \in Mode
    BY <1>8, Zenon DEF Release
  <2>2. now + 1 \in Nat
    BY <1>8, SMT
  <2> QED
    BY <1>5, <2>1, <2>2, Zenon
<1>10. Creates(versions[p], v, a, "published", new)
  <2>1. a \in Key \cup {Nothing} /\ "published" \in {"draft", "published"}
    BY Zenon
  <2> QED
    BY <1>6, <1>8, <1>9, <2>1, CreateIs, Zenon
<1>11. Rows(p, new)
  BY <1>7, <1>8, <1>10, RowsAre, Zenon DEF Creates
<1>12. Campaigned(a, campaigns')
  <2>1. campaigns \subseteq Campaign /\ p \in Plugin \cup {NoPlugin}
    BY Zenon DEF IInv, Types
  <2> QED
    BY <1>7, <2>1, WithCampaignIs, Zenon
<1>13. calls' \in [Call -> Publication \cup {Nothing}] /\ \A d \in Call : SameCall(d)
  BY <1>7, CallEnds, Zenon DEF IInv
<1>14. Types'
  BY <1>7, <1>9, <1>11, <1>12, <1>13, Zenon DEF IInv, Types, Rows, Campaigned
<1>15. FilesInv'
  <2>1. FilesStill
    BY <1>7, <1>13, Zenon DEF FilesStill
  <2> QED
    BY <2>1, FilesFrame, Zenon DEF IInv
<1>16. RefsInv' /\ NamesInv'
  <2>1. a \in DOMAIN artifacts' \cup {Nothing} /\ a \in DOMAIN artifacts' /\ "published" # "absent"
    BY <1>7, Zenon
  <2>2. \A q \in Plugin, w \in Version :
          /\ versions'[q][w].art = versions[q][w].art \/ versions'[q][w].art \in DOMAIN artifacts'
          /\ versions'[q][w].status = "absent" => versions[q][w].status = "absent"
    BY <1>10, <1>11, <2>1, RowRefs, Zenon
  <2>3. \A l \in links : l[1] \in Plugin /\ l[2] \in Version
    BY LinkIs, Zenon DEF IInv
  <2>4. \A d \in campaigns' : (\E e \in campaigns : d.art = e.art) \/ d.art \in DOMAIN artifacts'
    BY <1>12, <2>1, Zenon DEF Campaigned
  <2>5. RefsStill
    BY <1>7, <2>2, <2>3, <2>4, Zenon DEF RefsStill
  <2>6. RefsInv'
    BY <2>5, RefsFrame, Zenon DEF IInv
  <2> QED
    BY <1>7, <2>6, Zenon DEF IInv, NamesInv, Present
<1>17. CurrentInv'
  <2>1. \A q \in Plugin : q # p => versions'[q] = versions[q]
    BY <1>11, Zenon DEF Rows
  <2>2. v \in Current(p)'
    BY <1>10, <1>11, Zenon DEF Rows, Creates, Current
  <2>3. ASSUME p \notin hand \cup crossed
        PROVE  Current(p)' \subseteq {v}
    <3>1. Prepared(c)
      BY <1>1, <1>3, <2>3, Zenon DEF IInv, CurrentInv, CurrentOK
    <3>2. Current(p) \subseteq {v}
      BY <1>1, <1>3, <3>1, Zenon DEF Prepared
    <3>3. \A w \in Version : w # v => versions'[p][w] = versions[p][w]
      BY <1>10, <1>11, Zenon DEF Rows, Creates
    <3> QED
      BY <3>2, <3>3, Zenon DEF Current
  <2> QED
    BY <1>1, <1>3, <1>7, <2>1, <2>2, <2>3, PublishedKept, Zenon DEF IInv
<1> QED
  BY <1>14, <1>15, <1>16, <1>17, Zenon DEF IInv

(* A call that ends in an error.                                           *)
LEMMA CallFailsKept ==
  ASSUME IInv, NEW c \in Call, CallFails(c)
  PROVE  IInv'
<1>1. /\ calls' = [calls EXCEPT ![c] = Nothing]
      /\ UNCHANGED <<plugins, aliases, versions, artifacts, links, campaigns, now, disk, cache,
                     writes, rewritten, lost, had, hand, cut, crossed>>
  BY Zenon DEF CallFails, catalogVars, releaseVars, fileVars, historyVars
<1>2. /\ calls' \in [Call -> Publication \cup {Nothing}]
      /\ \A d \in Call : SameCall(d) /\ \A q : GoesOn(d, q)
  BY <1>1, CallEnds, Zenon DEF IInv
<1>3. Types'
  BY <1>1, <1>2, Zenon DEF IInv, Types
<1>4. FilesInv'
  <2>1. FilesStill
    BY <1>1, <1>2, Zenon DEF FilesStill
  <2> QED
    BY <2>1, FilesFrame, Zenon DEF IInv
<1>5. RefsInv' /\ NamesInv'
  BY <1>1, Zenon DEF IInv, RefsInv, NamesInv, Present
<1>6. ASSUME NEW q \in Plugin
      PROVE  CurrentOK(q)'
  <2>1. CurrentStill(q)
    BY <1>1, <1>2, Zenon DEF CurrentStill, Present
  <2> QED
    BY <2>1, CurrentFrame, Zenon DEF IInv, CurrentInv
<1> QED
  BY <1>3, <1>4, <1>5, <1>6, Zenon DEF IInv, CurrentInv

-----------------------------------------------------------------------------
(* The other operations of the admin.                                      *)

(* An artifact uploaded on its own.                                        *)
LEMMA UploadArtifactKept ==
  ASSUME IInv, NEW x \in Variant, NEW v \in Version, UploadArtifact(x, v)
  PROVE  IInv'
<1>1. PICK P, n : P = <<"artifact", Nothing, x, v>> /\ n = writes + 1
  BY Zenon
<1>2. PICK F : F = [of |-> P, plugin |-> NoPlugin, n |-> n]
  BY Zenon
<1>3. PICK a : a = <<x, v>>
  BY Zenon
<1>4. /\ writes' = n /\ disk' = Put(disk, P, F) /\ artifacts' = CreateArtifact(a, P, F)
      /\ rewritten' = Again(P)
      /\ UNCHANGED <<plugins, aliases, versions, links, campaigns, now, cache, lost, calls,
                     had, hand, cut, crossed>>
  BY <1>1, <1>2, <1>3, Zenon DEF UploadArtifact, catalogVars, historyVars
<1>5. n \in Nat
  <2>1. writes \in Nat
    BY Zenon DEF IInv, Types
  <2> QED
    BY <1>1, <2>1, SMT
<1>6. P \in Path /\ P[3] = x /\ P[4] = v
  <2>1. Nothing \in Name \cup {Nothing} /\ "artifact" \in {"ui", "api", "artifact"}
    BY Zenon
  <2> QED
    BY <1>1, <2>1, SMT DEF Path
<1>7. F \in File /\ F.of = P
  <2>1. NoPlugin \in Plugin \cup {NoPlugin}
    BY Zenon
  <2> QED
    BY <1>2, <1>5, <1>6, <2>1, SMT DEF File
<1>8. a \in Key
  BY <1>3, Zenon DEF Key
<1>9. /\ DOMAIN artifacts' = DOMAIN artifacts \cup {a} /\ DOMAIN artifacts' \subseteq Key
      /\ artifacts' \in [DOMAIN artifacts' -> [path : Path, sum : File]]
      /\ \A b \in DOMAIN artifacts' :
           \/ b \in DOMAIN artifacts /\ artifacts'[b] = artifacts[b]
           \/ b = a /\ artifacts'[b].path = P /\ artifacts'[b].sum = F
  <2>1. Types /\ P \in Path /\ F \in File /\ artifacts' = CreateArtifact(a, P, F)
    BY <1>4, <1>6, <1>7, Zenon DEF IInv
  <2>2. Upserts(a, P, F)
    BY <1>8, <2>1, ArtifactIs, Zenon
  <2> QED
    BY <2>2, Zenon DEF Upserts
<1>10. Stored(P, F)
  <2>1. P \in DOMAIN disk'
    BY <1>4, Zenon DEF Put
  <2>2. \A c \in Call : SameCall(c)
    BY <1>4, Zenon DEF SameCall
  <2>3. a = <<P[3], P[4]>>
    BY <1>3, <1>6, Zenon
  <2>4. MayPut(disk, P, F, disk') /\ \A h \in Pod : MayPut(cache[h], P, F, cache'[h])
    BY <1>4, Zenon DEF MayPut
  <2> QED
    BY <1>4, <1>7, <1>9, <2>1, <2>2, <2>3, <2>4, ZenonT(40) DEF Stored
<1>11. FilesInv' /\ disk' \in [DOMAIN disk' -> File]
  BY <1>10, FilesWrite, Zenon DEF IInv
<1>12. Types'
  BY <1>4, <1>5, <1>9, <1>11, Zenon DEF IInv, Types
<1>13. RefsInv' /\ NamesInv'
  <2>1. RefsStill
    BY <1>4, <1>9, Zenon DEF RefsStill
  <2>2. RefsInv'
    BY <2>1, RefsFrame, Zenon DEF IInv
  <2> QED
    BY <1>4, <2>2, Zenon DEF IInv, NamesInv, Present
<1>14. ASSUME NEW q \in Plugin
       PROVE  CurrentOK(q)'
  <2>1. CurrentStill(q)
    BY <1>4, Zenon DEF CurrentStill, Present, GoesOn
  <2> QED
    BY <2>1, CurrentFrame, Zenon DEF IInv, CurrentInv
<1> QED
  BY <1>11, <1>12, <1>13, <1>14, Zenon DEF IInv, CurrentInv

(* The operations that touch neither versions nor binaries.                *)
LEMMA QuietKept ==
  ASSUME IInv, UNCHANGED <<versions, artifacts, links, calls, now, disk, cache, writes, rewritten,
                           lost, had, hand, cut, crossed>>,
         plugins' \in [Plugin -> PluginRow], aliases' \in [Name -> Plugin \cup {NoPlugin}],
         campaigns' \subseteq Campaign, \A c \in campaigns' : c.art \in DOMAIN artifacts,
         \A p \in Plugin : /\ plugins'[p].status = "absent" => plugins[p].status = "absent"
                           /\ Present(p)' => Present(p),
         NamesInv'
  PROVE  IInv'
<1>1. Types'
  BY Zenon DEF IInv, Types
<1>2. FilesInv'
  <2>1. \A c \in Call : SameCall(c)
    BY Zenon DEF SameCall
  <2>2. FilesStill
    BY <2>1, Zenon DEF FilesStill
  <2> QED
    BY <2>2, FilesFrame, Zenon DEF IInv
<1>3. RefsInv'
  BY Zenon DEF IInv, RefsInv
<1>4. ASSUME NEW q \in Plugin
      PROVE  CurrentOK(q)'
  <2>1. CurrentStill(q)
    BY Zenon DEF CurrentStill, GoesOn
  <2> QED
    BY <2>1, CurrentFrame, Zenon DEF IInv, CurrentInv
<1> QED
  BY <1>1, <1>2, <1>3, <1>4, Zenon DEF IInv, CurrentInv

(* The status of a plugin, set by hand.                                    *)
LEMMA PluginStatusKept ==
  ASSUME IInv, NEW p \in Plugin, NEW status \in {"active", "deprecated", "removed"},
         PluginStatus(p, status)
  PROVE  IInv'
<1>1. /\ Present(p) /\ plugins' = [plugins EXCEPT ![p].status = status]
      /\ UNCHANGED <<aliases, versions, artifacts, links, campaigns, calls, now, disk, cache,
                     writes, rewritten, lost, had, hand, cut, crossed>>
  BY Zenon DEF PluginStatus, releaseVars, fileVars, historyVars
<1>2. plugins \in [Plugin -> PluginRow] /\ plugins[p] \in PluginRow
  BY Zenon DEF IInv, Types
<1>3. PICK r : r = [plugins[p] EXCEPT !.status = status]
  BY Zenon
<1>4. status \in {"absent", "active", "deprecated", "removed", "purged"}
      /\ status \notin {"absent", "purged"}
  BY Zenon
<1>5. r \in PluginRow /\ r.status = status
  BY <1>2, <1>3, <1>4, Zenon DEF PluginRow
<1>6. plugins' = [plugins EXCEPT ![p] = r]
  BY <1>1, <1>2, <1>3, Zenon
<1>7. plugins' \in [Plugin -> PluginRow] /\ plugins'[p] = r
      /\ \A q \in Plugin : q # p => plugins'[q] = plugins[q]
  BY <1>2, <1>5, <1>6, Zenon
<1>8. ASSUME NEW q \in Plugin
      PROVE  /\ plugins'[q].status = "absent" => plugins[q].status = "absent"
             /\ Present(q)' <=> Present(q)
  <2>1. CASE q = p
    BY <1>1, <1>4, <1>5, <1>7, <2>1, Zenon DEF Present
  <2>2. CASE q # p
    BY <1>7, <2>2, Zenon DEF Present
  <2> QED
    BY <2>1, <2>2, Zenon
<1>9. aliases \in [Name -> Plugin \cup {NoPlugin}] /\ campaigns \subseteq Campaign
      /\ \A c \in campaigns : c.art \in DOMAIN artifacts
  BY Zenon DEF IInv, Types, RefsInv
<1>10. NamesInv'
  <2>1. ASSUME NEW n \in Name, aliases[n] # NoPlugin
        PROVE  Present(aliases[n]) /\ aliases[n] \in Plugin
    BY <1>9, <2>1, Zenon DEF IInv, NamesInv
  <2>2. ASSUME NEW n \in Name, aliases[n] # NoPlugin
        PROVE  plugins'[aliases[n]].status \notin {"absent", "purged"}
    BY <1>8, <2>1, <2>2, Zenon DEF Present
  <2> QED
    BY <1>1, <2>2, Zenon DEF NamesInv, Present
<1> QED
  BY <1>1, <1>7, <1>8, <1>9, <1>10, QuietKept, Zenon

(* The aliases.                                                            *)
LEMMA AliasKept ==
  ASSUME IInv, NEW n \in Name, NEW p \in Plugin, AliasAdd(n, p) \/ AliasDelete(n)
  PROVE  IInv'
<1>1. PICK q \in {p, NoPlugin} : aliases' = [aliases EXCEPT ![n] = q]
                                 /\ (q # NoPlugin => Present(q))
  BY Zenon DEF AliasAdd, AliasDelete
<1>2. UNCHANGED <<plugins, versions, artifacts, links, campaigns, calls, now, disk, cache,
                  writes, rewritten, lost, had, hand, cut, crossed>>
  BY Zenon DEF AliasAdd, AliasDelete, releaseVars, fileVars, historyVars
<1>3. /\ aliases \in [Name -> Plugin \cup {NoPlugin}] /\ campaigns \subseteq Campaign
      /\ plugins \in [Plugin -> PluginRow]
      /\ \A c \in campaigns : c.art \in DOMAIN artifacts
  BY Zenon DEF IInv, Types, RefsInv
<1>4. /\ aliases' \in [Name -> Plugin \cup {NoPlugin}] /\ aliases'[n] = q
      /\ \A m \in Name : m # n => aliases'[m] = aliases[m]
  BY <1>1, <1>3, Zenon
<1>5. NamesInv'
  <2>1. ASSUME NEW m \in Name, aliases'[m] # NoPlugin
        PROVE  Present(aliases'[m])
    BY <1>1, <1>4, <2>1, Zenon DEF IInv, NamesInv
  <2> QED
    BY <1>2, <2>1, Zenon DEF NamesInv, Present
<1> QED
  BY <1>2, <1>3, <1>4, <1>5, QuietKept, Zenon DEF Present

(* The campaigns of the form.                                              *)
LEMMA CampaignKept ==
  ASSUME IInv, \/ \E a \in DOMAIN artifacts : FormCampaign(a)
               \/ \E c \in campaigns : EndCampaign(c)
  PROVE  IInv'
<1>1. UNCHANGED <<plugins, aliases, versions, artifacts, links, calls, now, disk, cache,
                  writes, rewritten, lost, had, hand, cut, crossed>>
  BY Zenon DEF FormCampaign, EndCampaign, catalogVars, fileVars, historyVars
<1>2. /\ aliases \in [Name -> Plugin \cup {NoPlugin}] /\ campaigns \subseteq Campaign
      /\ plugins \in [Plugin -> PluginRow] /\ DOMAIN artifacts \subseteq Key
      /\ \A c \in campaigns : c.art \in DOMAIN artifacts
  BY Zenon DEF IInv, Types, RefsInv
<1>3. campaigns' \subseteq Campaign /\ \A c \in campaigns' : c.art \in DOMAIN artifacts
  <2>1. ASSUME NEW a \in DOMAIN artifacts, FormCampaign(a)
        PROVE  campaigns' \subseteq Campaign /\ \A c \in campaigns' : c.art \in DOMAIN artifacts
    <3>1. campaigns' = WithCampaign(NoPlugin, a) /\ NoPlugin \in Plugin \cup {NoPlugin} /\ a \in Key
      BY <1>2, <2>1, Zenon DEF FormCampaign
    <3>2. Campaigned(a, campaigns')
      BY <1>2, <3>1, WithCampaignIs, Zenon
    <3> QED
      BY <1>2, <3>2, Zenon DEF Campaigned
  <2>2. ASSUME NEW c \in campaigns, EndCampaign(c)
        PROVE  campaigns' \subseteq Campaign /\ \A e \in campaigns' : e.art \in DOMAIN artifacts
    <3>1. PICK d : d = [c EXCEPT !.status = "completed"]
      BY Zenon
    <3>2. d \in Campaign /\ d.art = c.art
      BY <1>2, <3>1, CompletedIs, Zenon
    <3>3. campaigns' = (campaigns \ {c}) \cup {d}
      BY <2>2, <3>1, Zenon DEF EndCampaign
    <3> QED
      BY <1>2, <3>2, <3>3, Zenon
  <2> QED
    BY <2>1, <2>2, Zenon
<1>4. NamesInv'
  BY <1>1, Zenon DEF IInv, NamesInv, Present
<1> QED
  BY <1>1, <1>2, <1>3, <1>4, QuietKept, Zenon DEF Present

(* Versions set by hand: the plugin is marked.                             *)
LEMMA HandKept ==
  ASSUME CurrentInv, NEW p \in Plugin, plugins[p].status # "absent",
         UNCHANGED <<plugins, calls, cut, crossed>>, hand' = hand \cup {p}, had' \subseteq had \cup {p},
         \A q \in Plugin : q # p => versions'[q] = versions[q]
  PROVE  CurrentInv'
<1>1. ASSUME NEW q \in Plugin, q # p
      PROVE  CurrentOK(q)'
  <2>1. versions'[q] = versions[q] /\ (q \in had' => q \in had) /\ (q \in hand => q \in hand')
    BY <1>1, Zenon
  <2>2. CurrentStill(q)
    BY <2>1, Zenon DEF CurrentStill, Present, GoesOn
  <2> QED
    BY <2>2, CurrentFrame, Zenon DEF CurrentInv
<1>2. CurrentOK(p)'
  <2>1. CurrentOK(p)
    BY Zenon DEF CurrentInv
  <2>2. p \notin crossed' => Sole(p)'
    BY <2>1, Zenon DEF CurrentOK, Sole
  <2> QED
    BY <2>2, Zenon DEF CurrentOK
<1> QED
  BY <1>1, <1>2, Zenon DEF CurrentInv

(* The operations that change one plugin's versions by hand.               *)
LEMMA ByHandKept ==
  ASSUME IInv, NEW p \in Plugin, NEW new, Rows(p, new), plugins[p].status # "absent",
         UNCHANGED <<plugins, aliases, artifacts, links, campaigns, calls, disk, cache, writes,
                     rewritten, lost, cut, crossed>>,
         now' = now + 1, hand' = hand \cup {p}, had' \subseteq had \cup {p},
         \A q \in Plugin, w \in Version :
           /\ versions'[q][w].art = versions[q][w].art \/ versions'[q][w].art \in DOMAIN artifacts
           /\ versions'[q][w].status = "absent" => versions[q][w].status = "absent"
  PROVE  IInv'
<1>1. Types'
  <2>1. now \in Nat
    BY Zenon DEF IInv, Types
  <2>2. now' \in Nat
    BY <2>1, SMT
  <2> QED
    BY <2>2, Zenon DEF IInv, Types, Rows
<1>2. FilesInv'
  <2>1. \A c \in Call : SameCall(c)
    BY Zenon DEF SameCall
  <2>2. FilesStill
    BY <2>1, Zenon DEF FilesStill
  <2> QED
    BY <2>2, FilesFrame, Zenon DEF IInv
<1>3. RefsInv'
  <2>1. \A l \in links : l[1] \in Plugin /\ l[2] \in Version
    BY LinkIs, Zenon DEF IInv
  <2>2. RefsStill
    BY <2>1, Zenon DEF RefsStill
  <2> QED
    BY <2>2, RefsFrame, Zenon DEF IInv
<1>4. NamesInv'
  BY Zenon DEF IInv, NamesInv, Present
<1>5. CurrentInv'
  <2>1. \A q \in Plugin : q # p => versions'[q] = versions[q]
    BY Zenon DEF Rows
  <2> QED
    BY <2>1, HandKept, Zenon DEF IInv
<1> QED
  BY <1>1, <1>2, <1>3, <1>4, <1>5, Zenon DEF IInv

(* The version form.                                                       *)
LEMMA VersionCreateKept ==
  ASSUME IInv, NEW p \in Plugin, NEW v \in Version, NEW a \in DOMAIN artifacts \cup {Nothing},
         NEW mode \in Mode, NEW status \in {"draft", "published"},
         VersionCreate(p, v, a, mode, status)
  PROVE  IInv'
<1>1. versions \in [Plugin -> [Version -> Release]] /\ versions[p] \in [Version -> Release]
      /\ now \in Nat /\ DOMAIN artifacts \subseteq Key
  BY Zenon DEF IInv, Types
<1>2. PICK stamp : stamp = now + 1
  BY Zenon
<1>3. PICK base : base = IF status = "published" THEN Deprecate(versions[p], Version \ {v})
                         ELSE versions[p]
  BY Zenon
<1>4. PICK new : new = CreateVersion(base, v, a, mode, status, stamp)
  BY Zenon
<1>5. /\ Present(p) /\ versions' = [versions EXCEPT ![p] = new] /\ now' = now + 1
      /\ hand' = hand \cup {p} /\ had' = IF status = "published" THEN had \cup {p} ELSE had
      /\ UNCHANGED <<plugins, aliases, artifacts, links, campaigns, calls, disk, cache, writes,
                     rewritten, lost, cut, crossed>>
  BY <1>2, <1>3, <1>4, Zenon DEF VersionCreate, catalogVars, fileVars
<1>6. /\ base \in [Version -> Release]
      /\ \A w \in Version : /\ base[w].art = versions[p][w].art
                            /\ base[w].status = "absent" <=> versions[p][w].status = "absent"
  <2>1. CASE status = "published"
    <3>1. base = Deprecate(versions[p], Version \ {v})
      BY <1>3, <2>1, Zenon
    <3>2. Deprecates(versions[p], Version \ {v}, base)
      BY <1>1, <3>1, DeprecateIs, Zenon
    <3> QED
      BY <3>2, Zenon DEF Deprecates
  <2>2. CASE status # "published"
    BY <1>1, <1>3, <2>2, Zenon
  <2> QED
    BY <2>1, <2>2, Zenon
<1>7. Creates(base, v, a, status, new)
  <2>1. a \in Key \cup {Nothing}
    BY <1>1, Zenon
  <2>2. stamp \in Nat
    BY <1>1, <1>2, SMT
  <2> QED
    BY <1>4, <1>6, <2>1, <2>2, CreateIs, Zenon
<1>8. Rows(p, new)
  BY <1>1, <1>5, <1>7, RowsAre, Zenon DEF Creates
<1>9. status # "absent" /\ a \in DOMAIN artifacts' \cup {Nothing} /\ DOMAIN artifacts' = DOMAIN artifacts
  BY <1>5, Zenon
<1>10. \A q \in Plugin, w \in Version :
         /\ versions'[q][w].art = versions[q][w].art \/ versions'[q][w].art \in DOMAIN artifacts'
         /\ versions'[q][w].status = "absent" => versions[q][w].status = "absent"
  BY <1>6, <1>7, <1>8, <1>9, RowRefs, ZenonT(40)
<1>11. plugins[p].status # "absent" /\ had' \subseteq had \cup {p}
  BY <1>5, Zenon DEF Present
<1> QED
  BY <1>5, <1>8, <1>9, <1>10, <1>11, ByHandKept, Zenon

(* The status of a version, set by hand.                                   *)
LEMMA VersionStatusKept ==
  ASSUME IInv, NEW p \in Plugin, NEW v \in Version, NEW status \in {"draft", "published", "yanked"},
         VersionStatus(p, v, status)
  PROVE  IInv'
<1>1. versions \in [Plugin -> [Version -> Release]] /\ versions[p] \in [Version -> Release]
      /\ now \in Nat /\ versions[p][v] \in Release
  BY Zenon DEF IInv, Types
<1>2. PICK at : at = IF status = "published" THEN now + 1 ELSE versions[p][v].at
  BY Zenon
<1>3. PICK mid, row : /\ mid = [versions[p][v] EXCEPT !.status = status]
                      /\ row = [mid EXCEPT !.at = at]
  BY Zenon
<1>4. PICK new : new = [versions[p] EXCEPT ![v] = row]
  BY Zenon
<1>5. /\ versions[p][v].status # "absent" /\ now' = now + 1
      /\ hand' = hand \cup {p} /\ had' = IF status = "published" THEN had \cup {p} ELSE had
      /\ UNCHANGED <<plugins, aliases, artifacts, links, campaigns, calls, disk, cache, writes,
                     rewritten, lost, cut, crossed>>
  BY Zenon DEF VersionStatus, catalogVars, fileVars
<1>6. at \in Nat
  <2>1. versions[p][v].at \in Nat /\ now + 1 \in Nat
    BY <1>1, SMT DEF Release
  <2> QED
    BY <1>2, <2>1, Zenon
<1>7. row \in Release /\ row.status = status /\ row.art = versions[p][v].art
  <2>1. status \in {"absent", "draft", "published", "deprecated", "yanked"}
    BY Zenon
  <2>2. mid \in Release /\ mid.status = status /\ mid.art = versions[p][v].art
    BY <1>1, <1>3, <2>1, Zenon DEF Release
  <2> QED
    BY <1>3, <1>6, <2>2, Zenon DEF Release
<1>8. versions' = [versions EXCEPT ![p] = new]
  <2>1. versions' = [versions EXCEPT ![p][v].status = status,
                       ![p][v].at = IF status = "published" THEN now + 1 ELSE @]
    BY Zenon DEF VersionStatus
  <2>2. mid.at = versions[p][v].at
    BY <1>1, <1>3, Zenon DEF Release
  <2>3. versions' = [[versions EXCEPT ![p][v].status = status] EXCEPT
                       ![p][v].at = IF status = "published" THEN now + 1 ELSE @]
    BY <2>1, Zenon
  <2>4. PICK first : first = [versions EXCEPT ![p][v].status = status]
    BY Zenon
  <2>5. first = [versions EXCEPT ![p] = [versions[p] EXCEPT ![v] = mid]]
    BY <1>1, <1>3, <2>4, Zenon
  <2>6. first[p] = [versions[p] EXCEPT ![v] = mid] /\ first[p][v] = mid
    BY <1>1, <2>5, Zenon
  <2>7. versions' = [first EXCEPT ![p] = [first[p] EXCEPT ![v] = [first[p][v] EXCEPT !.at = at]]]
    BY <1>1, <1>2, <2>2, <2>3, <2>4, <2>6, Zenon
  <2>8. [first[p] EXCEPT ![v] = row] = new
    BY <1>1, <1>4, <2>6, Zenon
  <2> QED
    BY <1>1, <1>3, <2>5, <2>6, <2>7, <2>8, Zenon
<1>9. new \in [Version -> Release] /\ new[v] = row /\ \A w \in Version : w # v => new[w] = versions[p][w]
  BY <1>1, <1>4, <1>7, Zenon
<1>10. Rows(p, new)
  BY <1>1, <1>8, <1>9, RowsAre, Zenon
<1>11. ASSUME NEW q \in Plugin, NEW w \in Version
       PROVE  /\ versions'[q][w].art = versions[q][w].art
              /\ versions'[q][w].status = "absent" => versions[q][w].status = "absent"
  <2>1. CASE q = p /\ w = v
    <3>1. versions'[q][w] = row /\ status # "absent"
      BY <1>9, <1>10, <2>1, Zenon DEF Rows
    <3> QED
      BY <1>7, <2>1, <3>1, Zenon
  <2>2. CASE ~(q = p /\ w = v)
    <3>1. versions'[q][w] = versions[q][w]
      BY <1>9, <1>10, <2>2, Zenon DEF Rows
    <3> QED
      BY <3>1, Zenon
  <2> QED
    BY <2>1, <2>2, Zenon
<1>12. plugins[p].status # "absent"
  BY <1>5, Zenon DEF IInv, CurrentInv, CurrentOK
<1>13. had' \subseteq had \cup {p}
  BY <1>5, Zenon
<1> QED
  BY <1>5, <1>10, <1>11, <1>12, <1>13, ByHandKept, Zenon

(* A new plugin takes its slug from removed ones only.                     *)
Enters(p, n) ==
  /\ plugins' \in [Plugin -> PluginRow] /\ plugins[p].status = "absent"
  /\ plugins'[p].status = "active" /\ plugins'[p].slug = n
  /\ \A q \in Plugin : q # p => /\ plugins'[q].status = plugins[q].status
                                /\ plugins[q].status = "active" => plugins'[q] = plugins[q]

(* The row of a new plugin, and the removed ones that give up its slug.    *)
LEMMA NewPluginIs ==
  ASSUME Types, NEW p \in Plugin, NEW n \in Name, NewPlugin(p, n)
  PROVE  Enters(p, n) /\ UNCHANGED <<calls, cache, lost, links, campaigns, hand, cut, crossed>>
<1>1. /\ plugins[p].status = "absent"
      /\ plugins' = [q \in Plugin |->
           IF q = p THEN [slug |-> n, status |-> "active"]
           ELSE IF plugins[q] = [slug |-> n, status |-> "removed"]
           THEN [plugins[q] EXCEPT !.slug = Nothing] ELSE plugins[q]]
      /\ UNCHANGED <<calls, cache, lost, links, campaigns, hand, cut, crossed>>
  BY Zenon DEF NewPlugin
<1>2. plugins \in [Plugin -> PluginRow]
  BY Zenon DEF Types
<1>3. PICK r : r = [slug |-> n, status |-> "active"]
  BY Zenon
<1>4. r \in PluginRow /\ r.slug = n /\ r.status = "active" /\ plugins'[p] = r
  <2>1. n \in Name \cup {Nothing} /\ "active" \in {"absent", "active", "deprecated", "removed", "purged"}
    BY Zenon
  <2>2. plugins'[p] = r
    BY <1>1, <1>3, Zenon
  <2> QED
    BY <1>3, <2>1, <2>2, SMT DEF PluginRow
<1>5. ASSUME NEW q \in Plugin, q # p
      PROVE  /\ plugins'[q] \in PluginRow /\ plugins'[q].status = plugins[q].status
             /\ plugins[q].status = "active" => plugins'[q] = plugins[q]
  <2>1. plugins[q] \in PluginRow
    BY <1>2, Zenon
  <2>2. CASE plugins[q] = [slug |-> n, status |-> "removed"]
    <3>1. plugins'[q] = [plugins[q] EXCEPT !.slug = Nothing]
      BY <1>1, <1>5, <2>2, Zenon
    <3>2. Nothing \in Name \cup {Nothing}
      BY Zenon
    <3>3. plugins'[q] \in PluginRow /\ plugins'[q].status = plugins[q].status
      BY <2>1, <3>1, <3>2, Zenon DEF PluginRow
    <3>4. plugins[q].status = "removed"
      BY <2>2, SMT
    <3> QED
      BY <3>3, <3>4, Zenon
  <2>3. CASE plugins[q] # [slug |-> n, status |-> "removed"]
    <3>1. plugins'[q] = plugins[q]
      BY <1>1, <1>5, <2>3, Zenon
    <3> QED
      BY <2>1, <3>1, Zenon
  <2> QED
    BY <2>2, <2>3, Zenon
<1>6. plugins' \in [Plugin -> PluginRow]
  <2>1. \A q \in Plugin : plugins'[q] \in PluginRow
    BY <1>4, <1>5, Zenon
  <2>2. plugins' = [q \in Plugin |-> plugins'[q]]
    BY <1>1, Zenon
  <2> QED
    BY <2>1, <2>2, Zenon
<1>7. Enters(p, n)
  BY <1>1, <1>4, <1>5, <1>6, Zenon DEF Enters
<1> QED
  BY <1>1, <1>7, Zenon

(* Nothing was published of a plugin that is new.                          *)
LEMMA EntersCurrent ==
  ASSUME CurrentInv, NEW p \in Plugin, NEW n, Enters(p, n),
         UNCHANGED <<calls, hand, cut, crossed>>,
         \A q \in Plugin : q # p => versions'[q] = versions[q] /\ (q \in had' => q \in had),
         \/ versions'[p] = versions[p] /\ (p \in had' => p \in had)
         \/ \E v : Current(p)' = {v}
  PROVE  CurrentInv'
<1>1. ASSUME NEW q \in Plugin, q # p
      PROVE  CurrentOK(q)'
  <2>1. versions'[q] = versions[q] /\ (q \in had' => q \in had)
        /\ plugins'[q].status = plugins[q].status
    BY <1>1, Zenon DEF Enters
  <2>2. \A c \in Call : GoesOn(c, q)
    BY Zenon DEF GoesOn
  <2>3. CurrentStill(q)
    BY <2>1, <2>2, Zenon DEF CurrentStill, Present
  <2> QED
    BY <2>3, CurrentFrame, Zenon DEF CurrentInv
<1>2. CurrentOK(p)'
  <2>1. /\ p \notin had /\ \A v \in Version : versions[p][v].status = "absent"
        /\ \A c \in Call : calls[c] # Nothing => calls[c].plugin # p
    BY Zenon DEF CurrentInv, CurrentOK, Enters
  <2>2. plugins'[p].status # "absent"
    <3>1. plugins'[p].status = "active"
      BY Zenon DEF Enters
    <3> QED
      BY <3>1, Zenon
  <2>3. Sole(p)' /\ \A c \in Call : (calls[c] # Nothing /\ calls[c].plugin = p => Prepared(c))'
    BY <2>1, Zenon DEF Sole
  <2>4. CASE versions'[p] = versions[p] /\ (p \in had' => p \in had)
    <3>1. \A v, w \in Current(p)' : v = w
      <4>1. ASSUME NEW v \in Version, versions'[p][v].status = "published"
            PROVE  FALSE
        BY <2>1, <2>4, <4>1, Zenon
      <4> QED
        BY <4>1, Zenon DEF Current
    <3> QED
      BY <2>1, <2>2, <2>3, <2>4, <3>1, Zenon DEF CurrentOK
  <2>5. CASE \E v : Current(p)' = {v}
    <3>1. (\A v, w \in Current(p)' : v = w) /\ Current(p)' # {}
      BY <2>5, Zenon
    <3> QED
      BY <2>2, <2>3, <3>1, Zenon DEF CurrentOK
  <2> QED
    BY <2>4, <2>5, Zenon
<1> QED
  BY <1>1, <1>2, Zenon DEF CurrentInv

(* The aliases of a new plugin take no name away.                          *)
LEMMA EntersNames ==
  ASSUME Types, NamesInv, NEW p \in Plugin, NEW n, Enters(p, n),
         aliases' \in [Name -> Plugin \cup {NoPlugin}],
         \A m \in Name : aliases'[m] = aliases[m] \/ aliases'[m] = p
  PROVE  NamesInv'
<1>1. ASSUME NEW m \in Name, aliases'[m] # NoPlugin
      PROVE  plugins'[aliases'[m]].status \notin {"absent", "purged"}
  <2>1. CASE aliases'[m] = p
    <3>1. plugins'[p].status = "active"
      BY Zenon DEF Enters
    <3> QED
      BY <2>1, <3>1, Zenon
  <2>2. CASE aliases'[m] = aliases[m] /\ aliases'[m] # p
    <3>1. PICK q \in Plugin : q = aliases[m]
      BY <1>1, <2>2, Zenon DEF Types
    <3>2. plugins[q].status \notin {"absent", "purged"}
      BY <1>1, <2>2, <3>1, Zenon DEF NamesInv, Present
    <3>3. plugins'[q].status = plugins[q].status
      BY <2>2, <3>1, Zenon DEF Enters
    <3> QED
      BY <2>2, <3>1, <3>2, <3>3, Zenon
  <2> QED
    BY <2>1, <2>2, Zenon
<1> QED
  BY <1>1, Zenon DEF NamesInv, Present

(* A plugin that is created without a binary.                              *)
LEMMA EmptyPluginKept ==
  ASSUME IInv, NEW p \in Plugin, NEW n, Enters(p, n),
         UNCHANGED <<versions, artifacts, links, campaigns, calls, now, disk, cache, writes,
                     rewritten, lost, had, hand, cut, crossed>>,
         aliases' \in [Name -> Plugin \cup {NoPlugin}],
         \A m \in Name : aliases'[m] = aliases[m] \/ aliases'[m] = p
  PROVE  IInv'
<1>1. Types'
  BY Zenon DEF IInv, Types, Enters
<1>2. FilesInv'
  <2>1. \A c \in Call : SameCall(c)
    BY Zenon DEF SameCall
  <2>2. FilesStill
    BY <2>1, Zenon DEF FilesStill
  <2> QED
    BY <2>2, FilesFrame, Zenon DEF IInv
<1>3. RefsInv'
  BY Zenon DEF IInv, RefsInv
<1>4. NamesInv'
  BY EntersNames, Zenon DEF IInv
<1>5. CurrentInv'
  BY EntersCurrent, Zenon DEF IInv
<1> QED
  BY <1>1, <1>2, <1>3, <1>4, <1>5, Zenon DEF IInv

(* A plugin that is created with its first version.                        *)
FirstRelease(p, n, v) ==
  LET what == PathOf("ui", n, "", v)
      file == [of |-> what, plugin |-> p, n |-> writes + 1]
  IN /\ writes' = writes + 1
     /\ disk' = Put(disk, what, file)
     /\ rewritten' = Again(what)
     /\ artifacts' = CreateArtifact(<<"", v>>, what, file)
     /\ versions' = [versions EXCEPT ![p] = Publish(@, {}, v, <<"", v>>, "managed", now + 1)]
     /\ now' = now + 1
     /\ had' = had \cup {p}

(* A plugin created with its first binary keeps the invariant.             *)
LEMMA FirstReleaseKept ==
  ASSUME IInv, NEW p \in Plugin, NEW n \in Name, Enters(p, n), NEW v \in Version,
         FirstRelease(p, n, v),
         UNCHANGED <<links, campaigns, calls, cache, lost, hand, cut, crossed>>,
         aliases' \in [Name -> Plugin \cup {NoPlugin}],
         \A m \in Name : aliases'[m] = aliases[m] \/ aliases'[m] = p
  PROVE  IInv'
<1>0. PICK x \in Variant : x = ""
  BY CatalogAssumption, Zenon
<1>1. PICK P, num, stamp : P = <<"ui", n, x, v>> /\ num = writes + 1 /\ stamp = now + 1
  BY Zenon
<1>2. PICK F : F = [of |-> P, plugin |-> p, n |-> num]
  BY Zenon
<1>3. PICK a : a = <<x, v>>
  BY Zenon
<1>4. /\ writes' = num /\ disk' = Put(disk, P, F) /\ artifacts' = CreateArtifact(a, P, F)
      /\ rewritten' = Again(P) /\ now' = stamp /\ had' = had \cup {p}
      /\ versions' = [versions EXCEPT ![p] = Publish(versions[p], {}, v, a, "managed", stamp)]
  BY <1>0, <1>1, <1>2, <1>3, Zenon DEF FirstRelease, PathOf
<1>5. num \in Nat /\ stamp \in Nat
  <2>1. writes \in Nat /\ now \in Nat
    BY Zenon DEF IInv, Types
  <2> QED
    BY <1>1, <2>1, SMT
<1>6. P \in Path /\ P[3] = x /\ P[4] = v
  <2>1. n \in Name \cup {Nothing} /\ "ui" \in {"ui", "api", "artifact"}
    BY Zenon
  <2> QED
    BY <1>1, <2>1, SMT DEF Path
<1>7. F \in File /\ F.of = P
  <2>1. p \in Plugin \cup {NoPlugin}
    BY Zenon
  <2> QED
    BY <1>2, <1>5, <1>6, <2>1, SMT DEF File
<1>8. a \in Key
  BY <1>3, Zenon DEF Key
<1>9. /\ DOMAIN artifacts' = DOMAIN artifacts \cup {a} /\ DOMAIN artifacts' \subseteq Key
      /\ artifacts' \in [DOMAIN artifacts' -> [path : Path, sum : File]]
      /\ \A b \in DOMAIN artifacts' :
           \/ b \in DOMAIN artifacts /\ artifacts'[b] = artifacts[b]
           \/ b = a /\ artifacts'[b].path = P /\ artifacts'[b].sum = F
  <2>1. Types /\ P \in Path /\ F \in File /\ artifacts' = CreateArtifact(a, P, F)
    BY <1>4, <1>6, <1>7, Zenon DEF IInv
  <2>2. Upserts(a, P, F)
    BY <1>8, <2>1, ArtifactIs, Zenon
  <2> QED
    BY <2>2, Zenon DEF Upserts
<1>10. Stored(P, F)
  <2>1. P \in DOMAIN disk'
    BY <1>4, Zenon DEF Put
  <2>2. \A c \in Call : SameCall(c)
    BY Zenon DEF SameCall
  <2>3. a = <<P[3], P[4]>>
    BY <1>3, <1>6, Zenon
  <2>4. MayPut(disk, P, F, disk') /\ \A h \in Pod : MayPut(cache[h], P, F, cache'[h])
    BY <1>4, Zenon DEF MayPut
  <2> QED
    BY <1>4, <1>7, <1>9, <2>1, <2>2, <2>3, <2>4, ZenonT(40) DEF Stored
<1>11. FilesInv' /\ disk' \in [DOMAIN disk' -> File]
  BY <1>10, FilesWrite, Zenon DEF IInv
<1>12. versions \in [Plugin -> [Version -> Release]] /\ versions[p] \in [Version -> Release]
  BY Zenon DEF IInv, Types
<1>13. PICK dep : dep = Deprecate(versions[p], {} \ {v})
  BY Zenon
<1>14. Deprecates(versions[p], {} \ {v}, dep)
  BY <1>12, <1>13, DeprecateIs, Zenon
<1>15. PICK new : new = CreateVersion(dep, v, a, "managed", "published", stamp)
  BY Zenon
<1>16. Creates(dep, v, a, "published", new)
  <2>1. a \in Key \cup {Nothing} /\ "published" \in {"draft", "published"} /\ "managed" \in Mode
        /\ dep \in [Version -> Release]
    BY <1>8, <1>14, Zenon DEF Deprecates, Mode
  <2> QED
    BY <1>5, <1>15, <2>1, CreateIs, Zenon
<1>17. Rows(p, new)
  <2>1. new \in [Version -> Release] /\ versions' = [versions EXCEPT ![p] = new]
    BY <1>4, <1>13, <1>15, <1>16, Zenon DEF Publish, Creates
  <2> QED
    BY <1>12, <2>1, RowsAre, Zenon
<1>18. Types'
  BY <1>4, <1>5, <1>9, <1>11, <1>17, Zenon DEF IInv, Types, Rows, Enters
<1>19. RefsInv'
  <2>1. a \in DOMAIN artifacts' \cup {Nothing} /\ "published" # "absent"
    BY <1>9, Zenon
  <2>2. \A w \in Version : /\ dep[w].art = versions[p][w].art
                           /\ dep[w].status = "absent" <=> versions[p][w].status = "absent"
    BY <1>14, Zenon DEF Deprecates
  <2>3. \A q \in Plugin, w \in Version :
          /\ versions'[q][w].art = versions[q][w].art \/ versions'[q][w].art \in DOMAIN artifacts'
          /\ versions'[q][w].status = "absent" => versions[q][w].status = "absent"
    BY <1>16, <1>17, <2>1, <2>2, RowRefs, ZenonT(40)
  <2>4. \A l \in links : l[1] \in Plugin /\ l[2] \in Version
    BY LinkIs, Zenon DEF IInv
  <2>5. DOMAIN artifacts \subseteq DOMAIN artifacts'
    BY <1>9, Zenon
  <2>6. \A l \in links' : l \in links /\ (versions'[l[1]][l[2]].status = "absent"
                                            => versions[l[1]][l[2]].status = "absent")
    BY <2>3, <2>4, Zenon
  <2>7. RefsStill
    BY <2>3, <2>5, <2>6, Zenon DEF RefsStill
  <2> QED
    BY <2>7, RefsFrame, Zenon DEF IInv
<1>20. NamesInv'
  BY EntersNames, Zenon DEF IInv
<1>21. CurrentInv'
  <2>1. \A q \in Plugin : q # p => versions'[q] = versions[q] /\ (q \in had' => q \in had)
    BY <1>4, <1>17, Zenon DEF Rows
  <2>2. \A w \in Version : versions[p][w].status = "absent"
    BY Zenon DEF IInv, CurrentInv, CurrentOK, Enters
  <2>3. versions'[p][v].status = "published"
    BY <1>16, <1>17, Zenon DEF Rows, Creates
  <2>4. ASSUME NEW w \in Version, w # v, versions'[p][w].status = "published"
        PROVE  FALSE
    <3>1. dep[w].status = "published"
      BY <1>16, <1>17, <2>4, Zenon DEF Rows, Creates
    <3>2. versions[p][w].status = "published"
      BY <1>14, <3>1, Zenon DEF Deprecates
    <3> QED
      BY <2>2, <3>2, Zenon
  <2>5. Current(p)' = {v}
    <3>1. \A w : w \in Current(p)' <=> w = v
      BY <2>3, <2>4, Zenon DEF Current
    <3> QED
      BY <3>1, Zenon
  <2> QED
    BY <2>1, <2>5, EntersCurrent, Zenon DEF IInv
<1> QED
  BY <1>11, <1>18, <1>19, <1>20, <1>21, Zenon DEF IInv

(* create_plugin, with or without a binary, and duplicate_plugin.          *)
LEMMA CreatePluginKept ==
  ASSUME IInv, NEW p \in Plugin, NEW n \in Name,
         (\E also : CreatePlugin(p, n, also)) \/ (\E q \in Plugin : DuplicatePlugin(p, q, n))
  PROVE  IInv'
<1>1. Types /\ NewPlugin(p, n)
  BY Zenon DEF IInv, CreatePlugin, DuplicatePlugin
<1>2. Enters(p, n) /\ UNCHANGED <<calls, cache, lost, links, campaigns, hand, cut, crossed>>
  BY <1>1, NewPluginIs, Zenon
<1>3. aliases \in [Name -> Plugin \cup {NoPlugin}]
  BY Zenon DEF IInv, Types
<1>4. ASSUME NEW also, CreatePlugin(p, n, also)
      PROVE  IInv'
  <2>1. aliases' = [m \in Name |-> IF m \in also /\ aliases[m] = NoPlugin THEN p ELSE aliases[m]]
    BY <1>4, Zenon DEF CreatePlugin
  <2>2. \A m \in Name : aliases'[m] = aliases[m] \/ aliases'[m] = p
    BY <2>1, Zenon
  <2>3. aliases' \in [Name -> Plugin \cup {NoPlugin}]
    BY <1>3, <2>1, Zenon
  <2>4. CASE UNCHANGED <<versions, artifacts, now, disk, writes, rewritten, had>>
    BY <1>2, <2>2, <2>3, <2>4, EmptyPluginKept, Zenon
  <2>5. ASSUME NEW v \in Version, FirstRelease(p, n, v)
        PROVE  IInv'
    BY <1>2, <2>2, <2>3, <2>5, FirstReleaseKept, Zenon
  <2> QED
    BY <1>4, <2>4, <2>5, Zenon DEF CreatePlugin, FirstRelease
<1>5. ASSUME NEW q \in Plugin, DuplicatePlugin(p, q, n)
      PROVE  IInv'
  <2>1. UNCHANGED <<aliases, versions, artifacts, now, disk, writes, rewritten, had>>
    BY <1>5, Zenon DEF DuplicatePlugin
  <2>2. aliases' \in [Name -> Plugin \cup {NoPlugin}] /\ \A m \in Name : aliases'[m] = aliases[m]
    BY <1>3, <2>1, Zenon
  <2> QED
    BY <1>2, <2>1, <2>2, EmptyPluginKept, Zenon
<1> QED
  BY <1>4, <1>5, Zenon

(* The published versions stay, and those that go have no links.           *)
Spares(vs, ls) ==
  /\ \A q \in Plugin, w \in Version :
       /\ vs[q][w].art = versions[q][w].art \/ vs[q][w].art = Nothing
       /\ vs[q][w].status = "published" <=> versions[q][w].status = "published"
       /\ versions[q][w].status = "absent" => vs[q][w].status = "absent"
  /\ \A l \in ls : vs[l[1]][l[2]].status # "absent"

(* The clean-up of orphan artifacts spares what is referred to.            *)
LEMMA CleanKept ==
  ASSUME IInv, NEW vs \in [Plugin -> [Version -> Release]], NEW cs, cs \subseteq campaigns,
         NEW ls, ls \subseteq links, CleanOrphans(vs, cs, ls),
         Spares(vs, ls),
         UNCHANGED <<plugins, aliases, now, disk, cache, writes, rewritten, lost, calls,
                     had, hand, cut, crossed>>
  PROVE  IInv'
<1>1. PICK gone : gone = Orphans(vs, cs)
  BY Zenon
<1>2. /\ versions' = vs /\ campaigns' = cs
      /\ artifacts' = [a \in DOMAIN artifacts \ gone |-> artifacts[a]]
      /\ links' = {l \in ls : <<l[3], l[2]>> \notin gone}
  BY <1>1, Zenon DEF CleanOrphans, Restrict
<1>3. /\ DOMAIN artifacts' = DOMAIN artifacts \ gone
      /\ \A a \in DOMAIN artifacts' : a \in DOMAIN artifacts /\ artifacts'[a] = artifacts[a]
  BY <1>2, Zenon
<1>4. /\ \A q \in Plugin, w \in Version : vs[q][w].art \notin gone
      /\ \A c \in cs : c.art \notin gone
  BY <1>1, Zenon DEF Orphans
<1>5. Types'
  <2>1. artifacts' \in [DOMAIN artifacts' -> [path : Path, sum : File]]
    <3>1. \A a \in DOMAIN artifacts' : artifacts'[a] \in [path : Path, sum : File]
      BY <1>3, Zenon DEF IInv, Types
    <3>2. artifacts' = [a \in DOMAIN artifacts' |-> artifacts'[a]]
      BY <1>2, Zenon
    <3> QED
      BY <3>1, <3>2, Zenon
  <2>2. DOMAIN artifacts' \subseteq Key /\ campaigns' \subseteq Campaign
        /\ links' \subseteq Plugin \X Version \X Variant
    BY <1>2, <1>3, Zenon DEF IInv, Types
  <2> QED
    BY <1>2, <2>1, <2>2, Zenon DEF IInv, Types
<1>6. FilesInv'
  <2>1. \A c \in Call : SameCall(c)
    BY Zenon DEF SameCall
  <2>2. FilesStill
    BY <1>3, <2>1, Zenon DEF FilesStill
  <2> QED
    BY <2>2, FilesFrame, Zenon DEF IInv
<1>7. RefsInv'
  <2>1. ASSUME NEW q \in Plugin, NEW w \in Version
        PROVE  vs[q][w].art = Nothing \/ vs[q][w].art \in DOMAIN artifacts'
    <3>1. vs[q][w].art = Nothing \/ vs[q][w].art \in DOMAIN artifacts
      BY Zenon DEF IInv, RefsInv, Spares
    <3> QED
      BY <1>3, <1>4, <3>1, Zenon
  <2>2. ASSUME NEW l \in links'
        PROVE  vs[l[1]][l[2]].status # "absent" /\ <<l[3], l[2]>> \in DOMAIN artifacts'
    <3>1. l \in ls /\ l \in links /\ <<l[3], l[2]>> \notin gone
      BY <1>2, Zenon
    <3>2. <<l[3], l[2]>> \in DOMAIN artifacts
      BY <3>1, Zenon DEF IInv, RefsInv
    <3> QED
      BY <1>3, <3>1, <3>2, Zenon DEF Spares
  <2>3. ASSUME NEW c \in cs
        PROVE  c.art \in DOMAIN artifacts'
    <3>1. c.art \in DOMAIN artifacts
      BY Zenon DEF IInv, RefsInv
    <3> QED
      BY <1>3, <1>4, <3>1, Zenon
  <2> QED
    BY <1>2, <2>1, <2>2, <2>3, Zenon DEF RefsInv
<1>8. NamesInv'
  BY Zenon DEF IInv, NamesInv, Present
<1>9. ASSUME NEW q \in Plugin
      PROVE  CurrentOK(q)'
  <2>1. \A c \in Call : GoesOn(c, q)
    BY Zenon DEF GoesOn
  <2>2. CurrentStill(q)
    BY <1>2, <2>1, Zenon DEF CurrentStill, Present, Spares
  <2> QED
    BY <2>2, CurrentFrame, Zenon DEF IInv, CurrentInv
<1> QED
  BY <1>5, <1>6, <1>7, <1>8, <1>9, Zenon DEF IInv, CurrentInv

(* No version: what a purge leaves of a row.                               *)
LEMMA NoVersionIs ==
  NoVersion \in Release /\ NoVersion.status = "absent" /\ NoVersion.art = Nothing
BY SMT DEF NoVersion, Release, Mode

(* The purge of a plugin's old versions.                                   *)
LEMMA VersionsPurgeKept ==
  ASSUME IInv, NEW p \in Plugin, VersionsPurge(p)
  PROVE  IInv'
<1>1. PICK old : old = {v \in Version : versions[p][v].status \in {"deprecated", "yanked"}}
  BY Zenon
<1>2. PICK new : new = [v \in Version |-> IF v \in old THEN NoVersion ELSE versions[p][v]]
  BY Zenon
<1>3. PICK vs : vs = [versions EXCEPT ![p] = new]
  BY Zenon
<1>4. /\ CleanOrphans(vs, campaigns, LinksWithout(p, old))
      /\ UNCHANGED <<plugins, aliases, now, disk, cache, writes, rewritten, lost, calls,
                     had, hand, cut, crossed>>
  BY <1>1, <1>2, <1>3, Zenon DEF VersionsPurge, catalogVars, fileVars, historyVars
<1>5. versions \in [Plugin -> [Version -> Release]]
  BY Zenon DEF IInv, Types
<1>6. new \in [Version -> Release]
  <2>1. \A v \in Version : (IF v \in old THEN NoVersion ELSE versions[p][v]) \in Release
    BY <1>5, NoVersionIs, Zenon
  <2> QED
    BY <1>2, <2>1, Zenon
<1>7. /\ vs \in [Plugin -> [Version -> Release]] /\ vs[p] = new
      /\ \A q \in Plugin : q # p => vs[q] = versions[q]
  BY <1>3, <1>5, <1>6, Zenon
<1>8. ASSUME NEW q \in Plugin, NEW w \in Version
      PROVE  /\ vs[q][w].art = versions[q][w].art \/ vs[q][w].art = Nothing
             /\ vs[q][w].status = "published" <=> versions[q][w].status = "published"
             /\ versions[q][w].status = "absent" => vs[q][w].status = "absent"
             /\ vs[q][w].status = "absent" /\ ~(q = p /\ w \in old)
                  => versions[q][w].status = "absent"
  <2>1. CASE q = p /\ w \in old
    <3>1. vs[q][w] = NoVersion
      BY <1>2, <1>7, <2>1, Zenon
    <3>2. vs[q][w].status = "absent" /\ vs[q][w].art = Nothing
      BY <3>1, NoVersionIs, Zenon
    <3>3. versions[q][w].status \in {"deprecated", "yanked"}
      BY <1>1, <2>1, Zenon
    <3> QED
      BY <2>1, <3>2, <3>3, Zenon
  <2>2. CASE ~(q = p /\ w \in old)
    <3>1. CASE q # p
      BY <1>7, <3>1, Zenon
    <3>2. CASE q = p
      <4>1. vs[q][w] = versions[q][w]
        <5>1. w \notin old /\ vs[q][w] = new[w]
          BY <1>7, <2>2, <3>2, Zenon
        <5>2. new[w] = versions[p][w]
          BY <1>2, <5>1, Zenon
        <5> QED
          BY <3>2, <5>1, <5>2, Zenon
      <4> QED
        BY <4>1, Zenon
    <3> QED
      BY <3>1, <3>2, Zenon
  <2> QED
    BY <2>1, <2>2, Zenon
<1>9. ASSUME NEW l \in LinksWithout(p, old)
      PROVE  l \in links /\ vs[l[1]][l[2]].status # "absent"
  <2>1. l \in links /\ (l[1] # p \/ l[2] \notin old)
    BY Zenon DEF LinksWithout
  <2>2. l[1] \in Plugin /\ l[2] \in Version
    BY <2>1, LinkIs, Zenon DEF IInv
  <2>3. versions[l[1]][l[2]].status # "absent"
    BY <2>1, Zenon DEF IInv, RefsInv
  <2> QED
    BY <1>8, <2>1, <2>2, <2>3, Zenon
<1>10. PICK ls : ls = LinksWithout(p, old)
  BY Zenon
<1>11. CleanOrphans(vs, campaigns, ls) /\ ls \subseteq links /\ campaigns \subseteq campaigns
  BY <1>4, <1>9, <1>10, Zenon
<1>12. Spares(vs, ls)
  BY <1>8, <1>9, <1>10, Zenon DEF Spares
<1>13. vs \in [Plugin -> [Version -> Release]]
       /\ UNCHANGED <<plugins, aliases, now, disk, cache, writes, rewritten, lost, calls,
                      had, hand, cut, crossed>>
  BY <1>4, <1>7, Zenon
<1> QED
  BY <1>11, <1>12, <1>13, CleanKept, Zenon

(* The purge of its ended campaigns.                                       *)
LEMMA DeploymentsPurgeKept ==
  ASSUME IInv, NEW p \in Plugin, DeploymentsPurge(p)
  PROVE  IInv'
<1>1. PICK cs : cs = {c \in campaigns : c.status = "active" \/ c.plugin \notin {p, NoPlugin}}
  BY Zenon
<1>2. /\ CleanOrphans(versions, cs, links)
      /\ UNCHANGED <<plugins, aliases, now, disk, cache, writes, rewritten, lost, calls,
                     had, hand, cut, crossed>>
  BY <1>1, Zenon DEF DeploymentsPurge, catalogVars, fileVars, historyVars
<1>3. versions \in [Plugin -> [Version -> Release]] /\ cs \subseteq campaigns /\ links \subseteq links
  BY <1>1, Zenon DEF IInv, Types
<1>4. Spares(versions, links)
  BY Zenon DEF IInv, RefsInv, Spares
<1> QED
  BY <1>2, <1>3, <1>4, CleanKept, Zenon

(* The purge of the removed plugins.                                       *)
LEMMA PurgeRemovedKept ==
  ASSUME IInv, PurgeRemoved
  PROVE  IInv'
<1>1. PICK gone : gone = {p \in Plugin : plugins[p].status = "removed"}
  BY Zenon
<1>2. PICK row : row = [slug |-> Nothing, status |-> "purged"]
  BY Zenon
<1>3. /\ plugins' = [p \in Plugin |-> IF p \in gone THEN row ELSE plugins[p]]
      /\ aliases' = [n \in Name |-> IF aliases[n] \in gone THEN NoPlugin ELSE aliases[n]]
      /\ versions' = [p \in Plugin |-> IF p \in gone THEN [v \in Version |-> NoVersion]
                                       ELSE versions[p]]
      /\ links' = {l \in links : l[1] \notin gone}
      /\ campaigns' = {c \in campaigns : c.plugin \notin gone}
      /\ UNCHANGED <<artifacts, now, disk, cache, writes, rewritten, lost, calls,
                     had, hand, cut, crossed>>
  BY <1>1, <1>2, Zenon DEF PurgeRemoved, fileVars, historyVars
<1>4. row \in PluginRow /\ row.status = "purged"
  <2>1. Nothing \in Name \cup {Nothing}
    BY Zenon
  <2> QED
    BY <1>2, <2>1, SMT DEF PluginRow
<1>5. /\ plugins \in [Plugin -> PluginRow] /\ aliases \in [Name -> Plugin \cup {NoPlugin}]
      /\ versions \in [Plugin -> [Version -> Release]]
  BY Zenon DEF IInv, Types
<1>6. plugins' \in [Plugin -> PluginRow]
  <2>1. \A p \in Plugin : (IF p \in gone THEN row ELSE plugins[p]) \in PluginRow
    BY <1>4, <1>5, Zenon
  <2> QED
    BY <1>3, <2>1, Zenon
<1>7. aliases' \in [Name -> Plugin \cup {NoPlugin}]
  <2>1. \A n \in Name : (IF aliases[n] \in gone THEN NoPlugin ELSE aliases[n]) \in Plugin \cup {NoPlugin}
    BY <1>5, Zenon
  <2> QED
    BY <1>3, <2>1, Zenon
<1>8. PICK none : none = [v \in Version |-> NoVersion]
  BY Zenon
<1>9. none \in [Version -> Release] /\ \A v \in Version : none[v].status = "absent" /\ none[v].art = Nothing
  BY <1>8, NoVersionIs, Zenon
<1>10. versions' \in [Plugin -> [Version -> Release]]
  <2>1. \A p \in Plugin : (IF p \in gone THEN none ELSE versions[p]) \in [Version -> Release]
    BY <1>5, <1>9, Zenon
  <2> QED
    BY <1>3, <1>8, <2>1, Zenon
<1>11. \A p \in Plugin : /\ p \in gone => plugins'[p] = row /\ versions'[p] = none
                         /\ p \notin gone => plugins'[p] = plugins[p] /\ versions'[p] = versions[p]
  BY <1>3, <1>8, Zenon
<1>12. Types'
  <2>1. links' \subseteq Plugin \X Version \X Variant /\ campaigns' \subseteq Campaign
    BY <1>3, Zenon DEF IInv, Types
  <2> QED
    BY <1>3, <1>6, <1>7, <1>10, <2>1, ZenonT(40) DEF IInv, Types
<1>13. FilesInv'
  <2>1. \A c \in Call : SameCall(c)
    BY <1>3, Zenon DEF SameCall
  <2>2. FilesStill
    BY <1>3, <2>1, Zenon DEF FilesStill
  <2> QED
    BY <2>2, FilesFrame, Zenon DEF IInv
<1>14. RefsInv'
  <2>1. \A p \in Plugin, v \in Version :
          versions'[p][v].art = versions[p][v].art \/ versions'[p][v].art = Nothing
    BY <1>9, <1>11, Zenon
  <2>2. ASSUME NEW l \in links'
        PROVE  l \in links /\ versions'[l[1]][l[2]] = versions[l[1]][l[2]]
    <3>1. l \in links /\ l[1] \notin gone
      BY <1>3, Zenon
    <3>2. l[1] \in Plugin
      BY <3>1, LinkIs, Zenon DEF IInv
    <3> QED
      BY <1>11, <3>1, <3>2, Zenon
  <2>3. RefsStill
    BY <1>3, <2>1, <2>2, Zenon DEF RefsStill
  <2> QED
    BY <2>3, RefsFrame, Zenon DEF IInv
<1>15. NamesInv'
  <2>1. ASSUME NEW n \in Name, aliases'[n] # NoPlugin
        PROVE  plugins'[aliases'[n]].status \notin {"absent", "purged"}
    <3>1. aliases'[n] = aliases[n] /\ aliases[n] \notin gone
      BY <1>3, <2>1, Zenon
    <3>2. PICK p \in Plugin : p = aliases[n]
      BY <1>5, <2>1, <3>1, Zenon
    <3>3. plugins[p].status \notin {"absent", "purged"}
      BY <2>1, <3>1, <3>2, Zenon DEF IInv, NamesInv, Present
    <3> QED
      BY <1>11, <3>1, <3>2, <3>3, Zenon
  <2> QED
    BY <2>1, Zenon DEF NamesInv, Present
<1>16. ASSUME NEW q \in Plugin
       PROVE  CurrentOK(q)'
  <2>1. \A c \in Call : GoesOn(c, q)
    BY <1>3, Zenon DEF GoesOn
  <2>2. CASE q \in gone
    <3>1. plugins'[q].status = "purged" /\ \A v \in Version : versions'[q][v].status = "absent"
      BY <1>4, <1>9, <1>11, <2>2, Zenon
    <3>2. plugins'[q].status # "absent" /\ ~Present(q)'
      BY <3>1, Zenon DEF Present
    <3>3. \A v \in Version : versions'[q][v].status # "published"
      <4>1. "absent" # "published"
        BY Zenon
      <4> QED
        BY <3>1, <4>1, Zenon
    <3>4. CurrentStill(q)
      BY <1>3, <2>1, <3>1, <3>2, <3>3, ZenonT(40) DEF CurrentStill
    <3> QED
      BY <3>4, CurrentFrame, Zenon DEF IInv, CurrentInv
  <2>3. CASE q \notin gone
    <3>1. plugins'[q] = plugins[q] /\ versions'[q] = versions[q]
      BY <1>11, <2>3, Zenon
    <3>2. CurrentStill(q)
      BY <1>3, <2>1, <3>1, Zenon DEF CurrentStill, Present
    <3> QED
      BY <3>2, CurrentFrame, Zenon DEF IInv, CurrentInv
  <2> QED
    BY <2>2, <2>3, Zenon
<1> QED
  BY <1>12, <1>13, <1>14, <1>15, <1>16, Zenon DEF IInv, CurrentInv

(* A pod pulls a binary from the admin pod.                                *)
LEMMA FetchKept ==
  ASSUME IInv, NEW h \in Pod, NEW P, Fetch(h, P)
  PROVE  IInv'
<1>1. PICK F : F = disk[P]
  BY Zenon
<1>2. /\ P \in DOMAIN disk /\ cache' = [cache EXCEPT ![h] = Put(cache[h], P, F)]
      /\ UNCHANGED <<plugins, aliases, versions, artifacts, links, campaigns, now, disk, writes,
                     rewritten, lost, calls, had, hand, cut, crossed>>
  BY <1>1, Zenon DEF Fetch, catalogVars, releaseVars, historyVars
<1>3. cache = [j \in Pod |-> cache[j]] /\ disk \in [DOMAIN disk -> File]
  BY Zenon DEF IInv, Types
<1>4. /\ cache' = [j \in Pod |-> cache'[j]] /\ cache'[h] = Put(cache[h], P, F)
      /\ \A j \in Pod : j # h => cache'[j] = cache[j]
  BY <1>2, <1>3, Zenon
<1>5. Stored(P, F)
  <2>1. F \in File /\ F.of = P
    BY <1>1, <1>2, <1>3, Zenon DEF IInv, FilesInv, StoreOK
  <2>2. F \in Sums
    BY <1>1, <1>2, SumsAre, Zenon DEF IsSum
  <2>3. \A j \in Pod : MayPut(cache[j], P, F, cache'[j])
    BY <1>4, Zenon DEF MayPut
  <2>4. \A c \in Call : SameCall(c)
    BY <1>2, Zenon DEF SameCall
  <2> QED
    BY <1>2, <2>1, <2>2, <2>3, <2>4, Zenon DEF Stored, MayPut
<1>6. FilesInv' /\ disk' \in [DOMAIN disk' -> File]
      /\ \A j \in Pod : cache'[j] \in [DOMAIN cache'[j] -> File]
  BY <1>5, FilesWrite, Zenon DEF IInv
<1>7. Types'
  BY <1>2, <1>4, <1>6, ZenonT(40) DEF IInv, Types
<1>8. RefsInv' /\ NamesInv'
  BY <1>2, Zenon DEF IInv, RefsInv, NamesInv, Present
<1>9. ASSUME NEW q \in Plugin
      PROVE  CurrentOK(q)'
  <2>1. CurrentStill(q)
    BY <1>2, Zenon DEF CurrentStill, Present, GoesOn
  <2> QED
    BY <2>1, CurrentFrame, Zenon DEF IInv, CurrentInv
<1> QED
  BY <1>6, <1>7, <1>8, <1>9, Zenon DEF IInv, CurrentInv

-----------------------------------------------------------------------------
(* The empty tables and volumes.                                           *)
LEMMA EmptyIs == DOMAIN <<>> = {} /\ \A S : <<>> \in [{} -> S]
BY SMT

(* The initial state satisfies the invariant.                              *)
LEMMA InitIInv == Init => IInv
<1> SUFFICES ASSUME Init PROVE IInv
  OBVIOUS
<1>1. /\ plugins = FirstPlugins /\ aliases = [n \in Name |-> NoPlugin]
      /\ versions = [p \in Plugin |-> [v \in Version |-> NoVersion]]
      /\ artifacts = <<>> /\ links = {} /\ campaigns = {}
      /\ disk = <<>> /\ cache = [h \in Pod |-> <<>>] /\ calls = [c \in Call |-> Nothing]
      /\ now = 0 /\ writes = 0 /\ had = {}
  BY Zenon DEF Init
<1>2. /\ DOMAIN artifacts = {} /\ DOMAIN disk = {} /\ \A h \in Pod : DOMAIN cache[h] = {}
      /\ \A c \in Call : calls[c] = Nothing
  BY <1>1, EmptyIs, Zenon
<1>3. /\ artifacts \in [DOMAIN artifacts -> [path : Path, sum : File]]
      /\ disk \in [DOMAIN disk -> File]
      /\ \A h \in Pod : cache[h] \in [DOMAIN cache[h] -> File]
  BY <1>1, EmptyIs, Zenon
<1>4. PICK none : none = [v \in Version |-> NoVersion]
  BY Zenon
<1>5. none \in [Version -> Release] /\ \A v \in Version : none[v].status = "absent" /\ none[v].art = Nothing
  BY <1>4, NoVersionIs, Zenon
<1>6. \A p \in Plugin : versions[p] = none
  BY <1>1, <1>4, Zenon
<1>7. versions \in [Plugin -> [Version -> Release]]
  <2>1. versions = [p \in Plugin |-> none]
    BY <1>1, <1>4, Zenon
  <2> QED
    BY <1>5, <2>1, Zenon
<1>8. now \in Nat /\ writes \in Nat
  BY <1>1, SMT
<1>9. /\ plugins \in [Plugin -> PluginRow] /\ aliases \in [Name -> Plugin \cup {NoPlugin}]
      /\ calls \in [Call -> Publication \cup {Nothing}] /\ cache = [h \in Pod |-> cache[h]]
  BY <1>1, CatalogAssumption, Zenon
<1>10. Types
  <2>1. DOMAIN artifacts \subseteq Key /\ links \subseteq Plugin \X Version \X Variant
        /\ campaigns \subseteq Campaign /\ had \subseteq Plugin
    BY <1>1, <1>2, Zenon
  <2> QED
    BY <1>3, <1>7, <1>8, <1>9, <2>1, Zenon DEF Types
<1>11. FilesInv
  <2>1. \A f \in Sums : FALSE
    BY <1>2, SumsAre, Zenon DEF IsSum
  <2>2. AgreeOK
    BY <2>1, Zenon DEF AgreeOK
  <2>3. StoreOK /\ \A a \in DOMAIN artifacts : ArtifactOK(a)
    BY <1>2, Zenon DEF StoreOK
  <2>4. \A c \in Call : CallOK(c)
    BY <1>2, Zenon DEF CallOK
  <2> QED
    BY <2>2, <2>3, <2>4, Zenon DEF FilesInv
<1>12. RefsInv
  BY <1>1, <1>5, <1>6, Zenon DEF RefsInv
<1>13. NamesInv
  BY <1>1, Zenon DEF NamesInv
<1>14. ASSUME NEW p \in Plugin
       PROVE  CurrentOK(p)
  <2>1. \A v \in Version : versions[p][v].status = "absent"
    BY <1>5, <1>6, Zenon
  <2>2. "absent" # "published"
    BY Zenon
  <2>3. \A v, w \in Current(p) : v = w
    BY <2>1, <2>2, Zenon DEF Current
  <2>4. Sole(p)
    BY <1>2, Zenon DEF Sole
  <2> QED
    BY <1>1, <1>2, <2>1, <2>3, <2>4, Zenon DEF CurrentOK
<1> QED
  BY <1>10, <1>11, <1>12, <1>13, <1>14, Zenon DEF IInv, CurrentInv

(* A step that changes nothing.                                            *)
LEMMA StutterKept ==
  ASSUME IInv, UNCHANGED vars
  PROVE  IInv'
<1>1. UNCHANGED <<plugins, aliases, versions, artifacts, links, campaigns, now, disk, cache, writes,
                  rewritten, lost, calls, had, hand, cut, crossed>>
  BY Zenon DEF vars, catalogVars, releaseVars, fileVars, historyVars
<1>2. /\ plugins' \in [Plugin -> PluginRow] /\ aliases' \in [Name -> Plugin \cup {NoPlugin}]
      /\ campaigns' \subseteq Campaign /\ \A c \in campaigns' : c.art \in DOMAIN artifacts
  BY <1>1, Zenon DEF IInv, Types, RefsInv
<1>3. NamesInv'
  BY <1>1, Zenon DEF IInv, NamesInv, Present
<1> QED
  BY <1>1, <1>2, <1>3, QuietKept, Zenon DEF Present

(* Every step of an upload or of a deploy keeps the invariant.             *)
LEMMA PublishingKept ==
  ASSUME IInv, Publishing
  PROVE  IInv'
<1>1. PICK c \in Call :
        \/ \E p \in Plugin, v \in Version : \/ \E x \in Variant : Upload(c, p, x, v)
                                           \/ \E h \in Pod : Deploy(c, h, p, v)
        \/ UploadCommits(c) \/ DeployArtifact(c) \/ DeployDeprecates(c) \/ DeployPublishes(c)
        \/ CallFails(c)
  BY Zenon DEF Publishing
<1>2. CASE \E p \in Plugin, v \in Version : \/ \E x \in Variant : Upload(c, p, x, v)
                                           \/ \E h \in Pod : Deploy(c, h, p, v)
  BY <1>2, UploadKept, DeployKept, Zenon
<1>3. CASE UploadCommits(c)
  BY <1>3, UploadCommitsKept, Zenon
<1>4. CASE DeployArtifact(c)
  BY <1>4, DeployArtifactKept, ZenonT(40)
<1>5. CASE DeployDeprecates(c)
  BY <1>5, DeployDeprecatesKept, Zenon
<1>6. CASE DeployPublishes(c)
  BY <1>6, DeployPublishesKept, Zenon
<1>7. CASE CallFails(c)
  BY <1>7, CallFailsKept, Zenon
<1> QED
  BY <1>1, <1>2, <1>3, <1>4, <1>5, <1>6, <1>7, ZenonT(40)

(* Every operation of the admin keeps the invariant.                       *)
LEMMA AdministrationKept ==
  ASSUME IInv, Administration
  PROVE  IInv'
<1>1. ASSUME NEW x \in Variant, NEW v \in Version, UploadArtifact(x, v)
      PROVE  IInv'
  BY <1>1, UploadArtifactKept, Zenon
<1>2. ASSUME NEW p \in Plugin, NEW n \in Name,
             \/ \E also \in {{}} \cup {{m} : m \in Name \ {n}} : CreatePlugin(p, n, also)
             \/ \E q \in Plugin : DuplicatePlugin(p, q, n)
             \/ AliasAdd(n, p)
      PROVE  IInv'
  <2>1. CASE \E also : CreatePlugin(p, n, also)
    BY <2>1, CreatePluginKept, Zenon
  <2>2. CASE \E q \in Plugin : DuplicatePlugin(p, q, n)
    BY <2>2, CreatePluginKept, Zenon
  <2>3. CASE AliasAdd(n, p)
    BY <2>3, AliasKept, Zenon
  <2> QED
    BY <1>2, <2>1, <2>2, <2>3, Zenon
<1>3. ASSUME NEW p \in Plugin, NEW status \in {"active", "deprecated", "removed"},
             PluginStatus(p, status)
      PROVE  IInv'
  BY <1>3, PluginStatusKept, Zenon
<1>4. ASSUME NEW n \in Name, AliasDelete(n)
      PROVE  IInv'
  <2>1. aliases[n] \in Plugin
    BY <1>4, ZenonT(40) DEF IInv, Types, AliasDelete
  <2> QED
    BY <1>4, <2>1, AliasKept, Zenon
<1>5. ASSUME NEW p \in Plugin, NEW v \in Version,
             \/ \E a \in DOMAIN artifacts \cup {Nothing}, mode \in Mode,
                  status \in {"draft", "published"} : VersionCreate(p, v, a, mode, status)
             \/ \E status \in {"draft", "published", "yanked"} : VersionStatus(p, v, status)
      PROVE  IInv'
  BY <1>5, VersionCreateKept, VersionStatusKept, Zenon
<1>6. CASE (\E a \in DOMAIN artifacts : FormCampaign(a)) \/ (\E c \in campaigns : EndCampaign(c))
  BY <1>6, CampaignKept, Zenon
<1>7. ASSUME NEW p \in Plugin, VersionsPurge(p) \/ DeploymentsPurge(p)
      PROVE  IInv'
  BY <1>7, VersionsPurgeKept, DeploymentsPurgeKept, Zenon
<1>8. CASE PurgeRemoved
  BY <1>8, PurgeRemovedKept, Zenon
<1> QED
  BY <1>1, <1>2, <1>3, <1>4, <1>5, <1>6, <1>7, <1>8, ZenonT(40) DEF Administration

(* Every download keeps the invariant.                                     *)
LEMMA DownloadingKept ==
  ASSUME IInv, Downloading
  PROVE  IInv'
<1>1. \E h \in Pod : \E P : Fetch(h, P)
  BY Zenon DEF Downloading, ServeVariant, ServePluginDownload, CatalogDownload
<1> QED
  BY <1>1, FetchKept, Zenon

(* The tables, the binaries, the references, the names and the published   *)
(* versions stay in order, whatever publications overlap, fail or are      *)
(* followed by a purge.                                                    *)
THEOREM CatalogInvariant == Spec => []IInv
<1>1. ASSUME IInv, [Next]_vars
      PROVE  IInv'
  BY <1>1, PublishingKept, AdministrationKept, DownloadingKept, StutterKept, Zenon DEF Next
<1> QED
  BY <1>1, InitIInv, PTL DEF Spec

-----------------------------------------------------------------------------
(* What the invariant says.                                                *)

(* Foreign keys hold.                                                      *)
THEOREM CatalogTypes == Spec => []TypeOK
<1>1. IInv => TypeOK
  <2> SUFFICES ASSUME IInv PROVE TypeOK
    OBVIOUS
  <2>1. ASSUME NEW p \in Plugin
        PROVE  plugins[p].slug \in Name \cup {Nothing}
    <3>1. plugins[p] \in PluginRow
      BY Zenon DEF IInv, Types
    <3> QED
      BY <3>1, Zenon DEF PluginRow
  <2>2. DOMAIN artifacts \subseteq Variant \X Version
    BY Zenon DEF IInv, Types, Key
  <2> QED
    BY <2>1, <2>2, Zenon DEF IInv, RefsInv, NamesInv, TypeOK
<1> QED
  BY <1>1, CatalogInvariant, PTL

(* The artifacts a plugin is served from are there.                        *)
LEMMA ServedAreThere ==
  ASSUME IInv, NEW p \in Plugin
  PROVE  Primary(p) \subseteq DOMAIN artifacts /\ VariantsOf(p) \subseteq DOMAIN artifacts
<1>1. ASSUME NEW a \in Primary(p)
      PROVE  a \in DOMAIN artifacts
  <2>1. PICK v \in {w \in Current(p) : versions[p][w].mode = "managed"} :
           a = versions[p][v].art /\ a # Nothing
    BY <1>1, Zenon DEF Primary
  <2>2. v \in Version
    BY <2>1, Zenon DEF Current
  <2> QED
    BY <2>1, <2>2, Zenon DEF IInv, RefsInv
<1>2. ASSUME NEW a \in VariantsOf(p)
      PROVE  a \in DOMAIN artifacts
  <2>1. PICK l \in {k \in links : k[1] = p} : a = <<l[3], l[2]>>
    BY <1>2, Zenon DEF VariantsOf
  <2> QED
    BY <2>1, Zenon DEF IInv, RefsInv
<1> QED
  BY <1>1, <1>2, Zenon

(* Every pod sends the binary whose checksum the catalog holds, but for a  *)
(* binary that was not forwarded and a version published again.            *)
THEOREM DownloadsAgree == Spec => []DownloadsMatch
<1>1. IInv => DownloadsMatch
  <2> SUFFICES ASSUME IInv, NEW p \in Plugin, NEW h \in Pod, NEW a \in Primary(p) \cup VariantsOf(p)
               PROVE  \/ Bytes(h, artifacts[a].path) = artifacts[a].sum
                      \/ Bytes(h, artifacts[a].path) = Nothing /\ artifacts[a].path \in lost
                      \/ Bytes(h, artifacts[a].path) # Nothing /\ artifacts[a].sum.of \in rewritten
    BY Zenon DEF DownloadsMatch
  <2>1. a \in DOMAIN artifacts
    BY ServedAreThere, Zenon
  <2>2. PICK P, S, B : P = artifacts[a].path /\ S = artifacts[a].sum /\ B = Bytes(h, P)
    BY Zenon
  <2>3. ArtifactOK(a) /\ S \in Sums
    BY <2>1, <2>2, SumsAre, Zenon DEF IInv, FilesInv, IsSum
  <2>4. S.of = P /\ P \in DOMAIN disk \cup lost
    BY <2>2, <2>3, Zenon DEF ArtifactOK
  <2>5. ASSUME B \in Sums, B.of = P
        PROVE  B = S \/ S.of \in rewritten
    BY <2>3, <2>4, <2>5, Zenon DEF IInv, FilesInv, AgreeOK
  <2>6. CASE P \in DOMAIN cache[h]
    <3>1. B = cache[h][P]
      BY <2>2, <2>6, Zenon DEF Bytes
    <3>2. B \in Sums /\ B.of = P /\ B \in File
      BY <2>6, <3>1, SumsAre, ZenonT(40) DEF IInv, FilesInv, StoreOK, IsSum, Types
    <3>3. B # Nothing
      BY <3>2, CatalogAssumption, Zenon
    <3> QED
      BY <2>2, <2>5, <3>2, <3>3, Zenon
  <2>7. CASE P \notin DOMAIN cache[h] /\ P \in DOMAIN disk
    <3>1. B = disk[P]
      BY <2>2, <2>7, Zenon DEF Bytes
    <3>2. B \in Sums /\ B.of = P /\ B \in File
      BY <2>7, <3>1, SumsAre, ZenonT(40) DEF IInv, FilesInv, StoreOK, IsSum, Types
    <3>3. B # Nothing
      BY <3>2, CatalogAssumption, Zenon
    <3> QED
      BY <2>2, <2>5, <3>2, <3>3, Zenon
  <2>8. CASE P \notin DOMAIN cache[h] /\ P \notin DOMAIN disk
    <3>1. B = Nothing /\ P \in lost
      BY <2>2, <2>4, <2>8, Zenon DEF Bytes
    <3> QED
      BY <2>2, <3>1, Zenon
  <2> QED
    BY <2>6, <2>7, <2>8, Zenon
<1> QED
  BY <1>1, CatalogInvariant, PTL

(* A plugin that had a published version has one and no more, but for      *)
(* versions set by hand, overlapping publications and half-done deploys.   *)
THEOREM OneIsCurrent == Spec => []OneCurrent
<1>1. IInv => OneCurrent
  <2> SUFFICES ASSUME IInv PROVE OneCurrent
    OBVIOUS
  <2>1. \A p \in Plugin : (\A v, w \in Current(p) : v = w) \/ p \in hand \cup crossed
    BY Zenon DEF IInv, CurrentInv, CurrentOK
  <2>2. had \subseteq Plugin
    BY Zenon DEF IInv, Types
  <2>3. \A p \in had : Current(p) = {} /\ Present(p) => p \in hand \cup cut
    BY <2>2, Zenon DEF IInv, CurrentInv, CurrentOK
  <2> QED
    BY <2>1, <2>3, Zenon DEF OneCurrent
<1> QED
  BY <1>1, CatalogInvariant, PTL

(* The fields of a manifest and of a variant's link.                       *)
LEMMA FieldsAre ==
  /\ \A u, w : [version |-> u, file |-> w].version = u /\ [version |-> u, file |-> w].file = w
  /\ \A e, f, g : <<e, f, g>>[1] = e /\ <<e, f, g>>[2] = f /\ <<e, f, g>>[3] = g
OBVIOUS

(* The file of an update manifest is that variant's, and no other's.       *)
THEOREM ManifestsServed == Spec => []ManifestServed
<1>1. IInv => ManifestServed
  <2> SUFFICES ASSUME IInv, NEW n \in Name, NEW p \in ResolveDevice(n), NEW x \in Variant \ {""},
                      NEW m \in Announced(p, x)
               PROVE  ByFilename(p, m.file) = {<<x, m.version>>}
    BY Zenon DEF ManifestServed
  <2>1. p \in Plugin
    BY Zenon DEF ResolveDevice, BySlug, ByAlias
  <2>2. PICK v \in LatestVariantRelease(p, x) :
           m = [version |-> v, file |-> artifacts[<<x, v>>].path]
    BY Zenon DEF Announced
  <2>3. PICK a, P : a = <<x, v>> /\ P = artifacts[a].path
    BY Zenon
  <2>4. m.version = v /\ m.file = P
    <3>1. m = [version |-> v, file |-> P]
      BY <2>2, <2>3, Zenon
    <3> QED
      BY <3>1, FieldsAre, Zenon
  <2>5. <<p, v, x>> \in links
    BY <2>2, Zenon DEF LatestVariantRelease, NewestOf
  <2>6. a \in VariantsOf(p)
    <3>1. PICK l : l = <<p, v, x>>
      BY Zenon
    <3>2. l[1] = p /\ l[2] = v /\ l[3] = x
      BY <3>1, FieldsAre, Zenon
    <3>3. l \in {k \in links : k[1] = p} /\ a = <<l[3], l[2]>>
      BY <2>3, <2>5, <3>1, <3>2, Zenon
    <3> QED
      BY <3>3, Zenon DEF VariantsOf
  <2>7. ASSUME NEW b \in VariantsOf(p), artifacts[b].path = P
        PROVE  b = a
    <3>1. a \in DOMAIN artifacts /\ b \in DOMAIN artifacts
      BY <2>1, <2>6, ServedAreThere, Zenon
    <3>2. ArtifactOK(a) /\ ArtifactOK(b)
      BY <3>1, Zenon DEF IInv, FilesInv
    <3> QED
      BY <2>3, <2>7, <3>2, Zenon DEF ArtifactOK
  <2>8. \A b : b \in ByFilename(p, P) <=> b = a
    BY <2>3, <2>6, <2>7, Zenon DEF ByFilename
  <2> QED
    BY <2>3, <2>4, <2>8, Zenon
<1> QED
  BY <1>1, CatalogInvariant, PTL

(* A binary is shared by plugins only under one version and variant.       *)
THEOREM SameVersionShared == Spec => []OnlySameVersionShared
<1>1. IInv => OnlySameVersionShared
  <2> SUFFICES ASSUME IInv, NEW p \in Plugin \ hand, NEW a \in Primary(p)
               PROVE  \/ artifacts[a].sum.plugin \in {p, NoPlugin}
                      \/ <<artifacts[a].sum.of[3], artifacts[a].sum.of[4]>> = a
    BY Zenon DEF OnlySameVersionShared
  <2>1. a \in DOMAIN artifacts
    BY ServedAreThere, Zenon
  <2>2. ArtifactOK(a)
    BY <2>1, Zenon DEF IInv, FilesInv
  <2> QED
    BY <2>2, Zenon DEF ArtifactOK
<1> QED
  BY <1>1, CatalogInvariant, PTL

-----------------------------------------------------------------------------
(* Names.                                                                  *)

(* What a step may do to names: an active plugin keeps its slug, and an    *)
(* alias is free before it gets another plugin.                            *)
NamesStep ==
  /\ \A p \in Plugin : plugins[p].status = "active" => plugins'[p].slug = plugins[p].slug
  /\ \A n \in Name : \/ aliases'[n] = aliases[n]
                     \/ aliases[n] = NoPlugin \/ aliases'[n] = NoPlugin

(* No operation does anything else to them.                                *)
LEMMA NamesStepIs ==
  ASSUME Types, [Next]_vars
  PROVE  NamesStep
<1>1. plugins \in [Plugin -> PluginRow] /\ aliases \in [Name -> Plugin \cup {NoPlugin}]
  BY Zenon DEF Types
<1>2. CASE UNCHANGED catalogVars
  BY <1>2, Zenon DEF NamesStep, catalogVars
<1>3. CASE UNCHANGED vars
  BY <1>2, <1>3, Zenon DEF vars
<1>4. CASE Publishing
  <2>1. ASSUME NEW c \in Call, NEW p \in Plugin, NEW x \in Variant, NEW v \in Version,
               Upload(c, p, x, v)
        PROVE  UNCHANGED catalogVars
    BY <2>1, Zenon DEF Upload
  <2>2. ASSUME NEW c \in Call, NEW p \in Plugin, NEW h \in Pod, NEW v \in Version,
               Deploy(c, h, p, v)
        PROVE  UNCHANGED catalogVars
    BY <2>2, Zenon DEF Deploy
  <2>3. ASSUME NEW c \in Call, UploadCommits(c)
        PROVE  UNCHANGED catalogVars
    BY <2>3, Zenon DEF UploadCommits
  <2>4. ASSUME NEW c \in Call, DeployArtifact(c) \/ DeployDeprecates(c) \/ DeployPublishes(c)
        PROVE  UNCHANGED catalogVars
    <3>1. CASE DeployArtifact(c)
      BY <3>1, Zenon DEF DeployArtifact
    <3>2. CASE DeployDeprecates(c)
      BY <3>2, Zenon DEF DeployDeprecates
    <3>3. CASE DeployPublishes(c)
      BY <3>3, Zenon DEF DeployPublishes
    <3> QED
      BY <2>4, <3>1, <3>2, <3>3, Zenon
  <2>5. ASSUME NEW c \in Call, CallFails(c)
        PROVE  UNCHANGED catalogVars
    BY <2>5, Zenon DEF CallFails
  <2> QED
    BY <1>2, <1>4, <2>1, <2>2, <2>3, <2>4, <2>5, Zenon DEF Publishing
<1>5. CASE Downloading
  <2>1. ASSUME NEW h, NEW path, Fetch(h, path)
        PROVE  UNCHANGED catalogVars
    BY <2>1, Zenon DEF Fetch
  <2>2. ASSUME NEW h, NEW n, NEW path, ServeVariant(h, n, path)
        PROVE  UNCHANGED catalogVars
    BY <2>1, <2>2, Zenon DEF ServeVariant
  <2>3. ASSUME NEW h, NEW n, NEW v, ServePluginDownload(h, n, v)
        PROVE  UNCHANGED catalogVars
    BY <2>1, <2>3, Zenon DEF ServePluginDownload
  <2>4. ASSUME NEW h, NEW n, CatalogDownload(h, n)
        PROVE  UNCHANGED catalogVars
    BY <2>3, <2>4, Zenon DEF CatalogDownload
  <2> QED
    BY <1>2, <1>5, <2>2, <2>3, <2>4, Zenon DEF Downloading
<1>6. ASSUME NEW p \in Plugin, NEW n \in Name, NewPlugin(p, n)
      PROVE  \A q \in Plugin : plugins[q].status = "active" => plugins'[q].slug = plugins[q].slug
  <2>1. Enters(p, n)
    BY <1>6, NewPluginIs, Zenon
  <2>2. "absent" # "active"
    BY Zenon
  <2> QED
    BY <2>1, <2>2, Zenon DEF Enters
<1>7. ASSUME NEW p \in Plugin, NEW n \in Name, NEW also, CreatePlugin(p, n, also)
      PROVE  NamesStep
  <2>1. NewPlugin(p, n)
        /\ aliases' = [m \in Name |-> IF m \in also /\ aliases[m] = NoPlugin THEN p ELSE aliases[m]]
    BY <1>7, Zenon DEF CreatePlugin
  <2> QED
    BY <1>6, <2>1, Zenon DEF NamesStep
<1>8. ASSUME NEW p \in Plugin, NEW n \in Name, NEW q \in Plugin, DuplicatePlugin(p, q, n)
      PROVE  NamesStep
  BY <1>6, <1>8, Zenon DEF NamesStep, DuplicatePlugin
<1>9. ASSUME NEW p \in Plugin, NEW n \in Name, AliasAdd(n, p) \/ AliasDelete(n)
      PROVE  NamesStep
  <2>1. PICK q : aliases' = [aliases EXCEPT ![n] = q] /\ (aliases[n] = NoPlugin \/ q = NoPlugin)
                 /\ plugins' = plugins
    BY <1>9, Zenon DEF AliasAdd, AliasDelete
  <2> QED
    BY <1>1, <2>1, Zenon DEF NamesStep
<1>10. ASSUME NEW p \in Plugin, NEW status, PluginStatus(p, status)
       PROVE  NamesStep
  <2>1. plugins' = [plugins EXCEPT ![p].status = status] /\ aliases' = aliases
    BY <1>10, Zenon DEF PluginStatus
  <2>2. PICK r : r = [plugins[p] EXCEPT !.status = status]
    BY Zenon
  <2>3. r.slug = plugins[p].slug
    <3>1. plugins[p] \in PluginRow
      BY <1>1, Zenon
    <3> QED
      BY <2>2, <3>1, Zenon DEF PluginRow
  <2>4. plugins' = [plugins EXCEPT ![p] = r]
    BY <1>1, <2>1, <2>2, Zenon
  <2>5. \A q \in Plugin : plugins'[q].slug = plugins[q].slug
    BY <1>1, <2>3, <2>4, Zenon
  <2> QED
    BY <2>1, <2>5, Zenon DEF NamesStep
<1>11. CASE PurgeRemoved
  <2>1. PICK gone : gone = {p \in Plugin : plugins[p].status = "removed"}
    BY Zenon
  <2>2. /\ plugins' = [p \in Plugin |-> IF p \in gone THEN [slug |-> Nothing, status |-> "purged"]
                                        ELSE plugins[p]]
        /\ aliases' = [n \in Name |-> IF aliases[n] \in gone THEN NoPlugin ELSE aliases[n]]
    BY <1>11, <2>1, Zenon DEF PurgeRemoved
  <2>3. ASSUME NEW p \in Plugin, plugins[p].status = "active"
        PROVE  plugins'[p] = plugins[p]
    <3>1. p \notin gone
      BY <2>1, <2>3, Zenon
    <3> QED
      BY <2>2, <3>1, Zenon
  <2> QED
    BY <2>2, <2>3, Zenon DEF NamesStep
<1>12. CASE Administration
  <2>1. CASE \E x \in Variant, v \in Version : UploadArtifact(x, v)
    BY <1>2, <2>1, Zenon DEF UploadArtifact
  <2>2. CASE \E p \in Plugin, v \in Version :
               \/ \E a \in DOMAIN artifacts \cup {Nothing}, mode \in Mode,
                    status \in {"draft", "published"} : VersionCreate(p, v, a, mode, status)
               \/ \E status \in {"draft", "published", "yanked"} : VersionStatus(p, v, status)
    <3>1. ASSUME NEW p \in Plugin, NEW v \in Version, NEW a, NEW mode, NEW status,
                 VersionCreate(p, v, a, mode, status)
          PROVE  UNCHANGED catalogVars
      BY <3>1, Zenon DEF VersionCreate
    <3>2. ASSUME NEW p \in Plugin, NEW v \in Version, NEW status, VersionStatus(p, v, status)
          PROVE  UNCHANGED catalogVars
      BY <3>2, Zenon DEF VersionStatus
    <3> QED
      BY <1>2, <2>2, <3>1, <3>2, Zenon
  <2>3. CASE (\E a \in DOMAIN artifacts : FormCampaign(a)) \/ (\E c \in campaigns : EndCampaign(c))
    BY <1>2, <2>3, Zenon DEF FormCampaign, EndCampaign
  <2>4. CASE \E p \in Plugin : VersionsPurge(p) \/ DeploymentsPurge(p)
    BY <1>2, <2>4, Zenon DEF VersionsPurge, DeploymentsPurge
  <2>5. CASE \E n \in Name : AliasDelete(n)
    <3>1. PICK n \in Name : AliasDelete(n)
      BY <2>5, Zenon
    <3>2. aliases[n] \in Plugin
      BY <1>1, <3>1, Zenon DEF AliasDelete
    <3> QED
      BY <1>9, <3>1, <3>2, Zenon
  <2>6. CASE \E p \in Plugin, n \in Name :
               \/ \E also \in {{}} \cup {{m} : m \in Name \ {n}} : CreatePlugin(p, n, also)
               \/ \E q \in Plugin : DuplicatePlugin(p, q, n)
               \/ AliasAdd(n, p)
    BY <1>7, <1>8, <1>9, <2>6, Zenon
  <2>7. CASE \E p \in Plugin, status \in {"active", "deprecated", "removed"} :
               PluginStatus(p, status)
    BY <1>10, <2>7, Zenon
  <2> QED
    BY <1>11, <1>12, <2>1, <2>2, <2>3, <2>4, <2>5, <2>6, <2>7, ZenonT(40) DEF Administration
<1> QED
  BY <1>3, <1>4, <1>5, <1>12, Zenon DEF Next

(* A name goes over to another plugin only when the old one is no longer   *)
(* active or when the new one has it as its slug.                          *)
THEOREM NamesDoNotMove == Spec => NoSilentMove
<1> DEFINE Quiet == \A n \in Name : \A p \in ResolveDevice(n), q \in ResolveDevice(n)' :
                       p # q => plugins'[p].status # "active" \/ plugins'[q].slug = n
<1>1. ASSUME Types, [Next]_vars
      PROVE  Quiet
  <2>1. NamesStep
    BY <1>1, NamesStepIs, Zenon
  <2>2. SUFFICES ASSUME NEW n \in Name, NEW p \in ResolveDevice(n), NEW q \in ResolveDevice(n)',
                        p # q, plugins'[p].status = "active", plugins'[q].slug # n
                 PROVE  FALSE
    BY Zenon
  <2>3. p \in Plugin /\ plugins[p].status = "active" /\ (p \in BySlug(n) \/ p \in ByAlias(n))
    BY Zenon DEF ResolveDevice, BySlug, ByAlias
  <2>4. BySlug(n)' = {} /\ q \in ByAlias(n)'
    BY <2>2, Zenon DEF ResolveDevice, BySlug
  <2>5. aliases'[n] = q /\ q \in Plugin
    BY <2>4, Zenon DEF ByAlias
  <2>6. CASE p \in BySlug(n)
    <3>1. plugins'[p].slug = n
      BY <2>1, <2>3, <2>6, Zenon DEF NamesStep, BySlug
    <3>2. p \in BySlug(n)'
      BY <2>2, <2>3, <3>1, Zenon DEF BySlug
    <3> QED
      BY <2>4, <3>2, Zenon
  <2>7. CASE p \in ByAlias(n)
    <3>1. aliases[n] = p
      BY <2>7, Zenon DEF ByAlias
    <3>2. p # NoPlugin /\ q # NoPlugin
      BY <2>3, <2>5, CatalogAssumption, Zenon
    <3> QED
      BY <2>1, <2>2, <2>5, <3>1, <3>2, Zenon DEF NamesStep
  <2> QED
    BY <2>3, <2>6, <2>7, Zenon
<1>2. IInv => Types
  BY Zenon DEF IInv
<1>3. IInv /\ [Next]_vars => [Quiet]_vars
  BY <1>1, <1>2, Zenon
<1> QED
  BY <1>3, CatalogInvariant, PTL DEF Spec, NoSilentMove
=============================================================================
