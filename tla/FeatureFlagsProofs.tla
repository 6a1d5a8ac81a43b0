------------------------- MODULE FeatureFlagsProofs -------------------------
(***************************************************************************)
(* The inductive invariant of FeatureFlags and what follows from it: that  *)
(* imports keep what admins set, that they take effect, and that a feature *)
(* forced off stays off.  For any plugins, flag names, cohorts, templates  *)
(* and number of imports at a time.                                        *)
(***************************************************************************)
EXTENDS FeatureFlags, TLAPS

Row == [state : State \cup {"absent"}, deprecated : BOOLEAN, gate : Gate]

Import == [step : {"idle", "transaction", "read", "upsert"},
           kind : {"save", "wizard", "upload", "deploy"},
           plugin : Plugin \cup {0}, t : Template \cup {NoTemplate},
           existing : SUBSET Name, todo : SUBSET Name, alone : BOOLEAN]

Types ==
  /\ template \in [Plugin -> Template \cup {NoTemplate}]
  /\ acked \in [Plugin -> Template \cup {NoTemplate}]
  /\ flags \in [Flag -> Row]
  /\ admin \in [Flag -> State]
  /\ calls \in [Call -> Import]
  /\ touched \subseteq Flag
  /\ drifted \subseteq Plugin

(* A flag that is not there counts as transparent: the state a template    *)
(* gives to the flags it introduces.                                       *)
AdminOK ==
  \A f \in Flag : IF flags[f] = NoFlag THEN admin[f] = "transparent"
                  ELSE flags[f].state = admin[f] /\ flags[f].state # "absent"

(* What an import knows.  One that is still alone has seen every active    *)
(* flag of its plugin, but for those it has activated itself.              *)
CallOK(c) ==
  /\ calls[c].step = "idle" => calls[c] = Idle
  /\ calls[c].step # "idle" => calls[c].plugin \in Plugin /\ calls[c].t \in Template
  /\ calls[c].step \in {"read", "upsert"} <=> calls[c].kind = "deploy"
  /\ calls[c].step # "idle" /\ calls[c].alone => Running = {c}
  /\ calls[c].step = "transaction" /\ calls[c].alone =>
       Existing(calls[c].plugin) \subseteq calls[c].existing
  /\ calls[c].step = "upsert" => calls[c].todo \subseteq Listed(calls[c].t)
  /\ calls[c].step = "upsert" /\ calls[c].alone =>
       /\ Listed(calls[c].t) \ calls[c].todo \subseteq Existing(calls[c].plugin)
       /\ Existing(calls[c].plugin) \subseteq calls[c].existing \cup Listed(calls[c].t)

CallsOK == \A c \in Call : CallOK(c)

Deploying(p) ==
  \E c \in Call : calls[c].step # "idle" /\ calls[c].kind = "deploy" /\ calls[c].plugin = p

(* The catalog agrees with the template the plugin was last given.         *)
Sound(p) ==
  /\ template[p] = acked[p]
  /\ \A n \in Name : <<p, n>> \notin touched =>
       (n \in Existing(p) <=> n \in Listed(template[p]))
  /\ template[p] = NoTemplate => \A n \in Name : ~flags[<<p, n>>].deprecated

PluginsOK == \A p \in Plugin \ drifted : Deploying(p) \/ Sound(p)

IInv == Types /\ AdminOK /\ CallsOK /\ PluginsOK

-----------------------------------------------------------------------------
(* What the pieces of the actions compute.                                 *)

Table(fs) == fs \in [Flag -> Row] /\ \A f \in Flag : fs[f] # NoFlag => fs[f].state # "absent"

(* What tells a row of feature_flags from none.                            *)
LEMMA RowFacts ==
  /\ NoFlag \in Row /\ NoFlag.state = "absent" /\ ~NoFlag.deprecated
  /\ \A r : r.state # "absent" => r # NoFlag
<1>1. NoFlag \in Row /\ NoFlag.state = "absent" /\ ~NoFlag.deprecated
  BY Zenon DEF Row, NoFlag, Gate
<1>2. \A r : r.state # "absent" => r # NoFlag
  BY SMT DEF NoFlag
<1> QED
  BY <1>1, <1>2, Zenon

(* The upsert of reconcile_catalog_from_template activates the flags it is *)
(* given, keeps their state and touches no other.                          *)
LEMMA UpsertedIs ==
  ASSUME NEW fs, Table(fs), NEW p, NEW names, NEW new, new = Upserted(fs, p, names)
  PROVE  /\ Table(new)
         /\ \A f \in Flag :
              IF f[1] = p /\ f[2] \in names
              THEN /\ new[f] # NoFlag /\ ~new[f].deprecated
                   /\ new[f].state = IF fs[f] = NoFlag THEN "transparent" ELSE fs[f].state
              ELSE new[f] = fs[f]
<1>1. ASSUME NEW f \in Flag
      PROVE  /\ new[f] \in Row /\ (new[f] # NoFlag => new[f].state # "absent")
             /\ IF f[1] = p /\ f[2] \in names
                THEN /\ new[f] # NoFlag /\ ~new[f].deprecated
                     /\ new[f].state = IF fs[f] = NoFlag THEN "transparent" ELSE fs[f].state
                ELSE new[f] = fs[f]
  <2>1. fs[f] \in Row /\ (fs[f] # NoFlag => fs[f].state # "absent")
    BY Zenon DEF Table
  <2>2. CASE ~(f[1] = p /\ f[2] \in names)
    BY <2>1, <2>2, Zenon DEF Upserted
  <2>3. CASE f[1] = p /\ f[2] \in names /\ fs[f] = NoFlag
    <3>1. new[f] = [NoFlag EXCEPT !.state = "transparent"]
      BY <2>3, Zenon DEF Upserted
    <3>2. "transparent" \in State /\ "transparent" # "absent"
      BY DEF State
    <3>3. new[f] \in Row /\ new[f].state = "transparent" /\ ~new[f].deprecated
      BY <3>1, <3>2, RowFacts, Zenon DEF Row
    <3> QED
      BY <2>3, <3>2, <3>3, RowFacts, Zenon
  <2>4. CASE f[1] = p /\ f[2] \in names /\ fs[f] # NoFlag
    <3>1. new[f] = [fs[f] EXCEPT !.deprecated = FALSE]
      BY <2>4, Zenon DEF Upserted
    <3>2. new[f] \in Row /\ new[f].state = fs[f].state /\ ~new[f].deprecated
      BY <2>1, <3>1, Zenon DEF Row
    <3> QED
      BY <2>1, <2>4, <3>2, RowFacts, Zenon
  <2> QED
    BY <2>2, <2>3, <2>4, Zenon
<1>2. new = [f \in Flag |-> new[f]]
  BY Zenon DEF Upserted
<1>3. new \in [Flag -> Row]
  BY <1>1, <1>2, Zenon
<1> QED
  BY <1>1, <1>3, Zenon DEF Table

(* Its second statement only deprecates flags.                             *)
LEMMA OrphanedIs ==
  ASSUME NEW fs, Table(fs), NEW p, NEW names, NEW new, new = Orphaned(fs, p, names)
  PROVE  /\ Table(new)
         /\ \A f \in Flag :
              IF f[1] = p /\ f[2] \in names /\ fs[f] # NoFlag
              THEN new[f] # NoFlag /\ new[f].deprecated /\ new[f].state = fs[f].state
              ELSE new[f] = fs[f]
<1>1. ASSUME NEW f \in Flag
      PROVE  /\ new[f] \in Row /\ (new[f] # NoFlag => new[f].state # "absent")
             /\ IF f[1] = p /\ f[2] \in names /\ fs[f] # NoFlag
                THEN new[f] # NoFlag /\ new[f].deprecated /\ new[f].state = fs[f].state
                ELSE new[f] = fs[f]
  <2>1. fs[f] \in Row /\ (fs[f] # NoFlag => fs[f].state # "absent")
    BY Zenon DEF Table
  <2>2. CASE ~(f[1] = p /\ f[2] \in names /\ fs[f] # NoFlag)
    BY <2>1, <2>2, Zenon DEF Orphaned
  <2>3. CASE f[1] = p /\ f[2] \in names /\ fs[f] # NoFlag
    <3>1. new[f] = [fs[f] EXCEPT !.deprecated = TRUE]
      BY <2>3, Zenon DEF Orphaned
    <3>2. new[f] \in Row /\ new[f].state = fs[f].state /\ new[f].deprecated
      BY <2>1, <3>1, Zenon DEF Row
    <3> QED
      BY <2>1, <2>3, <3>2, RowFacts, Zenon
  <2> QED
    BY <2>2, <2>3, Zenon
<1>2. new = [f \in Flag |-> new[f]]
  BY Zenon DEF Orphaned
<1>3. new \in [Flag -> Row]
  BY <1>1, <1>2, Zenon
<1> QED
  BY <1>1, <1>3, Zenon DEF Table

(* An import that starts: the others learn that they are not alone.        *)
Starts(c, kind, p, t, s) ==
  /\ calls' \in [Call -> Import]
  /\ calls'[c].step = s /\ calls'[c].kind = kind /\ calls'[c].plugin = p
  /\ calls'[c].t = t /\ calls'[c].existing = Existing(p)
  /\ calls'[c].alone <=> Running = {}
  /\ \A d \in Call \ {c} :
       IF calls[d] = Idle THEN calls'[d] = Idle
       ELSE calls'[d] = [calls[d] EXCEPT !.alone = FALSE]

(* How the calls look once an import has started.                          *)
LEMMA StartedIs ==
  ASSUME Types, NEW c \in Call, NEW kind \in {"save", "wizard", "upload", "deploy"},
         NEW p \in Plugin, NEW t \in Template, NEW s \in {"transaction", "read"},
         calls' = Started(c, kind, p, t, s)
  PROVE  Starts(c, kind, p, t, s)
<1> DEFINE new == [Idle EXCEPT !.step = s, !.kind = kind, !.plugin = p, !.t = t,
                               !.existing = Existing(p), !.alone = Running = {}]
<1>1. Idle \in Import
  BY Zenon DEF Idle, Import
<1>2. /\ new \in Import
      /\ new.step = s /\ new.kind = kind /\ new.plugin = p /\ new.t = t
      /\ new.existing = Existing(p) /\ new.alone = (Running = {})
  <2>1. Existing(p) \in SUBSET Name /\ (Running = {}) \in BOOLEAN
    BY Zenon DEF Existing
  <2>2. new \in Import
    BY <1>1, <2>1, ZenonT(40) DEF Import
  <2> QED
    BY <2>2, Zenon DEF Idle
<1>3. ASSUME NEW d \in Call \ {c}
      PROVE  /\ IF calls[d] = Idle THEN calls'[d] = Idle
                ELSE calls'[d] = [calls[d] EXCEPT !.alone = FALSE]
             /\ calls'[d] \in Import
  <2>1. calls[d] \in Import
    BY Zenon DEF Types
  <2>2. [calls[d] EXCEPT !.alone = FALSE] \in Import
    BY <2>1, Zenon DEF Import
  <2> QED
    BY <1>1, <2>1, <2>2, Zenon DEF Started
<1>4. calls' = [d \in Call |-> calls'[d]] /\ calls'[c] = new
  BY Zenon DEF Started
<1>5. \A d \in Call : calls'[d] \in Import
  <2>1. \A d \in Call \ {c} : calls'[d] \in Import
    BY <1>3, Zenon
  <2> QED
    BY <1>2, <1>4, <2>1, ZenonT(40)
<1>6. calls' \in [Call -> Import]
  BY <1>4, <1>5, Zenon
<1> QED
  BY <1>2, <1>3, <1>4, <1>6, Zenon DEF Starts

(* An import that ends frees its place.                                    *)
Ended(c, reported, clean) ==
  /\ calls' \in [Call -> Import] /\ calls'[c] = Idle
  /\ \A d \in Call \ {c} : calls'[d] = calls[d]
  /\ acked' \in [Plugin -> Template \cup {NoTemplate}]
  /\ \A q \in Plugin \ {calls[c].plugin} : acked'[q] = acked[q]
  /\ reported => acked'[calls[c].plugin] = calls[c].t
  /\ touched' \subseteq touched
  /\ \A f \in touched : f[1] # calls[c].plugin => f \in touched'
  /\ drifted' \subseteq Plugin
  /\ \A q \in Plugin \ drifted' : q # calls[c].plugin =>
        q \notin drifted /\ calls[c].kind # "wizard"
  /\ calls[c].plugin \notin drifted' =>
       /\ clean /\ calls[c].alone
       /\ \A f \in touched' : f[1] # calls[c].plugin

(* How the calls, reports and marks look once an import has ended.         *)
LEMMA EndsIs ==
  ASSUME IInv, NEW c \in Call, NEW reported, NEW clean, calls[c].step # "idle",
         Ends(c, reported, clean)
  PROVE  Ended(c, reported, clean)
<1>0. Types /\ calls[c].plugin \in Plugin /\ calls[c].t \in Template
  BY Zenon DEF IInv, CallsOK, CallOK
<1> DEFINE p == calls[c].plugin
<1>1. calls' \in [Call -> Import] /\ calls'[c] = Idle /\ \A d \in Call \ {c} : calls'[d] = calls[d]
  <2>1. Idle \in Import
    BY Zenon DEF Idle, Import
  <2> QED
    BY <1>0, <2>1, Zenon DEF Ends, Types
<1>2. /\ acked' \in [Plugin -> Template \cup {NoTemplate}]
      /\ \A q \in Plugin \ {p} : acked'[q] = acked[q]
      /\ reported => acked'[p] = calls[c].t
  BY <1>0 DEF Ends, Types
<1>3. touched' \subseteq touched /\ \A f \in touched : f[1] # p => f \in touched'
  BY Zenon DEF Ends
<1>4. drifted' \subseteq Plugin
  BY <1>0, Zenon DEF Ends, Types
<1>5. \A q \in Plugin \ drifted' : q # p => q \notin drifted /\ calls[c].kind # "wizard"
  BY Zenon DEF Ends
<1>6. p \notin drifted' => clean /\ calls[c].alone
  BY Zenon DEF Ends
<1>7. clean /\ calls[c].alone => \A f \in touched' : f[1] # p
  BY Zenon DEF Ends
<1> QED
  BY <1>1, <1>2, <1>3, <1>4, <1>5, <1>6, <1>7, Zenon DEF Ended

-----------------------------------------------------------------------------
(* What any step may do to a flag: leave it alone, reconcile it with a     *)
(* template, or carry out what an admin asked for.                         *)
FlagMove(f) ==
  \/ flags'[f] = flags[f] /\ admin'[f] = admin[f]
  \/ /\ admin'[f] = admin[f] /\ flags'[f] # NoFlag
     /\ flags'[f].state = IF flags[f] = NoFlag THEN "transparent" ELSE flags[f].state
  \/ flags'[f] # NoFlag /\ flags'[f].state = admin'[f]
  \/ flags'[f] = NoFlag /\ admin'[f] = "transparent"

(* The flags are rows with a state, or not there.                          *)
LEMMA TableOK == IInv => Table(flags)
BY Zenon DEF IInv, Types, AdminOK, Table

(* The two statements of a reconciliation, one after the other.            *)
Reconciles(fs, p, names, old, new) ==
  /\ Table(new)
  /\ \A f \in Flag :
       /\ f[1] # p => new[f] = fs[f]
       /\ f[1] = p /\ f[2] \in names =>
            /\ new[f] # NoFlag /\ ~new[f].deprecated
            /\ new[f].state = IF fs[f] = NoFlag THEN "transparent" ELSE fs[f].state
       /\ f[1] = p /\ f[2] \notin names =>
            IF f[2] \in old /\ fs[f] # NoFlag
            THEN new[f] # NoFlag /\ new[f].deprecated /\ new[f].state = fs[f].state
            ELSE new[f] = fs[f]

(* reconcile_catalog_from_template as a whole.                             *)
LEMMA ReconciledIs ==
  ASSUME NEW fs, Table(fs), NEW p, NEW names, NEW old, NEW new,
         new = Orphaned(Upserted(fs, p, names), p, old \ names)
  PROVE  Reconciles(fs, p, names, old, new)
<1>0. PICK mid : mid = Upserted(fs, p, names)
  OBVIOUS
<1>1. /\ Table(mid)
      /\ \A f \in Flag :
           IF f[1] = p /\ f[2] \in names
           THEN /\ mid[f] # NoFlag /\ ~mid[f].deprecated
                /\ mid[f].state = IF fs[f] = NoFlag THEN "transparent" ELSE fs[f].state
           ELSE mid[f] = fs[f]
  BY <1>0, UpsertedIs, SMT
<1>2. /\ Table(new)
      /\ \A f \in Flag :
           IF f[1] = p /\ f[2] \in old \ names /\ mid[f] # NoFlag
           THEN new[f] # NoFlag /\ new[f].deprecated /\ new[f].state = mid[f].state
           ELSE new[f] = mid[f]
  BY <1>0, <1>1, OrphanedIs, SMT
<1>3. ASSUME NEW f \in Flag
      PROVE  /\ f[1] # p => new[f] = fs[f]
             /\ f[1] = p /\ f[2] \in names =>
                  /\ new[f] # NoFlag /\ ~new[f].deprecated
                  /\ new[f].state = IF fs[f] = NoFlag THEN "transparent" ELSE fs[f].state
             /\ f[1] = p /\ f[2] \notin names =>
                  IF f[2] \in old /\ fs[f] # NoFlag
                  THEN new[f] # NoFlag /\ new[f].deprecated /\ new[f].state = fs[f].state
                  ELSE new[f] = fs[f]
  <2>1. CASE f[1] # p
    BY <1>1, <1>2, <2>1, Zenon
  <2>2. CASE f[1] = p /\ f[2] \in names
    BY <1>1, <1>2, <2>2, ZenonT(40)
  <2>3. CASE f[1] = p /\ f[2] \notin names
    BY <1>1, <1>2, <2>3, Zenon
  <2> QED
    BY <2>1, <2>2, <2>3, Zenon
<1> QED
  BY <1>2, <1>3, Zenon DEF Reconciles

(* What the commit of an import makes of the flags.                        *)
LEMMA CommitIs ==
  ASSUME IInv, NEW c \in Call, ImportCommits(c)
  PROVE  Reconciles(flags, calls[c].plugin, Listed(calls[c].t), calls[c].existing, flags')
<1>1. flags' = Orphaned(Upserted(flags, calls[c].plugin, Listed(calls[c].t)),
                        calls[c].plugin, calls[c].existing \ Listed(calls[c].t))
  BY Zenon DEF ImportCommits
<1> QED
  BY <1>1, TableOK, ReconciledIs, Zenon

(* Every step of FeatureFlags moves the flags that way.                    *)
LEMMA FlagMoves ==
  ASSUME IInv, [Next]_vars
  PROVE  /\ Table(flags') /\ admin' \in [Flag -> State]
         /\ \A f \in Flag : FlagMove(f)
<1>1. Table(flags) /\ admin \in [Flag -> State]
  BY TableOK, Zenon DEF IInv, Types
<1>2. ASSUME flags' = flags, admin' = admin
      PROVE  /\ Table(flags') /\ admin' \in [Flag -> State] /\ \A f \in Flag : FlagMove(f)
  BY <1>1, <1>2, Zenon DEF FlagMove
<1>3. ASSUME NEW c \in Call, ImportCommits(c)
      PROVE  /\ Table(flags') /\ admin' \in [Flag -> State] /\ \A f \in Flag : FlagMove(f)
  <2>1. /\ admin' = admin
        /\ flags' = Orphaned(Upserted(flags, calls[c].plugin, Listed(calls[c].t)),
                             calls[c].plugin, calls[c].existing \ Listed(calls[c].t))
    BY <1>3, Zenon DEF ImportCommits
  <2>2. Table(flags')
    BY <1>3, CommitIs, Zenon DEF Reconciles
  <2>3. \A f \in Flag : \/ flags'[f] = flags[f]
                        \/ /\ flags'[f] # NoFlag
                           /\ flags'[f].state = IF flags[f] = NoFlag THEN "transparent"
                                                ELSE flags[f].state
    BY <1>3, CommitIs, Zenon DEF Reconciles
  <2> QED
    BY <1>1, <2>1, <2>2, <2>3, Zenon DEF FlagMove
<1>4. ASSUME NEW c \in Call, DeployUpserts(c)
      PROVE  /\ Table(flags') /\ admin' \in [Flag -> State] /\ \A f \in Flag : FlagMove(f)
  <2>1. PICK n : flags' = Upserted(flags, calls[c].plugin, {n}) /\ admin' = admin
    BY <1>4, Zenon DEF DeployUpserts
  <2>2. Table(flags')
    BY <1>1, <2>1, UpsertedIs, SMT
  <2>3. \A f \in Flag : \/ flags'[f] = flags[f]
                        \/ /\ flags'[f] # NoFlag
                           /\ flags'[f].state = IF flags[f] = NoFlag THEN "transparent"
                                                ELSE flags[f].state
    BY <1>1, <2>1, UpsertedIs, SMT
  <2> QED
    BY <1>1, <2>1, <2>2, <2>3, Zenon DEF FlagMove
<1>5. ASSUME NEW c \in Call, DeployMarks(c)
      PROVE  /\ Table(flags') /\ admin' \in [Flag -> State] /\ \A f \in Flag : FlagMove(f)
  <2>1. /\ admin' = admin
        /\ flags' = Orphaned(flags, calls[c].plugin, calls[c].existing \ Listed(calls[c].t))
    BY <1>5, Zenon DEF DeployMarks
  <2>2. Table(flags')
    BY <1>1, <2>1, OrphanedIs, Zenon
  <2>3. \A f \in Flag : \/ flags'[f] = flags[f]
                        \/ /\ flags'[f] # NoFlag
                           /\ flags'[f].state = IF flags[f] = NoFlag THEN "transparent"
                                                ELSE flags[f].state
    BY <1>1, <2>1, OrphanedIs, SMT
  <2> QED
    BY <1>1, <2>1, <2>2, <2>3, Zenon DEF FlagMove
<1>6. ASSUME NEW f \in Flag, FlagCreate(f)
      PROVE  /\ Table(flags') /\ admin' \in [Flag -> State] /\ \A g \in Flag : FlagMove(g)
  <2>1. PICK s \in State, gate \in Gate :
          /\ flags' = [flags EXCEPT ![f] = [state |-> s, deprecated |-> FALSE, gate |-> gate]]
          /\ admin' = [admin EXCEPT ![f] = s]
    BY <1>6, Zenon DEF FlagCreate
  <2> DEFINE row == [state |-> s, deprecated |-> FALSE, gate |-> gate]
  <2>2. row \in Row /\ row.state = s
    BY Zenon DEF Row
  <2>3. s # "absent"
    BY DEF State
  <2>4. row # NoFlag
    BY <2>2, <2>3, RowFacts, Zenon
  <2>5. /\ flags' = [flags EXCEPT ![f] = row]
        /\ row.state # "absent" /\ row.state = s
    BY <2>1, <2>2, <2>3, Zenon
  <2> HIDE DEF row
  <2>6. Table(flags') /\ admin' \in [Flag -> State]
    BY <1>1, <2>1, <2>2, <2>5, Zenon DEF Table
  <2>7. \A g \in Flag : FlagMove(g)
    BY <1>1, <2>1, <2>4, <2>5, Zenon DEF Table, FlagMove
  <2> QED
    BY <2>6, <2>7, Zenon
<1>7. ASSUME NEW f \in Flag, FlagUpdateDefault(f)
      PROVE  /\ Table(flags') /\ admin' \in [Flag -> State] /\ \A g \in Flag : FlagMove(g)
  <2>1. PICK s \in State : /\ flags' = [flags EXCEPT ![f].state = s]
                           /\ admin' = [admin EXCEPT ![f] = s]
    BY <1>7, Zenon DEF FlagUpdateDefault
  <2> DEFINE row == [flags[f] EXCEPT !.state = s]
  <2>2. flags[f] \in Row
    BY <1>1, Zenon DEF Table
  <2>3. s # "absent"
    BY DEF State
  <2>4. row \in Row /\ row.state = s
    BY <2>2, Zenon DEF Row
  <2>5. flags' = [flags EXCEPT ![f] = row]
    BY <2>1, Zenon
  <2> HIDE DEF row
  <2>6. row # NoFlag
    BY <2>3, <2>4, RowFacts, Zenon
  <2>7. Table(flags') /\ admin' \in [Flag -> State]
    BY <1>1, <2>1, <2>3, <2>4, <2>5, ZenonT(40) DEF Table
  <2>8. \A g \in Flag : FlagMove(g)
    BY <1>1, <2>1, <2>4, <2>5, <2>6, Zenon DEF Table, FlagMove
  <2> QED
    BY <2>7, <2>8, Zenon
<1>8. ASSUME NEW f \in Flag, FlagDelete(f)
      PROVE  /\ Table(flags') /\ admin' \in [Flag -> State] /\ \A g \in Flag : FlagMove(g)
  <2>1. /\ flags' = [flags EXCEPT ![f] = NoFlag]
        /\ admin' = [admin EXCEPT ![f] = "transparent"]
    BY <1>8, Zenon DEF FlagDelete
  <2>2. "transparent" \in State
    BY DEF State
  <2>3. Table(flags') /\ admin' \in [Flag -> State]
    BY <1>1, <2>1, <2>2, RowFacts, Zenon DEF Table
  <2>4. \A g \in Flag : FlagMove(g)
    BY <1>1, <2>1, Zenon DEF Table, FlagMove
  <2> QED
    BY <2>3, <2>4, Zenon
<1>9. CASE UNCHANGED vars
  BY <1>2, <1>9, Zenon DEF vars
<1>10. ASSUME NEW c \in Call,
              ImportBegins(c) \/ ImportVoid(c) \/ DeployBegins(c) \/ DeployReads(c)
                \/ DeployCutShort(c)
       PROVE  /\ Table(flags') /\ admin' \in [Flag -> State] /\ \A f \in Flag : FlagMove(f)
  BY <1>2, <1>10, Zenon
     DEF ImportBegins, ImportVoid, DeployBegins, DeployReads, DeployCutShort
<1>11. ASSUME NEW f \in Flag, FlagAddOverride(f) \/ FlagDeleteOverride(f)
       PROVE  /\ Table(flags') /\ admin' \in [Flag -> State] /\ \A g \in Flag : FlagMove(g)
  BY <1>2, <1>11, Zenon DEF FlagAddOverride, FlagDeleteOverride
<1>12. ASSUME NEW c \in Cohort, CohortDelete(c)
       PROVE  /\ Table(flags') /\ admin' \in [Flag -> State] /\ \A f \in Flag : FlagMove(f)
  BY <1>2, <1>12, Zenon DEF CohortDelete
<1> QED
  BY <1>3, <1>4, <1>5, <1>6, <1>7, <1>8, <1>9, <1>10, <1>11, <1>12, Zenon DEF Next

(* No import changes what an admin set, and no row is half there.          *)
LEMMA AdminKept == IInv /\ [Next]_vars => AdminOK'
<1> SUFFICES ASSUME IInv, [Next]_vars, NEW f \in Flag
             PROVE  IF flags'[f] = NoFlag THEN admin'[f] = "transparent"
                    ELSE flags'[f].state = admin'[f] /\ flags'[f].state # "absent"
  BY Zenon DEF AdminOK
<1>1. FlagMove(f) /\ Table(flags')
  BY FlagMoves, Zenon
<1>2. IF flags[f] = NoFlag THEN admin[f] = "transparent" ELSE flags[f].state = admin[f]
  BY Zenon DEF IInv, AdminOK
<1>3. flags'[f] # NoFlag => flags'[f].state # "absent"
  BY <1>1, Zenon DEF Table
<1> QED
  BY <1>1, <1>2, <1>3, Zenon DEF FlagMove

-----------------------------------------------------------------------------
(* The imports: each knows what it should, whatever the others do.         *)

(* Nothing happened to an import, except that another came to overlap it.  *)
SameCall(d) ==
  /\ calls'[d].step = calls[d].step /\ calls'[d].kind = calls[d].kind
  /\ calls'[d].plugin = calls[d].plugin /\ calls'[d].t = calls[d].t
  /\ calls'[d].existing = calls[d].existing /\ calls'[d].todo = calls[d].todo
  /\ calls'[d].alone => calls[d].alone
  /\ calls[d] = Idle => calls'[d] = Idle

(* A plugin's active flags depend on its flags only.                       *)
LEMMA SameExisting ==
  ASSUME NEW p, \A n \in Name : flags'[<<p, n>>] = flags[<<p, n>>]
  PROVE  Existing(p)' = Existing(p)
BY Zenon DEF Existing

(* What an import knows stays true as long as it is alone and its plugin's *)
(* active flags stay the same.                                             *)
LEMMA SameCallKept ==
  ASSUME IInv, NEW d \in Call, SameCall(d),
         calls'[d].step # "idle" /\ calls'[d].alone =>
           Running' = Running /\ \A p \in Plugin : p = calls[d].plugin => Existing(p)' = Existing(p)
  PROVE  CallOK(d)'
<1>1. CallOK(d)
  BY Zenon DEF IInv, CallsOK
<1>2. calls'[d].step # "idle" /\ calls'[d].alone =>
        /\ calls[d].step # "idle" /\ calls[d].alone
        /\ Existing(calls[d].plugin)' = Existing(calls[d].plugin)
  <2>1. CASE calls'[d].step # "idle" /\ calls'[d].alone
    <3>1. calls[d].step # "idle" /\ calls[d].alone /\ calls'[d].plugin = calls[d].plugin
      BY <2>1, Zenon DEF SameCall
    <3>2. PICK p \in Plugin : p = calls[d].plugin
      BY <1>1, <3>1, Zenon DEF CallOK
    <3>3. Existing(p)' = Existing(p)
      BY <2>1, <3>2, Zenon
    <3>4. Existing(calls[d].plugin)' = Existing(p)'
      BY <3>1, <3>2, Zenon DEF Existing
    <3> QED
      BY <3>1, <3>2, <3>3, <3>4, Zenon
  <2> QED
    BY <2>1, Zenon
<1>3. calls'[d].step = "idle" => calls'[d] = Idle
  BY <1>1, Zenon DEF CallOK, SameCall
<1>4. /\ calls'[d].step # "idle" => calls'[d].plugin \in Plugin /\ calls'[d].t \in Template
      /\ calls'[d].step \in {"read", "upsert"} <=> calls'[d].kind = "deploy"
      /\ calls'[d].step = "upsert" => calls'[d].todo \subseteq Listed(calls'[d].t)
  BY <1>1, SMT DEF CallOK, SameCall
<1>5. calls'[d].step # "idle" /\ calls'[d].alone => Running' = {d}
  BY <1>1, <1>2, Zenon DEF CallOK
<1>6. calls'[d].step = "transaction" /\ calls'[d].alone =>
        Existing(calls[d].plugin)' \subseteq calls'[d].existing
  <2>1. "transaction" # "idle"
    OBVIOUS
  <2> QED
    BY <1>1, <1>2, <2>1, Zenon DEF CallOK, SameCall
<1>7. calls'[d].step = "upsert" /\ calls'[d].alone =>
        /\ Listed(calls'[d].t) \ calls'[d].todo \subseteq Existing(calls[d].plugin)'
        /\ Existing(calls[d].plugin)' \subseteq calls'[d].existing \cup Listed(calls'[d].t)
  <2>1. "upsert" # "idle"
    OBVIOUS
  <2>2. /\ calls'[d].step = calls[d].step /\ calls'[d].t = calls[d].t
        /\ calls'[d].existing = calls[d].existing /\ calls'[d].todo = calls[d].todo
    BY Zenon DEF SameCall
  <2>3. calls[d].step = "upsert" /\ calls[d].alone =>
        /\ Listed(calls[d].t) \ calls[d].todo \subseteq Existing(calls[d].plugin)
        /\ Existing(calls[d].plugin) \subseteq calls[d].existing \cup Listed(calls[d].t)
    BY <1>1, Zenon DEF CallOK
  <2> QED
    BY <1>2, <2>1, <2>2, <2>3, Zenon
<1> QED
  BY <1>3, <1>4, <1>5, <1>6, <1>7, Zenon DEF CallOK

(* An import that overlaps the acting one is not alone.                    *)
LEMMA Overlapped ==
  ASSUME IInv, NEW c \in Call, calls[c].step # "idle", NEW d \in Call \ {c}, calls'[d] = calls[d]
  PROVE  CallOK(d)'
<1>1. CallOK(d) /\ c \in Running
  BY Zenon DEF IInv, CallsOK, Running
<1>2. ~(calls[d].step # "idle" /\ calls[d].alone)
  BY <1>1, Zenon DEF CallOK
<1>3. SameCall(d)
  BY Zenon DEF SameCall
<1> QED
  BY <1>2, <1>3, SameCallKept, Zenon

(* The others, when an import starts.                                      *)
LEMMA OverlappedByStart ==
  ASSUME IInv, NEW c \in Call, NEW d \in Call \ {c},
         IF calls[d] = Idle THEN calls'[d] = Idle ELSE calls'[d] = [calls[d] EXCEPT !.alone = FALSE]
  PROVE  SameCall(d) /\ CallOK(d)'
<1>1. calls[d] \in Import
  BY Zenon DEF IInv, Types
<1>2. SameCall(d) /\ (calls[d] # Idle => ~calls'[d].alone)
  <2>1. CASE calls[d] = Idle
    BY <2>1, Zenon DEF SameCall
  <2>2. CASE calls[d] # Idle
    BY <1>1, <2>2, Zenon DEF SameCall, Import
  <2> QED
    BY <2>1, <2>2, Zenon
<1>3. Idle.step = "idle"
  BY Zenon DEF Idle
<1>4. calls'[d].step # "idle" => calls[d] # Idle
  BY <1>2, <1>3, Zenon DEF SameCall
<1> QED
  BY <1>2, <1>4, SameCallKept, Zenon

(* A plugin that a step leaves as it is stays sound.                       *)
Quiet(p) ==
  /\ template'[p] = template[p] /\ acked'[p] = acked[p]
  /\ \A n \in Name : <<p, n>> \in touched => <<p, n>> \in touched'
  /\ \A n \in Name : flags'[<<p, n>>] = flags[<<p, n>>]

(* What a step leaves alone stays sound.                                   *)
LEMMA QuietKept ==
  ASSUME NEW p \in Plugin, Quiet(p), Sound(p)
  PROVE  Sound(p)'
<1>1. Existing(p)' = Existing(p)
  BY SameExisting, Zenon DEF Quiet
<1>2. template'[p] = acked'[p]
  BY Zenon DEF Quiet, Sound
<1>3. \A n \in Name : <<p, n>> \notin touched' => (n \in Existing(p)' <=> n \in Listed(template'[p]))
  BY <1>1, Zenon DEF Quiet, Sound
<1>4. template'[p] = NoTemplate => \A n \in Name : ~flags'[<<p, n>>].deprecated
  BY Zenon DEF Quiet, Sound
<1> QED
  BY <1>2, <1>3, <1>4, Zenon DEF Sound

(* An API deployment that goes on.                                         *)
LEMMA DeployingKept ==
  ASSUME NEW p, NEW d \in Call, calls[d].step # "idle", calls[d].kind = "deploy",
         calls[d].plugin = p, SameCall(d)
  PROVE  Deploying(p)'
BY Zenon DEF Deploying, SameCall

-----------------------------------------------------------------------------
(* Each step of an import keeps the invariant.                             *)

(* An import or an API deployment starts.                                  *)
LEMMA BeginsKept ==
  ASSUME IInv, NEW c \in Call, NEW kind \in {"save", "wizard", "upload", "deploy"},
         NEW q \in Plugin, NEW t \in Template, NEW s \in {"transaction", "read"},
         calls[c] = Idle, calls' = Started(c, kind, q, t, s), s = "read" <=> kind = "deploy",
         flags' = flags, acked' = acked, touched' = touched, drifted' = drifted,
         \A p \in Plugin : (kind = "deploy" /\ p = q) \/ template'[p] = template[p]
  PROVE  CallsOK' /\ PluginsOK'
<1>1. /\ calls'[c].step = s /\ calls'[c].kind = kind /\ calls'[c].plugin = q
      /\ calls'[c].t = t /\ calls'[c].existing = Existing(q)
      /\ calls'[c].alone <=> Running = {}
      /\ \A d \in Call \ {c} :
           IF calls[d] = Idle THEN calls'[d] = Idle
           ELSE calls'[d] = [calls[d] EXCEPT !.alone = FALSE]
  <2>1. Starts(c, kind, q, t, s)
    BY StartedIs, Zenon DEF IInv
  <2> QED
    BY <2>1, Zenon DEF Starts
<1>2. \A d \in Call \ {c} : SameCall(d) /\ CallOK(d)'
  BY <1>1, OverlappedByStart, Zenon
<1>3. calls'[c].alone => Running' = {c}
  <2> SUFFICES ASSUME calls'[c].alone PROVE \A d \in Call \ {c} : calls'[d].step = "idle"
    BY <1>1, SMT DEF Running
  <2>1. \A d \in Call : calls[d].step = "idle"
    BY <1>1, Zenon DEF Running
  <2> QED
    BY <1>2, <2>1, ZenonT(40) DEF SameCall
<1>4. Existing(q)' = Existing(q) /\ Existing(calls[c].plugin)' = Existing(q)'
  <2>1. Existing(q)' = Existing(q)
    BY SameExisting, Zenon
  <2>2. calls'[c].plugin = q
    BY <1>1
  <2>3. Existing(calls[c].plugin)' = Existing(q)'
    BY <2>2, Zenon DEF Existing
  <2> QED
    BY <2>1, <2>3
<1>5. CallOK(c)'
  <2>1. calls'[c].step # "idle" /\ calls'[c].step # "upsert"
    BY <1>1, SMT
  <2>2. calls'[c].step \in {"read", "upsert"} <=> calls'[c].kind = "deploy"
    BY <1>1, SMT
  <2>3. calls'[c].plugin \in Plugin /\ calls'[c].t \in Template
    BY <1>1, Zenon
  <2>4. (Existing(calls[c].plugin) \subseteq calls[c].existing)'
    <3>1. Existing(calls[c].plugin)' = calls'[c].existing
      BY <1>1, <1>4, Zenon
    <3> QED
      BY <3>1, Zenon
  <2> QED
    BY <1>3, <2>1, <2>2, <2>3, <2>4, Zenon DEF CallOK
<1>6. CallsOK'
  BY <1>2, <1>5, Zenon DEF CallsOK
<1>7. ASSUME NEW p \in Plugin \ drifted' PROVE Deploying(p)' \/ Sound(p)'
  <2>1. Deploying(p) \/ Sound(p)
    BY Zenon DEF IInv, PluginsOK
  <2>2. CASE Deploying(p)
    <3>1. PICK d \in Call : /\ calls[d].step # "idle" /\ calls[d].kind = "deploy"
                            /\ calls[d].plugin = p
      BY <2>2, Zenon DEF Deploying
    <3>2. Idle.step = "idle"
      BY Zenon DEF Idle
    <3>3. SameCall(d)
      BY <1>2, <3>1, <3>2, Zenon
    <3> QED
      BY <3>1, <3>3, DeployingKept, Zenon
  <2>3. CASE kind = "deploy" /\ p = q
    <3>1. calls'[c].step # "idle"
      BY <1>1, SMT
    <3> QED
      BY <1>1, <2>3, <3>1, Zenon DEF Deploying
  <2>4. CASE Sound(p) /\ template'[p] = template[p]
    <3>1. Quiet(p)
      BY <2>4, Zenon DEF Quiet
    <3> QED
      BY <2>4, <3>1, QuietKept, Zenon
  <2> QED
    BY <2>1, <2>2, <2>3, <2>4, Zenon
<1> QED
  BY <1>6, <1>7, Zenon DEF PluginsOK

(* The end of an import, for all plugins but its own.                      *)
LEMMA EndsKept ==
  ASSUME IInv, NEW c \in Call, NEW reported, NEW clean, calls[c].step # "idle",
         Ended(c, reported, clean),
         \A p \in Plugin : p # calls[c].plugin =>
           /\ calls[c].kind # "wizard" => template'[p] = template[p]
           /\ \A n \in Name : flags'[<<p, n>>] = flags[<<p, n>>],
         calls[c].plugin \in drifted' \/ \A p \in Plugin : p = calls[c].plugin => Sound(p)'
  PROVE  CallsOK' /\ PluginsOK'
<1>1. CallOK(c)'
  <2>1. calls'[c] = Idle
    BY Zenon DEF Ended
  <2>2. Idle.step = "idle" /\ Idle.kind = "save"
    BY Zenon DEF Idle
  <2>3. calls'[c].step = "idle" /\ calls'[c].kind = "save"
    BY <2>1, <2>2, Zenon
  <2>4. ~(calls'[c].step \in {"read", "upsert"}) /\ calls'[c].kind # "deploy"
        /\ calls'[c].step # "transaction" /\ calls'[c].step # "upsert"
    BY <2>3, SMT
  <2> QED
    BY <2>1, <2>3, <2>4, Zenon DEF CallOK
<1>2. \A d \in Call \ {c} : calls'[d] = calls[d] /\ CallOK(d)'
  BY Overlapped, Zenon DEF Ended
<1>3. ASSUME NEW p \in Plugin \ drifted', p # calls[c].plugin PROVE Deploying(p)' \/ Sound(p)'
  <2>1. p \notin drifted /\ calls[c].kind # "wizard"
    BY <1>3, Zenon DEF Ended
  <2>2. CASE Deploying(p)
    <3>1. PICK d \in Call : /\ calls[d].step # "idle" /\ calls[d].kind = "deploy"
                            /\ calls[d].plugin = p
      BY <2>2, Zenon DEF Deploying
    <3>2. calls'[d] = calls[d]
      BY <1>2, <1>3, <3>1, Zenon
    <3> QED
      BY <3>1, <3>2, Zenon DEF Deploying
  <2>3. CASE Sound(p)
    <3>1. \A n \in Name : <<p, n>> \in touched => <<p, n>> \in touched'
      BY <1>3, Zenon DEF Ended
    <3>2. acked'[p] = acked[p]
      BY <1>3, Zenon DEF Ended
    <3>3. Quiet(p)
      BY <1>3, <2>1, <3>1, <3>2, Zenon DEF Quiet
    <3> QED
      BY <2>3, <3>3, QuietKept, Zenon
  <2> QED
    BY <2>1, <2>2, <2>3, Zenon DEF IInv, PluginsOK
<1>4. CallsOK'
  BY <1>1, <1>2, Zenon DEF CallsOK
<1>5. PluginsOK'
  BY <1>3, Zenon DEF PluginsOK
<1> QED
  BY <1>4, <1>5, Zenon

(* The transaction of an import commits: if it met no other import, its    *)
(* catalog is the one its template lists.                                  *)
LEMMA CommitsKept ==
  ASSUME IInv, NEW c \in Call, ImportCommits(c)
  PROVE  CallsOK' /\ PluginsOK'
<1>0. CallOK(c) /\ calls[c].step = "transaction" /\ calls[c].step # "idle"
  BY DEF IInv, CallsOK, ImportCommits
<1>1. Ended(c, TRUE, calls[c].kind # "upload")
  BY <1>0, EndsIs, Zenon DEF ImportCommits
<1>2. PICK q \in Plugin, t \in Template : q = calls[c].plugin /\ t = calls[c].t
  BY <1>0, Zenon DEF CallOK
<1>3. Reconciles(flags, q, Listed(t), calls[c].existing, flags')
  BY <1>2, CommitIs, Zenon
<1>4. calls[c].kind \in {"save", "wizard", "upload"}
  <2>1. calls[c] \in Import
    BY Zenon DEF IInv, Types
  <2>2. calls[c].kind \in {"save", "wizard", "upload", "deploy"}
    BY <2>1, Zenon DEF Import
  <2>3. ~(calls[c].step \in {"read", "upsert"})
    BY <1>0, SMT
  <2> QED
    BY <1>0, <2>2, <2>3, Zenon DEF CallOK
<1>5. \A p \in Plugin : p # q =>
        /\ calls[c].kind # "wizard" => template'[p] = template[p]
        /\ \A n \in Name : flags'[<<p, n>>] = flags[<<p, n>>]
  <2> SUFFICES ASSUME NEW p \in Plugin, p # q
               PROVE  /\ calls[c].kind # "wizard" => template'[p] = template[p]
                      /\ \A n \in Name : flags'[<<p, n>>] = flags[<<p, n>>]
    BY Zenon
  <2>1. calls[c].kind # "wizard" => template'[p] = template[p]
    <3>1. calls[c].kind # "wizard" => p \notin Rows(calls[c].kind, q)
      BY <1>4, SMT DEF Rows
    <3> QED
      BY <1>2, <3>1, Zenon DEF ImportCommits
  <2>2. ASSUME NEW n \in Name PROVE flags'[<<p, n>>] = flags[<<p, n>>]
    <3>1. <<p, n>> \in Flag /\ <<p, n>>[1] # q
      BY DEF Flag, Scope
    <3> QED
      BY <1>3, <3>1, Zenon DEF Reconciles
  <2> QED
    BY <2>1, <2>2, Zenon
<1>6. ASSUME q \notin drifted' PROVE Sound(q)'
  <2>1. calls[c].kind \in {"save", "wizard"} /\ calls[c].alone
    BY <1>1, <1>2, <1>4, <1>6, Zenon DEF Ended
  <2>2. template'[q] = t
    <3>1. q \in Rows(calls[c].kind, q)
      BY <2>1, SMT DEF Rows
    <3> QED
      BY <1>2, <3>1, Zenon DEF ImportCommits
  <2>3. acked'[q] = t
    BY <1>1, <1>2, Zenon DEF Ended
  <2>4. t # NoTemplate
    BY TemplateAssumption, Zenon
  <2>5. ASSUME NEW n \in Name PROVE n \in Existing(q)' <=> n \in Listed(t)
    <3>1. <<q, n>> \in Flag /\ <<q, n>>[1] = q /\ <<q, n>>[2] = n
      BY DEF Flag, Scope
    <3>2. n \in Existing(q) => n \in calls[c].existing
      BY <1>0, <1>2, <2>1, Zenon DEF CallOK
    <3>3. CASE n \in Listed(t)
      BY <1>3, <3>1, <3>3, Zenon DEF Reconciles, Existing
    <3>4. CASE n \notin Listed(t)
      <4>1. IF n \in calls[c].existing /\ flags[<<q, n>>] # NoFlag
            THEN flags'[<<q, n>>].deprecated
            ELSE flags'[<<q, n>>] = flags[<<q, n>>]
        BY <1>3, <3>1, <3>4, Zenon DEF Reconciles
      <4> QED
        BY <3>2, <3>4, <4>1, Zenon DEF Existing
    <3> QED
      BY <3>3, <3>4, Zenon
  <2> QED
    BY <2>2, <2>3, <2>4, <2>5, Zenon DEF Sound
<1> QED
  BY <1>0, <1>1, <1>2, <1>5, <1>6, EndsKept, Zenon

(* A reconciliation that fails leaves its plugin drifted.                  *)
LEMMA FailsKept ==
  ASSUME IInv, NEW c \in Call, ImportVoid(c) \/ DeployCutShort(c)
  PROVE  CallsOK' /\ PluginsOK'
<1>1. calls[c].step # "idle"
  BY Zenon DEF ImportVoid, DeployCutShort
<1>2. PICK reported : Ends(c, reported, FALSE)
  BY Zenon DEF ImportVoid, DeployCutShort
<1>3. Ended(c, reported, FALSE)
  BY <1>1, <1>2, EndsIs, Zenon
<1>4. calls[c].plugin \in drifted'
  BY <1>3, Zenon DEF Ended
<1>5. template' = template /\ flags' = flags
  BY Zenon DEF ImportVoid, DeployCutShort
<1> QED
  BY <1>1, <1>3, <1>4, <1>5, EndsKept, Zenon

(* The API deployment reads the catalog.                                   *)
LEMMA ReadsKept ==
  ASSUME IInv, NEW c \in Call, DeployReads(c)
  PROVE  CallsOK' /\ PluginsOK'
<1>0. /\ CallOK(c) /\ calls[c] \in Import /\ calls[c].step = "read" /\ calls[c].step # "idle"
      /\ calls[c].kind = "deploy" /\ calls \in [Call -> Import]
  BY DEF IInv, Types, CallsOK, CallOK, DeployReads
<1>1. PICK q \in Plugin, t \in Template : q = calls[c].plugin /\ t = calls[c].t
  BY <1>0, Zenon DEF CallOK
<1> DEFINE new == [calls[c] EXCEPT !.step = "upsert", !.existing = Existing(q), !.todo = Listed(t)]
<1>2. calls' = [calls EXCEPT ![c] = new]
  BY <1>1, Zenon DEF DeployReads
<1>3. /\ new.step = "upsert" /\ new.existing = Existing(q) /\ new.todo = Listed(t)
      /\ new.kind = "deploy" /\ new.plugin = q /\ new.t = t /\ new.alone = calls[c].alone
  BY <1>0, <1>1, Zenon DEF Import
<1> HIDE DEF new
<1>4. /\ calls'[c] = new /\ \A d \in Call \ {c} : calls'[d] = calls[d]
  BY <1>0, <1>2, Zenon
<1>5. \A d \in Call \ {c} : CallOK(d)'
  BY <1>0, <1>4, Overlapped, Zenon
<1>6. flags' = flags /\ template' = template /\ acked' = acked /\ touched' = touched
      /\ drifted' = drifted
  BY Zenon DEF DeployReads
<1>7. Existing(calls[c].plugin)' = Existing(q)
  BY <1>3, <1>4, <1>6, Zenon DEF Existing
<1>8. CallOK(c)'
  <2>1. calls'[c].alone => Running' = {c}
    <3> SUFFICES ASSUME calls'[c].alone PROVE Running' = {c}
      OBVIOUS
    <3>1. Running = {c}
      BY <1>0, <1>3, <1>4, Zenon DEF CallOK
    <3>2. \A d \in Call \ {c} : calls'[d].step = "idle"
      BY <1>4, <3>1, Zenon DEF Running
    <3>3. calls'[c].step # "idle"
      BY <1>3, <1>4, SMT
    <3> QED
      BY <3>2, <3>3, SMT DEF Running
  <2>2. /\ calls'[c].step = "upsert" /\ calls'[c].step # "idle" /\ calls'[c].step # "transaction"
        /\ calls'[c].step \in {"read", "upsert"}
    BY <1>3, <1>4, SMT
  <2> QED
    BY <1>3, <1>4, <1>7, <2>1, <2>2, Zenon DEF CallOK
<1>9. CallsOK'
  BY <1>5, <1>8, Zenon DEF CallsOK
<1>10. ASSUME NEW p \in Plugin \ drifted' PROVE Deploying(p)' \/ Sound(p)'
  <2>1. CASE Deploying(p)
    <3>1. PICK d \in Call : /\ calls[d].step # "idle" /\ calls[d].kind = "deploy"
                            /\ calls[d].plugin = p
      BY <2>1, Zenon DEF Deploying
    <3>2. "upsert" # "idle"
      OBVIOUS
    <3>3. calls'[d].step # "idle" /\ calls'[d].kind = "deploy" /\ calls'[d].plugin = p
      BY <1>1, <1>3, <1>4, <3>1, <3>2, Zenon
    <3> QED
      BY <3>3, Zenon DEF Deploying
  <2>2. CASE Sound(p)
    <3>1. Quiet(p)
      BY <1>6, Zenon DEF Quiet
    <3> QED
      BY <2>2, <3>1, QuietKept, Zenon
  <2> QED
    BY <1>6, <2>1, <2>2, Zenon DEF IInv, PluginsOK
<1> QED
  BY <1>9, <1>10, Zenon DEF PluginsOK

(* The API deployment upserts one flag.                                    *)
LEMMA UpsertsKept ==
  ASSUME IInv, NEW c \in Call, DeployUpserts(c)
  PROVE  CallsOK' /\ PluginsOK'
<1>0. /\ CallOK(c) /\ calls[c] \in Import /\ calls[c].step = "upsert" /\ calls[c].step # "idle"
      /\ calls[c].kind = "deploy" /\ calls \in [Call -> Import]
  BY DEF IInv, Types, CallsOK, CallOK, DeployUpserts
<1>1. PICK q \in Plugin, t \in Template : q = calls[c].plugin /\ t = calls[c].t
  BY <1>0, Zenon DEF CallOK
<1>2. PICK n \in calls[c].todo : /\ flags' = Upserted(flags, q, {n})
                                 /\ calls' = [calls EXCEPT ![c].todo = @ \ {n}]
  BY <1>1, Zenon DEF DeployUpserts
<1>n. n \in Listed(t) /\ n \in Name
  BY <1>0, <1>1, TemplateAssumption, Zenon DEF CallOK
<1> DEFINE new == [calls[c] EXCEPT !.todo = calls[c].todo \ {n}]
<1>3. calls' = [calls EXCEPT ![c] = new]
  BY <1>2, Zenon
<1>4. /\ new.step = "upsert" /\ new.existing = calls[c].existing /\ new.todo = calls[c].todo \ {n}
      /\ new.kind = "deploy" /\ new.plugin = q /\ new.t = t /\ new.alone = calls[c].alone
  BY <1>0, <1>1, Zenon DEF Import
<1> HIDE DEF new
<1>5. /\ calls'[c] = new /\ \A d \in Call \ {c} : calls'[d] = calls[d]
  BY <1>0, <1>3, Zenon
<1>6. \A d \in Call \ {c} : CallOK(d)'
  BY <1>0, <1>5, Overlapped, Zenon
<1>7. template' = template /\ acked' = acked /\ touched' = touched /\ drifted' = drifted
  BY Zenon DEF DeployUpserts
<1>8. \A f \in Flag :
        IF f[1] = q /\ f[2] \in {n}
        THEN flags'[f] # NoFlag /\ ~flags'[f].deprecated
        ELSE flags'[f] = flags[f]
  BY <1>2, TableOK, UpsertedIs, SMT
<1>9. \A m \in Name : m \in Existing(q)' <=> m = n \/ m \in Existing(q)
  <2> SUFFICES ASSUME NEW m \in Name PROVE m \in Existing(q)' <=> m = n \/ m \in Existing(q)
    BY Zenon
  <2>1. <<q, m>> \in Flag /\ <<q, m>>[1] = q /\ <<q, m>>[2] = m
    BY DEF Flag, Scope
  <2> QED
    BY <1>8, <2>1, Zenon DEF Existing
<1>10. CallOK(c)'
  <2>1. calls'[c].alone => Running' = {c}
    <3> SUFFICES ASSUME calls'[c].alone PROVE Running' = {c}
      OBVIOUS
    <3>1. Running = {c}
      BY <1>0, <1>4, <1>5, Zenon DEF CallOK
    <3>2. \A d \in Call \ {c} : calls'[d].step = "idle"
      BY <1>5, <3>1, Zenon DEF Running
    <3>3. calls'[c].step # "idle"
      BY <1>4, <1>5, SMT
    <3> QED
      BY <3>2, <3>3, SMT DEF Running
  <2>2. /\ calls'[c].step = "upsert" /\ calls'[c].step # "idle" /\ calls'[c].step # "transaction"
        /\ calls'[c].step \in {"read", "upsert"}
    BY <1>4, <1>5, SMT
  <2>3. Existing(calls[c].plugin)' = Existing(q)'
    BY <1>4, <1>5, Zenon DEF Existing
  <2>4. calls'[c].todo \subseteq Listed(calls'[c].t)
    BY <1>0, <1>1, <1>4, <1>5, Zenon DEF CallOK
  <2>5. calls[c].alone =>
          /\ Listed(t) \ (calls[c].todo \ {n}) \subseteq Existing(q)'
          /\ Existing(q)' \subseteq calls[c].existing \cup Listed(t)
    <3> SUFFICES ASSUME calls[c].alone
                 PROVE  /\ Listed(t) \ (calls[c].todo \ {n}) \subseteq Existing(q)'
                        /\ Existing(q)' \subseteq calls[c].existing \cup Listed(t)
      BY Zenon
    <3>1. /\ Listed(t) \ calls[c].todo \subseteq Existing(q)
          /\ Existing(q) \subseteq calls[c].existing \cup Listed(t)
      BY <1>0, <1>1, Zenon DEF CallOK
    <3>2. Listed(t) \subseteq Name /\ Existing(q)' \subseteq Name
      BY TemplateAssumption, Zenon DEF Existing
    <3>3. Listed(t) \ (calls[c].todo \ {n}) \subseteq Existing(q)'
      BY <1>9, <3>1, <3>2, Zenon
    <3>4. Existing(q)' \subseteq calls[c].existing \cup Listed(t)
      BY <1>9, <1>n, <3>1, <3>2, Zenon
    <3> QED
      BY <3>3, <3>4, Zenon
  <2> QED
    BY <1>4, <1>5, <2>1, <2>2, <2>3, <2>4, <2>5, Zenon DEF CallOK
<1>11. CallsOK'
  BY <1>6, <1>10, Zenon DEF CallsOK
<1>12. ASSUME NEW p \in Plugin \ drifted' PROVE Deploying(p)' \/ Sound(p)'
  <2>0. "upsert" # "idle"
    OBVIOUS
  <2>1. CASE p = q
    BY <1>4, <1>5, <2>0, <2>1, Zenon DEF Deploying
  <2>2. CASE p # q /\ Deploying(p)
    <3>1. PICK d \in Call : /\ calls[d].step # "idle" /\ calls[d].kind = "deploy"
                            /\ calls[d].plugin = p
      BY <2>2, Zenon DEF Deploying
    <3>2. calls'[d] = calls[d]
      BY <1>1, <1>5, <2>2, <3>1, Zenon
    <3> QED
      BY <3>1, <3>2, Zenon DEF Deploying
  <2>3. CASE p # q /\ Sound(p)
    <3>1. ASSUME NEW m \in Name PROVE flags'[<<p, m>>] = flags[<<p, m>>]
      <4>1. <<p, m>> \in Flag /\ <<p, m>>[1] # q
        BY <2>3 DEF Flag, Scope
      <4> QED
        BY <1>8, <4>1, Zenon
    <3>2. Quiet(p)
      BY <1>7, <3>1, Zenon DEF Quiet
    <3> QED
      BY <2>3, <3>2, QuietKept, Zenon
  <2> QED
    BY <1>7, <2>1, <2>2, <2>3, Zenon DEF IInv, PluginsOK
<1> QED
  BY <1>11, <1>12, Zenon DEF PluginsOK

(* The API deployment marks the orphans and is done: if its template was   *)
(* stored and it met no other import, the catalog is the one it lists.     *)
LEMMA MarksKept ==
  ASSUME IInv, NEW c \in Call, DeployMarks(c)
  PROVE  CallsOK' /\ PluginsOK'
<1>0. CallOK(c) /\ calls[c].step = "upsert" /\ calls[c].step # "idle" /\ calls[c].todo = {}
  BY DEF IInv, CallsOK, DeployMarks
<1>1. Ended(c, TRUE, template[calls[c].plugin] = calls[c].t)
  BY <1>0, EndsIs, Zenon DEF DeployMarks
<1>2. PICK q \in Plugin, t \in Template : q = calls[c].plugin /\ t = calls[c].t
  BY <1>0, Zenon DEF CallOK
<1>3. template' = template /\ flags' = Orphaned(flags, q, calls[c].existing \ Listed(t))
  BY <1>2, Zenon DEF DeployMarks
<1>4. \A f \in Flag :
        IF f[1] = q /\ f[2] \in calls[c].existing \ Listed(t) /\ flags[f] # NoFlag
        THEN flags'[f].deprecated ELSE flags'[f] = flags[f]
  BY <1>3, TableOK, OrphanedIs, SMT
<1>5. \A p \in Plugin : p # q => \A n \in Name : flags'[<<p, n>>] = flags[<<p, n>>]
  <2> SUFFICES ASSUME NEW p \in Plugin, p # q, NEW n \in Name
               PROVE  flags'[<<p, n>>] = flags[<<p, n>>]
    BY Zenon
  <2>1. <<p, n>> \in Flag /\ <<p, n>>[1] # q
    BY DEF Flag, Scope
  <2> QED
    BY <1>4, <2>1, Zenon
<1>6. ASSUME q \notin drifted' PROVE Sound(q)'
  <2>1. template[q] = t /\ calls[c].alone
    BY <1>1, <1>2, <1>6, Zenon DEF Ended
  <2>2. acked'[q] = t
    BY <1>1, <1>2, Zenon DEF Ended
  <2>3. t # NoTemplate
    BY TemplateAssumption, Zenon
  <2>4. Listed(t) \subseteq Existing(q) /\ Existing(q) \subseteq calls[c].existing \cup Listed(t)
    BY <1>0, <1>2, <2>1, Zenon DEF CallOK
  <2>5. ASSUME NEW n \in Name PROVE n \in Existing(q)' <=> n \in Listed(t)
    <3>1. <<q, n>> \in Flag /\ <<q, n>>[1] = q /\ <<q, n>>[2] = n
      BY DEF Flag, Scope
    <3>2. IF n \in calls[c].existing \ Listed(t) /\ flags[<<q, n>>] # NoFlag
          THEN flags'[<<q, n>>].deprecated ELSE flags'[<<q, n>>] = flags[<<q, n>>]
      BY <1>4, <3>1, Zenon
    <3> QED
      BY <2>4, <3>2, Zenon DEF Existing
  <2> QED
    BY <1>3, <2>1, <2>2, <2>3, <2>5, Zenon DEF Sound
<1> QED
  BY <1>0, <1>1, <1>2, <1>3, <1>5, <1>6, EndsKept, Zenon

-----------------------------------------------------------------------------
(* The admin's operations keep it too.                                     *)

(* A flag created or deleted: the imports of its plugin may not see it.    *)
LEMMA TouchKept ==
  ASSUME IInv, NEW f \in Flag, FlagCreate(f) \/ FlagDelete(f)
  PROVE  calls' \in [Call -> Import] /\ CallsOK' /\ PluginsOK'
<1>1. /\ template' = template /\ acked' = acked /\ drifted' = drifted
      /\ touched' = touched \cup {f}
      /\ calls' = [c \in Call |-> IF calls[c] # Idle /\ calls[c].plugin = f[1]
                                  THEN [calls[c] EXCEPT !.alone = FALSE] ELSE calls[c]]
  BY Zenon DEF FlagCreate, FlagDelete, Touch
<1>2. flags \in [Flag -> Row] /\ calls \in [Call -> Import]
  BY Zenon DEF IInv, Types
<1>3. /\ ~flags'[f].deprecated
      /\ \A g \in Flag \ {f} : flags'[g] = flags[g]
  <2>1. PICK row \in Row : flags' = [flags EXCEPT ![f] = row] /\ ~row.deprecated
    <3>1. CASE FlagDelete(f)
      BY <3>1, RowFacts, Zenon DEF FlagDelete
    <3>2. CASE FlagCreate(f)
      <4>1. PICK s \in State, g \in Gate :
              flags' = [flags EXCEPT ![f] = [state |-> s, deprecated |-> FALSE, gate |-> g]]
        BY <3>2, Zenon DEF FlagCreate
      <4>2. LET row == [state |-> s, deprecated |-> FALSE, gate |-> g]
            IN row \in Row /\ ~row.deprecated
        BY Zenon DEF Row
      <4> QED
        BY <4>1, <4>2, Zenon
    <3> QED
      BY <3>1, <3>2, Zenon
  <2> QED
    BY <1>2, <2>1, Zenon
<1>4. \A p \in Plugin, n \in Name : <<p, n>> \in Flag /\ <<p, n>>[1] = p
  BY DEF Flag, Scope
<1>5. ASSUME NEW d \in Call
      PROVE  /\ calls'[d] \in Import /\ SameCall(d)
             /\ calls[d] # Idle /\ calls[d].plugin = f[1] => ~calls'[d].alone
  <2>1. calls[d] \in Import
    BY <1>2, Zenon
  <2>2. CASE calls[d] # Idle /\ calls[d].plugin = f[1]
    <3>1. calls'[d] = [calls[d] EXCEPT !.alone = FALSE]
      BY <1>1, <2>2, Zenon
    <3> QED
      BY <2>1, <2>2, <3>1, Zenon DEF SameCall, Import
  <2>3. CASE ~(calls[d] # Idle /\ calls[d].plugin = f[1])
    <3>1. calls'[d] = calls[d]
      BY <1>1, <2>3, Zenon
    <3> QED
      BY <2>1, <2>3, <3>1, Zenon DEF SameCall
  <2> QED
    BY <2>2, <2>3, Zenon
<1>6. calls' \in [Call -> Import]
  <2>1. calls' = [c \in Call |-> calls'[c]]
    BY <1>1, Zenon
  <2> QED
    BY <1>5, <2>1, Zenon
<1>7. Running' = Running
  BY <1>5, Zenon DEF Running, SameCall
<1>8. ASSUME NEW p \in Plugin, p # f[1] PROVE Existing(p)' = Existing(p)
  <2>1. \A n \in Name : flags'[<<p, n>>] = flags[<<p, n>>]
    BY <1>3, <1>4, <1>8, ZenonT(40)
  <2> QED
    BY <2>1, SameExisting, Zenon
<1>9. ASSUME NEW d \in Call PROVE CallOK(d)'
  <2>1. calls'[d].step # "idle" /\ calls'[d].alone => calls[d].plugin # f[1]
    <3>1. Idle.step = "idle"
      BY Zenon DEF Idle
    <3> QED
      BY <1>5, <3>1, Zenon DEF SameCall
  <2> QED
    BY <1>5, <1>7, <1>8, <2>1, SameCallKept, Zenon
<1>10. ASSUME NEW p \in Plugin \ drifted' PROVE Deploying(p)' \/ Sound(p)'
  <2>1. CASE Deploying(p)
    <3>1. PICK d \in Call : calls[d].step # "idle" /\ calls[d].kind = "deploy" /\ calls[d].plugin = p
      BY <2>1, Zenon DEF Deploying
    <3>2. SameCall(d)
      BY <1>5, Zenon
    <3> QED
      BY <3>1, <3>2, DeployingKept, Zenon
  <2>2. CASE Sound(p)
    <3>1. \A n \in Name : <<p, n>> = f \/ flags'[<<p, n>>] = flags[<<p, n>>]
      BY <1>3, <1>4, Zenon
    <3>2. \A n \in Name : <<p, n>> \notin touched' =>
            (n \in Existing(p)' <=> n \in Listed(template'[p]))
      BY <1>1, <2>2, <3>1, Zenon DEF Sound, Existing
    <3>3. template'[p] = NoTemplate => \A n \in Name : ~flags'[<<p, n>>].deprecated
      BY <1>1, <1>3, <2>2, <3>1, Zenon DEF Sound
    <3> QED
      BY <1>1, <2>2, <3>2, <3>3, Zenon DEF Sound
  <2> QED
    BY <1>1, <2>1, <2>2, Zenon DEF IInv, PluginsOK
<1> QED
  BY <1>6, <1>9, <1>10, Zenon DEF CallsOK, PluginsOK

(* A flag's default changed: it stays as active as it was.                 *)
LEMMA UpdateKept ==
  ASSUME IInv, NEW f \in Flag, FlagUpdateDefault(f)
  PROVE  CallsOK' /\ PluginsOK'
<1>1. /\ template' = template /\ acked' = acked /\ drifted' = drifted /\ touched' = touched
      /\ calls' = calls /\ flags[f] # NoFlag
  BY Zenon DEF FlagUpdateDefault
<1>2. PICK s \in State : flags' = [flags EXCEPT ![f].state = s]
  BY Zenon DEF FlagUpdateDefault
<1>3. flags \in [Flag -> Row] /\ flags[f] \in Row
  BY Zenon DEF IInv, Types
<1>4. flags'[f] # NoFlag /\ flags'[f].deprecated = flags[f].deprecated
  <2>1. flags'[f] = [flags[f] EXCEPT !.state = s]
    BY <1>2, <1>3, Zenon
  <2>2. flags'[f].state = s /\ flags'[f].deprecated = flags[f].deprecated
    BY <1>3, <2>1, Zenon DEF Row
  <2>3. s # "absent"
    BY DEF State
  <2> QED
    BY <2>2, <2>3, RowFacts, Zenon
<1>5. \A g \in Flag \ {f} : flags'[g] = flags[g]
  BY <1>2, <1>3, Zenon
<1>6. \A p \in Plugin, n \in Name :
        /\ flags'[<<p, n>>] = NoFlag <=> flags[<<p, n>>] = NoFlag
        /\ flags'[<<p, n>>].deprecated = flags[<<p, n>>].deprecated
  <2>1. \A p \in Plugin, n \in Name : <<p, n>> \in Flag
    BY DEF Flag, Scope
  <2> QED
    BY <1>1, <1>4, <1>5, <2>1, Zenon
<1>7. \A p \in Plugin : Existing(p)' = Existing(p)
  BY <1>6, Zenon DEF Existing
<1>8. ASSUME NEW d \in Call PROVE CallOK(d)'
  <2>1. SameCall(d) /\ Running' = Running
    BY <1>1, Zenon DEF SameCall, Running
  <2> QED
    BY <1>7, <2>1, SameCallKept, Zenon
<1>9. ASSUME NEW p \in Plugin \ drifted' PROVE Deploying(p)' \/ Sound(p)'
  <2>1. CASE Deploying(p)
    BY <1>1, <2>1, Zenon DEF Deploying
  <2>2. CASE Sound(p)
    BY <1>1, <1>6, <1>7, <2>2, Zenon DEF Sound
  <2> QED
    BY <1>1, <2>1, <2>2, Zenon DEF IInv, PluginsOK
<1> QED
  BY <1>8, <1>9, Zenon DEF CallsOK, PluginsOK

-----------------------------------------------------------------------------
(* The invariant is inductive.                                             *)

(* The templates of the start are reconciled with the catalog.             *)
LEMMA InitOK == Init => IInv
<1> SUFFICES ASSUME Init PROVE IInv
  OBVIOUS
<1>0. "transparent" \in State /\ "transparent" # "absent" /\ Global \notin Plugin
  BY PluginAssumption, SMT DEF State, Global
<1>1. template \in [Plugin -> Template \cup {NoTemplate}] /\ acked = template
  BY TemplateAssumption, Zenon DEF Init
<1> DEFINE new == [NoFlag EXCEPT !.state = "transparent"]
<1>2. new \in Row /\ new.state = "transparent" /\ ~new.deprecated
  BY <1>0, RowFacts, Zenon DEF Row
<1>3. new # NoFlag
  BY <1>0, <1>2, RowFacts, Zenon
<1>4. /\ flags = [f \in Flag |-> IF f[1] # Global /\ f[2] \in Listed(template[f[1]])
                                 THEN new ELSE NoFlag]
      /\ admin = [f \in Flag |-> "transparent"]
  BY Zenon DEF Init
<1> HIDE DEF new
<1>5. calls = [c \in Call |-> Idle] /\ touched = {} /\ drifted = {}
  BY Zenon DEF Init
<1>6. Idle \in Import /\ Idle.step = "idle" /\ Idle.kind = "save"
  BY Zenon DEF Idle, Import
<1>7. Types
  BY <1>0, <1>1, <1>2, <1>4, <1>5, <1>6, RowFacts, Zenon DEF Types
<1>8. AdminOK
  BY <1>0, <1>2, <1>3, <1>4, Zenon DEF AdminOK
<1>9. CallsOK
  <2> SUFFICES ASSUME NEW c \in Call PROVE CallOK(c)
    BY Zenon DEF CallsOK
  <2>1. calls[c] = Idle /\ calls[c].step = "idle" /\ calls[c].kind = "save"
    BY <1>5, <1>6, Zenon
  <2>2. /\ calls[c].step \notin {"read", "upsert"} /\ calls[c].kind # "deploy"
        /\ calls[c].step # "transaction" /\ calls[c].step # "upsert"
    BY <2>1, SMT
  <2> QED
    BY <2>1, <2>2, Zenon DEF CallOK
<1>10. PluginsOK
  <2> SUFFICES ASSUME NEW p \in Plugin PROVE Sound(p)
    BY Zenon DEF PluginsOK
  <2>1. \A n \in Name : <<p, n>> \in Flag /\ <<p, n>>[1] = p /\ <<p, n>>[2] = n
    BY DEF Flag, Scope
  <2>2. \A n \in Name : flags[<<p, n>>] = IF n \in Listed(template[p]) THEN new ELSE NoFlag
    BY <1>0, <1>4, <2>1, Zenon
  <2>3. \A n \in Name : /\ n \in Existing(p) <=> n \in Listed(template[p])
                        /\ ~flags[<<p, n>>].deprecated
    BY <1>2, <1>3, <2>2, RowFacts, Zenon DEF Existing
  <2> QED
    BY <1>1, <2>3, Zenon DEF Sound
<1> QED
  BY <1>7, <1>8, <1>9, <1>10, Zenon DEF IInv

(* The templates, reports, imports and marks keep their types.             *)
OtherTypes ==
  /\ template \in [Plugin -> Template \cup {NoTemplate}]
  /\ acked \in [Plugin -> Template \cup {NoTemplate}]
  /\ calls \in [Call -> Import]
  /\ touched \subseteq Flag /\ drifted \subseteq Plugin

(* The end of an import keeps the types.                                   *)
LEMMA EndedTypes ==
  ASSUME IInv, NEW c \in Call, NEW reported, NEW clean, Ended(c, reported, clean)
  PROVE  /\ acked' \in [Plugin -> Template \cup {NoTemplate}]
         /\ calls' \in [Call -> Import]
         /\ touched' \subseteq Flag /\ drifted' \subseteq Plugin
BY Zenon DEF IInv, Types, Ended

(* All steps of imports together.                                          *)
LEMMA CallStepsKept ==
  ASSUME IInv, NEW c \in Call,
         \/ ImportBegins(c) \/ ImportCommits(c) \/ ImportVoid(c)
         \/ DeployBegins(c) \/ DeployReads(c) \/ DeployUpserts(c) \/ DeployMarks(c)
         \/ DeployCutShort(c)
  PROVE  OtherTypes' /\ CallsOK' /\ PluginsOK'
<1>0. OtherTypes
  BY Zenon DEF IInv, Types, OtherTypes
<1>1. CASE ImportBegins(c)
  <2>1. PICK kind \in {"save", "wizard", "upload"}, p \in Plugin, t \in Template :
          calls' = Started(c, kind, p, t, "transaction")
    BY <1>1, Zenon DEF ImportBegins
  <2>2. /\ calls[c] = Idle /\ template' = template /\ flags' = flags /\ acked' = acked
        /\ touched' = touched /\ drifted' = drifted
    BY <1>1, Zenon DEF ImportBegins
  <2>3. /\ kind \in {"save", "wizard", "upload", "deploy"} /\ "transaction" \in {"transaction", "read"}
        /\ "transaction" = "read" <=> kind = "deploy"
    BY SMT
  <2>4. Starts(c, kind, p, t, "transaction")
    BY <2>1, <2>3, StartedIs, Zenon DEF IInv
  <2>5. CallsOK' /\ PluginsOK'
    BY <2>1, <2>2, <2>3, BeginsKept, Zenon
  <2> QED
    BY <1>0, <2>2, <2>4, <2>5, Zenon DEF OtherTypes, Starts
<1>2. CASE DeployBegins(c)
  <2>1. PICK p \in Plugin, t \in Template :
          /\ calls' = Started(c, "deploy", p, t, "read")
          /\ template' \in {[template EXCEPT ![p] = t], template}
    BY <1>2, Zenon DEF DeployBegins
  <2>2. /\ calls[c] = Idle /\ flags' = flags /\ acked' = acked
        /\ touched' = touched /\ drifted' = drifted
    BY <1>2, Zenon DEF DeployBegins
  <2>3. /\ "deploy" \in {"save", "wizard", "upload", "deploy"} /\ "read" \in {"transaction", "read"}
        /\ "read" = "read" <=> "deploy" = "deploy"
    OBVIOUS
  <2>4. /\ template' \in [Plugin -> Template \cup {NoTemplate}]
        /\ \A q \in Plugin : ("deploy" = "deploy" /\ q = p) \/ template'[q] = template[q]
    BY <1>0, <2>1, Zenon DEF OtherTypes
  <2>5. Starts(c, "deploy", p, t, "read")
    BY <2>1, <2>3, StartedIs, Zenon DEF IInv
  <2>6. CallsOK' /\ PluginsOK'
    BY <2>1, <2>2, <2>3, <2>4, BeginsKept, Zenon
  <2> QED
    BY <1>0, <2>2, <2>4, <2>5, <2>6, Zenon DEF OtherTypes, Starts
<1>3. ASSUME calls[c].step # "idle", NEW reported, NEW clean, Ends(c, reported, clean),
             template' \in [Plugin -> Template \cup {NoTemplate}]
      PROVE  OtherTypes'
  BY <1>3, EndsIs, EndedTypes, Zenon DEF OtherTypes
<1>4. CASE ImportCommits(c)
  <2>1. calls[c].step # "idle" /\ calls[c].t \in Template
    <3>1. calls[c].step # "idle"
      BY <1>4, Zenon DEF ImportCommits
    <3> QED
      BY <3>1, Zenon DEF IInv, CallsOK, CallOK
  <2>2. template' \in [Plugin -> Template \cup {NoTemplate}]
    BY <1>0, <1>4, <2>1, Zenon DEF ImportCommits, OtherTypes
  <2>3. Ends(c, TRUE, calls[c].kind # "upload")
    BY <1>4, Zenon DEF ImportCommits
  <2> QED
    BY <1>3, <1>4, <2>1, <2>2, <2>3, CommitsKept, Zenon
<1>5. CASE ImportVoid(c) \/ DeployCutShort(c)
  <2>1. calls[c].step # "idle"
    BY <1>5, Zenon DEF ImportVoid, DeployCutShort
  <2>2. template' = template /\ \E reported : Ends(c, reported, FALSE)
    BY <1>5, Zenon DEF ImportVoid, DeployCutShort
  <2> QED
    BY <1>0, <1>3, <1>5, <2>1, <2>2, FailsKept, Zenon DEF OtherTypes
<1>6. CASE DeployMarks(c)
  <2>1. calls[c].step # "idle"
    BY <1>6 DEF DeployMarks
  <2>2. template' = template /\ Ends(c, TRUE, template[calls[c].plugin] = calls[c].t)
    BY <1>6, Zenon DEF DeployMarks
  <2> QED
    BY <1>0, <1>3, <1>6, <2>1, <2>2, MarksKept, Zenon DEF OtherTypes
<1>7. CASE DeployReads(c)
  <2>1. calls[c] \in Import /\ calls[c].t \in Template /\ calls[c].plugin \in Plugin
    <3>1. calls[c].step # "idle"
      BY <1>7 DEF DeployReads
    <3> QED
      BY <3>1, Zenon DEF IInv, Types, CallsOK, CallOK
  <2>2. Existing(calls[c].plugin) \in SUBSET Name /\ Listed(calls[c].t) \in SUBSET Name
    BY <2>1, TemplateAssumption, Zenon DEF Existing
  <2>3. [calls[c] EXCEPT !.step = "upsert", !.existing = Existing(calls[c].plugin),
                         !.todo = Listed(calls[c].t)] \in Import
    BY <2>1, <2>2, Zenon DEF Import
  <2>4. calls' \in [Call -> Import]
    BY <1>0, <1>7, <2>3, Zenon DEF DeployReads, OtherTypes
  <2> QED
    BY <1>0, <1>7, <2>4, ReadsKept, Zenon DEF DeployReads, OtherTypes
<1>8. CASE DeployUpserts(c)
  <2>1. PICK n \in calls[c].todo : calls' = [calls EXCEPT ![c].todo = @ \ {n}]
    BY <1>8, Zenon DEF DeployUpserts
  <2>2. calls[c] \in Import
    BY Zenon DEF IInv, Types
  <2>3. calls[c].todo \ {n} \in SUBSET Name
    BY <2>2, Zenon DEF Import
  <2>4. [calls[c] EXCEPT !.todo = calls[c].todo \ {n}] \in Import
    BY <2>2, <2>3, Zenon DEF Import
  <2>5. calls' \in [Call -> Import]
    BY <1>0, <2>1, <2>4, Zenon DEF OtherTypes
  <2> QED
    BY <1>0, <1>8, <2>5, UpsertsKept, Zenon DEF DeployUpserts, OtherTypes
<1> QED
  BY <1>1, <1>2, <1>4, <1>5, <1>6, <1>7, <1>8, Zenon

(* Steps that change overrides or cohorts only.                            *)
LEMMA Quiescent ==
  ASSUME IInv, UNCHANGED <<template, flags, calls, acked, touched, drifted>>
  PROVE  OtherTypes' /\ CallsOK' /\ PluginsOK'
<1>1. OtherTypes'
  BY Zenon DEF IInv, Types, OtherTypes
<1>2. CallsOK'
  BY ZenonT(40) DEF IInv, CallsOK, CallOK, Running, Existing
<1>3. PluginsOK'
  <2> SUFFICES ASSUME NEW p \in Plugin \ drifted, Deploying(p) \/ Sound(p)
               PROVE  Deploying(p)' \/ Sound(p)'
    BY Zenon DEF IInv, PluginsOK
  <2>1. Deploying(p) => Deploying(p)'
    BY Zenon DEF Deploying
  <2>2. Quiet(p)
    BY Zenon DEF Quiet
  <2> QED
    BY <2>1, <2>2, QuietKept, Zenon
<1> QED
  BY <1>1, <1>2, <1>3, Zenon

(* Every step keeps the invariant.                                         *)
LEMMA Inductive == IInv /\ [Next]_vars => IInv'
<1> SUFFICES ASSUME IInv, [Next]_vars PROVE IInv'
  OBVIOUS
<1>2. ASSUME NEW f \in Flag, FlagCreate(f) \/ FlagDelete(f)
      PROVE  OtherTypes' /\ CallsOK' /\ PluginsOK'
  <2>1. /\ template' = template /\ acked' = acked /\ drifted' = drifted
        /\ touched' = touched \cup {f}
    BY <1>2, Zenon DEF FlagCreate, FlagDelete, Touch
  <2> QED
    BY <1>2, <2>1, TouchKept, Zenon DEF OtherTypes, IInv, Types
<1>3. ASSUME NEW f \in Flag, FlagUpdateDefault(f)
      PROVE  OtherTypes' /\ CallsOK' /\ PluginsOK'
  BY <1>3, UpdateKept, Zenon DEF FlagUpdateDefault, OtherTypes, IInv, Types
<1>4. ASSUME NEW f \in Flag, FlagAddOverride(f) \/ FlagDeleteOverride(f)
      PROVE  OtherTypes' /\ CallsOK' /\ PluginsOK'
  BY <1>4, Quiescent, Zenon DEF FlagAddOverride, FlagDeleteOverride
<1>5. ASSUME NEW c \in Cohort, CohortDelete(c)
      PROVE  OtherTypes' /\ CallsOK' /\ PluginsOK'
  BY <1>5, Quiescent, Zenon DEF CohortDelete
<1>6. OtherTypes' /\ CallsOK' /\ PluginsOK'
  <2>1. CASE UNCHANGED vars
    BY <2>1, Quiescent, Zenon DEF vars
  <2>2. CASE Next
    BY <1>2, <1>3, <1>4, <1>5, <2>2, CallStepsKept, Zenon DEF Next
  <2> QED
    BY <2>1, <2>2, Zenon
<1>7. flags' \in [Flag -> Row] /\ admin' \in [Flag -> State]
  BY FlagMoves, Zenon DEF Table
<1>8. AdminOK'
  BY AdminKept, Zenon
<1> QED
  BY <1>6, <1>7, <1>8, Zenon DEF IInv, Types, OtherTypes

(* The invariant holds in every state of every run of the imports and the  *)
(* admin's operations.                                                     *)
THEOREM FlagsInvariant == Spec => []IInv
<1>1. Init => IInv
  BY InitOK
<1>2. IInv /\ [Next]_vars => IInv'
  BY Inductive
<1> QED
  BY <1>1, <1>2, PTL DEF Spec

-----------------------------------------------------------------------------
(* What follows from it.                                                   *)

(* The state an admin gave a flag outlives every import, whole, failed or  *)
(* overlapping others: reconcile_catalog_from_template never rewrites it.  *)
THEOREM AdminStates == Spec => []AdminStateKept
<1>1. IInv => AdminStateKept
  BY Zenon DEF IInv, AdminOK, AdminStateKept
<1> QED
  BY <1>1, FlagsInvariant, PTL

(* Between imports, the catalog of a plugin whose last import was whole    *)
(* and alone is the one of the template reported for it.                   *)
THEOREM ImportsEffect == Spec => []ImportsTakeEffect
<1>1. IInv => ImportsTakeEffect
  <2> SUFFICES ASSUME IInv, Running = {}, NEW p \in Plugin \ drifted PROVE Sound(p)
    BY Zenon DEF ImportsTakeEffect, Sound
  <2>1. ~Deploying(p)
    BY Zenon DEF Deploying, Running
  <2> QED
    BY <2>1, Zenon DEF IInv, PluginsOK
<1> QED
  BY <1>1, FlagsInvariant, PTL

(* A feature an admin forced off is not served on: an active flag forces   *)
(* the value, and a deprecated one is of a template that does not list it. *)
THEOREM ForcedOff == Spec => []ForcedOffHolds
<1>1. ASSUME IInv, NEW p \in Plugin, NEW n \in Name, NEW profile \in Profile, NEW v \in Version,
             admin[<<p, n>>] = "off", flags[<<p, n>>].gate = 0,
             flags[<<Global, n>>] = NoFlag, CohortValues(p, v, n) = {},
             p \notin drifted, <<p, n>> \notin touched, ~Deploying(p)
      PROVE  "on" \notin Served(p, profile, v, n)
  <2>1. <<p, n>> \in Flag /\ "off" # "transparent" /\ "off" # "on" /\ "absent" # "on"
    BY DEF Flag, Scope
  <2>2. flags[<<p, n>>] # NoFlag /\ flags[<<p, n>>].state = "off"
    BY <1>1, <2>1, Zenon DEF IInv, AdminOK
  <2>3. Sound(p)
    BY <1>1, Zenon DEF IInv, PluginsOK
  <2>4. \A f \in InScope(p) \X {n} : f = <<Global, n>> \/ f = <<p, n>>
    BY DEF InScope
  <2>5. \A value \in ForcedValues(p, v, n) : value = "off"
    <3>1. NoFlag.state \notin {"on", "off"}
      BY RowFacts, SMT
    <3> QED
      BY <1>1, <2>2, <2>4, <3>1, Zenon DEF ForcedValues
  <2>6. Served(p, profile, v, n)
          = IF ForcedValues(p, v, n) # {} THEN ForcedValues(p, v, n)
            ELSE {IF n \in DOMAIN Toggles(Loaded(p), profile)
                  THEN Toggles(Loaded(p), profile)[n] ELSE "absent"}
    BY <1>1, Zenon DEF Served
  <2>7. CASE ForcedValues(p, v, n) # {}
    BY <2>1, <2>5, <2>6, <2>7, Zenon
  <2>8. CASE ForcedValues(p, v, n) = {}
    <3>1. flags[<<p, n>>].deprecated
      <4>1. <<p, n>> \in InScope(p) \X {n} /\ "off" \in {"on", "off"} /\ ~Gated(0, v)
        BY DEF InScope, Gated
      <4> QED
        BY <1>1, <2>2, <2>8, <4>1, Zenon DEF ForcedValues
    <3>2. template[p] # NoTemplate /\ n \notin Listed(template[p])
      BY <1>1, <2>3, <3>1, Zenon DEF Sound, Existing
    <3>3. Loaded(p) = template[p]
      BY <3>2, Zenon DEF Loaded
    <3>4. n \notin DOMAIN Toggles(template[p], profile)
      <4>1. n \notin DOMAIN template[p].default /\ n \notin DOMAIN template[p].prod
        BY <3>2, Zenon DEF Listed
      <4>2. CASE profile = "prod"
        BY <4>1, <4>2, Zenon DEF Toggles
      <4>3. CASE profile # "prod"
        <5>1. n \notin DOMAIN << >>
          BY SMT
        <5> QED
          BY <4>1, <4>3, <5>1, Zenon DEF Toggles
      <4> QED
        BY <4>2, <4>3, Zenon
    <3> QED
      BY <2>1, <2>6, <2>8, <3>3, <3>4, Zenon
  <2> QED
    BY <2>7, <2>8, Zenon
<1>2. IInv => ForcedOffHolds
  BY <1>1, ZenonT(40) DEF ForcedOffHolds, Deploying
<1> QED
  BY <1>2, FlagsInvariant, PTL

(* What a plugin's devices are served depends on its own template and      *)
(* flags, the global flags and the cohorts: a step that leaves those alone *)
(* changes nothing for them.                                               *)
THEOREM PluginsIsolated == Spec => Isolated
<1>1. ASSUME NEW p \in Plugin, template[p] # NoTemplate, template'[p] = template[p],
             cohorts' = cohorts, NEW n \in Name,
             \A f \in {Global, p} \X Name : flags'[f] = flags[f] /\ overrides'[f] = overrides[f],
             NEW profile \in Profile, NEW v \in Version
      PROVE  Served(p, profile, v, n)' = Served(p, profile, v, n)
  <2>1. \A f \in InScope(p) \X {n} : flags'[f] = flags[f] /\ overrides'[f] = overrides[f]
    <3>1. \A f \in InScope(p) \X {n} : f \in {Global, p} \X Name
      BY DEF InScope
    <3> QED
      BY <1>1, <3>1, Zenon
  <2>2. CohortValues(p, v, n)' = CohortValues(p, v, n)
    <3> DEFINE Holds(f, c, value) ==
                 /\ overrides[f][c].value = value /\ ~flags[f].deprecated
                 /\ ~Gated(flags[f].gate, v) /\ ~Gated(overrides[f][c].gate, v)
    <3>1. \A f \in InScope(p) \X {n}, c \in cohorts, value \in {"on", "off"} :
            Holds(f, c, value)' <=> Holds(f, c, value)
      BY <2>1, ZenonT(40) DEF Gated
    <3>2. /\ CohortValues(p, v, n) = {value \in {"on", "off"} :
                \E f \in InScope(p) \X {n}, c \in cohorts : Holds(f, c, value)}
          /\ CohortValues(p, v, n)' = {value \in {"on", "off"} :
                \E f \in InScope(p) \X {n}, c \in cohorts' : Holds(f, c, value)'}
      BY DEF CohortValues, InScope
    <3> HIDE DEF Holds
    <3> QED
      BY <1>1, <3>1, <3>2, SMT
  <2>3. ForcedValues(p, v, n)' = ForcedValues(p, v, n)
    BY <2>1, ZenonT(40) DEF ForcedValues
  <2>4. Loaded(p)' = template[p] /\ Loaded(p) = template[p]
    <3>1. p \in {q \in Plugin : template[q] # NoTemplate}
      BY <1>1, Zenon
    <3>2. p \in {q \in Plugin : template'[q] # NoTemplate}
      BY <1>1, Zenon
    <3>3. Loaded(p) = template[p]
      BY <3>1, Zenon DEF Loaded
    <3>4. Loaded(p)' = template'[p]
      BY <3>2, Zenon DEF Loaded
    <3> QED
      BY <1>1, <3>3, <3>4, Zenon
  <2>5. Toggles(Loaded(p), profile)' = Toggles(Loaded(p), profile)
    BY <2>4, Zenon DEF Toggles
  <2> QED
    BY <2>2, <2>3, <2>5, Zenon DEF Served
<1>2. [Next]_vars =>
        [\A p \in Plugin :
           (/\ template[p] # NoTemplate /\ template'[p] = template[p]
            /\ cohorts' = cohorts
            /\ \A f \in {Global, p} \X Name : flags'[f] = flags[f] /\ overrides'[f] = overrides[f])
           => \A profile \in Profile, v \in Version, n \in Name :
                Served(p, profile, v, n)' = Served(p, profile, v, n)]_vars
  BY <1>1, Zenon
<1> QED
  BY <1>2, PTL DEF Spec, Isolated
=============================================================================
