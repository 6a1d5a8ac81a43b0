--------------------------- MODULE RolloutProofs ---------------------------
(***************************************************************************)
(* The inductive invariants of Rollout, one of the campaigns' lifecycle    *)
(* and one of the exchanges with the devices, and what follows from them.  *)
(* For any devices, plugins, cohorts, plans, stages and number of          *)
(* campaigns, hours and faults.                                            *)
(***************************************************************************)
EXTENDS Rollout, FiniteSetTheorems, WellFoundedInduction, TLAPS

(* A row of the campaigns table.                                           *)
Row ==
  [status : Statuses, plugin : Plugin \cup {NoPlugin}, of : Plugin, version : Nat,
   rollback : Nat, cohort : Cohort \cup {NoCohort}, stages : Seq([percent : Nat, hours : Nat]),
   hosts : SUBSET Nat, created : Nat, stamp : Nat, seen : SUBSET Nat, hand : BOOLEAN]

Busy == {b \in Admin : calls[b] # Idle}

AdminTypes ==
  /\ campaigns \in Seq(Row)
  /\ calls \in [Admin -> Call \cup {Idle}]
  /\ now \in Nat
  /\ Len(campaigns) + Cardinality(Busy) <= MaxCampaigns

DeviceTypes ==
  /\ inflight = [d \in Device |-> inflight[d]]
  /\ offered = [d \in Device |-> offered[d]]
  /\ installed = [d \in Device |-> installed[d]]
  /\ cds \in [1..MaxCampaigns -> [Device -> {"none", "notified", "updated", "failed"}]]
  /\ via \in [Device -> Campaigns \cup {0}]
  /\ reports \subseteq [campaign : Campaigns, device : Device,
                        status : {"installed", "checksum_error", "deferred"}]

(* The lifecycle of the campaigns.                                         *)
InScope(c, plan) ==
  \/ Scope(plan) = NoPlugin \/ campaigns[c].plugin \in {Scope(plan), NoPlugin}

Lingers(c) == campaigns[c].status = "active" /\ ~campaigns[c].hand

CallOK(a) ==
  calls[a] # Idle =>
    /\ calls[a].plan = Plans[a]
    /\ calls[a].seen \subseteq Campaigns
    /\ calls[a].victims \subseteq calls[a].seen
    /\ calls[a].phase = "commit" => Transactional(calls[a].plan)
    /\ calls[a].phase \in {"match", "complete", "insert"} => ~Transactional(calls[a].plan)
    /\ calls[a].phase \in {"complete", "commit"} /\ calls[a].plan.start = "active" =>
         \A c \in calls[a].seen : Lingers(c) /\ InScope(c, calls[a].plan) => c \in calls[a].victims
    /\ calls[a].phase = "insert" /\ calls[a].plan.start = "active" =>
         \A c \in calls[a].seen : ~(Lingers(c) /\ InScope(c, calls[a].plan))

RowOK(e) ==
  /\ campaigns[e].seen \subseteq Campaigns
  /\ \A i \in DOMAIN campaigns[e].stages : StageEnd(campaigns[e].stages, i) \in Nat
  /\ Lingers(e) => \A c \in campaigns[e].seen : ~(Lingers(c) /\ SameScope(c, e))

AutoOK ==
  \A c \in auto :
    \/ \E e \in Campaigns : c \in campaigns[e].seen
    \/ \E a \in Admin : /\ calls[a] # Idle /\ calls[a].phase = "insert"
                        /\ c \in calls[a].victims
    \/ c \in stranded

(* The exchanges with the devices.  d has been reached by campaign c: every *)
(* stage still running at that time is one whose percentage, or an earlier  *)
(* stage's, covers d.                                                       *)
ReachedAt(rows, time, c, d) ==
  \A i \in DOMAIN rows[c].stages :
    time - rows[c].created < StageEnd(rows[c].stages, i) =>
      \E j \in 1..i : Rank[d] < rows[c].stages[j].percent

Reached(c, d) == ReachedAt(campaigns, now, c, d)

ExchangeOK(d) ==
  /\ inflight[d] # Idle => inflight[d].campaign \in Campaigns /\ Reached(inflight[d].campaign, d)
  /\ offered[d] # None => offered[d].campaign \in Campaigns /\ Reached(offered[d].campaign, d)
  /\ \A c \in 1..MaxCampaigns : cds[c][d] # "none" => c \in Campaigns /\ Reached(c, d)
  /\ \A c \in 1..MaxCampaigns : cds[c][d] = "updated" => <<c, d>> \in done

ReportOK(m) ==
  /\ Reached(m.campaign, m.device)
  /\ m.status = "installed" => <<m.campaign, m.device>> \in done

LastOK(d) ==
  LET c == via[d]
  IN c # 0 /\ <<c, d>> \notin muddled /\ installed[d] = campaigns[c].version =>
       /\ inflight[d] # Idle => inflight[d].campaign # c
       /\ offered[d] # None => offered[d].campaign # c
       /\ \A m \in reports : m.campaign = c /\ m.device = d => m.status = "installed"
       /\ \/ cds[c][d] = "updated"
          \/ \E m \in reports : m.campaign = c /\ m.device = d

AdminInv ==
  /\ AdminTypes /\ AutoOK
  /\ \A a \in Admin : CallOK(a)
  /\ \A e \in Campaigns : RowOK(e)

DeviceInv ==
  /\ DeviceTypes
  /\ \A d \in Device : ExchangeOK(d) /\ LastOK(d)
  /\ \A m \in reports : ReportOK(m)

IInv == AdminInv /\ DeviceInv

-----------------------------------------------------------------------------
(* Least and greatest numbers.                                             *)

(* A call that begins takes the room of one campaign.                      *)
LEMMA RoomTaken ==
  ASSUME NEW n \in Nat, NEW k \in Nat, NEW m \in Nat, n + k < m
  PROVE  n + (k + 1) <= m
  BY SMT

(* One that inserts its row keeps it.                                      *)
LEMMA RoomKept ==
  ASSUME NEW n \in Nat, NEW k \in Nat, NEW m \in Nat, n + k <= m
  PROVE  (n + 1) + (k - 1) <= m
  BY SMT

(* One that fails returns it.                                              *)
LEMMA RoomGiven ==
  ASSUME NEW n \in Nat, NEW k \in Nat, NEW m \in Nat, n + k <= m
  PROVE  n + (k - 1) <= m
  BY SMT

(* A non-empty set of naturals has a least element.                        *)
LEMMA MinIs ==
  ASSUME NEW S, S \subseteq Nat, S # {}
  PROVE  Min(S) \in S /\ \A y \in S : Min(S) <= y
<1>1. PICK x \in S : \A y \in S : ~(<<y, x>> \in OpToRel(<, Nat))
  BY NatLessThanWellFounded, WFMin, Zenon
<1>2. \A y \in S : ~(y < x)
  <2> SUFFICES ASSUME NEW y \in S, y < x PROVE FALSE
    OBVIOUS
  <2>1. <<y, x>> \in Nat \X Nat /\ <<y, x>>[1] = y /\ <<y, x>>[2] = x
    BY SMT
  <2>2. <<y, x>> \in OpToRel(<, Nat)
    BY <2>1, Zenon DEF OpToRel
  <2> QED
    BY <1>1, <2>2, Zenon
<1>3. \A y \in S : x <= y
  BY <1>2, SMT
<1> QED
  BY <1>3, Zenon DEF Min

(* A finite set of naturals is bounded.                                    *)
LEMMA Bounded ==
  ASSUME NEW S, S \subseteq Nat, IsFiniteSet(S)
  PROVE  \E b \in Nat : \A x \in S : x <= b
<1>1. PICK n \in Nat : ExistsBijection(1..n, S)
  BY FS_NatBijection, Zenon
<1>2. PICK f \in [1..n -> S] : \A s \in S : \E i \in 1..n : f[i] = s
  BY <1>1, Zenon DEF ExistsBijection, Bijection, Surjection, Injection
<1> DEFINE Below(k) == \E b \in Nat : \A i \in 1..n : i <= k => f[i] <= b
           T == {k \in Nat : k <= n /\ ~Below(k)}
<1>3. T = {}
  <2> SUFFICES ASSUME T # {} PROVE FALSE
    BY SMTT(30)
  <2>1. Min(T) \in T /\ \A y \in T : Min(T) <= y
    BY MinIs, Zenon
  <2> DEFINE k == Min(T)
  <2>2. k \in Nat /\ k <= n /\ ~Below(k) /\ \A y \in T : k <= y
    BY <2>1, Zenon
  <2> HIDE DEF k
  <2>3. k # 0
    <3>1. Below(0)
      BY SMT
    <3> QED
      BY <2>2, <3>1
  <2>4. k - 1 \in Nat /\ k - 1 <= n /\ ~(k <= k - 1)
    BY <2>2, <2>3, SMT
  <2>5. Below(k - 1)
    BY <2>2, <2>4, Zenon
  <2>6. PICK b \in Nat : \A i \in 1..n : i <= k - 1 => f[i] <= b
    BY <2>5, Zenon
  <2>7. PICK fk \in Nat : fk = f[k]
    <3>1. k \in 1..n
      BY <2>2, <2>3, SMT
    <3> QED
      BY <3>1, Zenon
  <2>8. b + fk \in Nat /\ fk <= b + fk /\ \A x \in Nat : x <= b => x <= b + fk
    BY SMT
  <2>9. Below(k)
    <3>1. \A i \in 1..n : i <= k => i = k \/ i <= k - 1
      BY <2>2, SMT
    <3>2. \A i \in 1..n : i <= k => f[i] <= b + fk
      BY <2>6, <2>7, <2>8, <3>1, Zenon
    <3> QED
      BY <2>8, <3>2, Zenon
  <2> QED
    BY <2>2, <2>9, Zenon
<1>4. Below(n)
  <2>1. n <= n
    BY SMT
  <2> QED
    BY <1>3, <2>1, Zenon
<1>5. PICK b \in Nat : \A i \in 1..n : i <= n => f[i] <= b
  BY <1>4
<1>6. \A i \in 1..n : f[i] <= b
  BY <1>5, SMT
<1> QED
  BY <1>2, <1>6, Zenon

(* ... and has a greatest element.                                         *)
LEMMA MaxIs ==
  ASSUME NEW S, S \subseteq Nat, IsFiniteSet(S), S # {}
  PROVE  Max(S) \in S
<1> DEFINE B == {b \in Nat : \A x \in S : x <= b}
<1>1. B \subseteq Nat /\ B # {}
  BY Bounded, Zenon
<1>2. Min(B) \in B /\ \A y \in B : Min(B) <= y
  BY <1>1, MinIs, Zenon
<1>3. PICK m : m \in Nat /\ (\A x \in S : x <= m) /\ \A y \in B : m <= y
  BY <1>2, Zenon
<1>4. m \in S
  <2> SUFFICES ASSUME m \notin S PROVE FALSE
    OBVIOUS
  <2>1. \A x \in S : x < m
    BY <1>3, SMT
  <2>2. m - 1 \in Nat /\ \A x \in S : x <= m - 1
    <3>1. PICK x \in S : x < m
      BY <2>1, Zenon
    <3>2. m - 1 \in Nat
      BY <1>3, <3>1, SMT
    <3> QED
      BY <1>3, <2>1, <3>2, SMT
  <2>3. m - 1 \in B
    BY <2>2, Zenon
  <2> QED
    BY <1>3, <2>3, SMT
<1>5. \A y \in S : m >= y
  BY <1>3, SMT
<1> QED
  BY <1>4, <1>5, Zenon DEF Max

-----------------------------------------------------------------------------
(* What the pieces of the actions compute.                                 *)

(* The plans of the admins, as the assumptions give them.                  *)
LEMMA PlanIs ==
  ASSUME NEW a \in Admin
  PROVE  /\ Plans[a] \in Request
         /\ \A i \in DOMAIN Plans[a].stages : StageEnd(Plans[a].stages, i) \in Nat
BY PlansAssumption, Zenon

(* A call is a record, and none of its fields is lost.                     *)
LEMMA CallIs ==
  ASSUME AdminInv, NEW a \in Admin, calls[a] # Idle
  PROVE  calls[a] \in Call /\ CallOK(a) /\ calls[a].plan = Plans[a]
BY Zenon DEF AdminInv, AdminTypes, CallOK

(* The campaigns are numbered from 1.                                      *)
LEMMA NumbersAre ==
  ASSUME AdminInv
  PROVE  /\ Len(campaigns) \in Nat /\ Campaigns = 1..Len(campaigns) /\ Campaigns \subseteq Nat
         /\ \A c \in Campaigns : campaigns[c] \in Row
<1>1. campaigns \in Seq(Row)
  BY Zenon DEF AdminInv, AdminTypes
<1> QED
  BY <1>1, SMT DEF Campaigns

(* created_at orders the campaigns by numbers.                             *)
LEMMA StampIs == AdminInv => NextStamp \in Nat
<1> SUFFICES ASSUME AdminInv PROVE NextStamp \in Nat
  OBVIOUS
<1> DEFINE B == {b \in Admin : calls[b] # Idle}
           T == {campaigns[c].stamp : c \in Campaigns}
           U == {calls[b].stamp : b \in B}
           f == [c \in Campaigns |-> campaigns[c].stamp]
           g == [b \in B |-> calls[b].stamp]
<1>1. T \subseteq Nat /\ U \subseteq Nat
  <2>1. \A c \in Campaigns : campaigns[c].stamp \in Nat
    BY NumbersAre, Zenon DEF Row
  <2>2. \A b \in B : calls[b].stamp \in Nat
    BY CallIs, Zenon DEF Call
  <2> QED
    BY <2>1, <2>2, Zenon
<1>2. IsFiniteSet(Campaigns) /\ IsFiniteSet(B)
  <2>1. IsFiniteSet(Campaigns)
    <3>1. Len(campaigns) \in Int /\ 1 \in Int
      BY NumbersAre, SMT
    <3> QED
      BY <3>1, NumbersAre, FS_Interval, Zenon
  <2>2. B \in SUBSET Admin
    BY Zenon
  <2> QED
    BY <2>1, <2>2, PlansAssumption, FS_Subset, Zenon
<1>3. f \in Surjection(Campaigns, T) /\ g \in Surjection(B, U)
  BY Zenon DEF Surjection
<1>4. IsFiniteSet(T) /\ IsFiniteSet(U) /\ IsFiniteSet({0})
  BY <1>2, <1>3, FS_Surjection, FS_Singleton, Zenon
<1>5. IsFiniteSet({0} \cup T)
  BY <1>4, FS_Union, Zenon
<1>6. IsFiniteSet({0} \cup T \cup U)
  BY <1>4, <1>5, FS_Union, Zenon
<1>7. {0} \cup T \cup U \subseteq Nat
  BY <1>1, SMT
<1> DEFINE S == {0} \cup T \cup U
<1>8. S \subseteq Nat /\ IsFiniteSet(S) /\ S # {} /\ NextStamp = 1 + Max(S)
  BY <1>6, <1>7, Zenon DEF NextStamp
<1> HIDE DEF S
<1>9. Max(S) \in Nat
  BY <1>8, MaxIs, Zenon
<1> QED
  BY <1>8, <1>9, SMT

(* What no step changes in a campaign, and that only an admin's hand makes *)
(* it active again.                                                        *)
SameRow(r, s) ==
  /\ s.plugin = r.plugin /\ s.version = r.version /\ s.stages = r.stages
  /\ s.created = r.created /\ s.seen = r.seen
  /\ s.status = "active" /\ ~s.hand => r.status = "active" /\ ~r.hand

(* The table after a step: the campaigns are still there, and more may be. *)
Grows(table, new) ==
  /\ new \in Seq(Row) /\ Len(new) \in Nat /\ DOMAIN new = 1..Len(new)
  /\ Len(table) <= Len(new)
  /\ \A c \in DOMAIN table : c \in DOMAIN new /\ SameRow(table[c], new[c])

(* A table of rows is a sequence.                                          *)
LEMMA TableIs ==
  ASSUME NEW n \in Nat, NEW new, new \in [1..n -> Row]
  PROVE  new \in Seq(Row) /\ Len(new) = n
<1>1. new \in Seq(Row)
  BY SMT
<1> QED
  BY <1>1, SMT

(* A row that changes its status only.                                     *)
LEMMA StatusSet ==
  ASSUME NEW r \in Row, NEW status \in Statuses, NEW hand \in BOOLEAN, NEW s,
         s = [r EXCEPT !.status = status, !.hand = hand]
  PROVE  /\ s \in Row /\ s.status = status /\ s.hand = hand
         /\ s.plugin = r.plugin /\ s.version = r.version /\ s.stages = r.stages
         /\ s.created = r.created /\ s.seen = r.seen
BY Zenon DEF Row

(* The completing UPDATE.                                                  *)
Completes(table, call, new) ==
  /\ new \in Seq(Row) /\ Len(new) = Len(table)
  /\ \A c \in DOMAIN table :
       /\ SameRow(table[c], new[c])
       /\ c \in call.victims => new[c].status # "active"

(* The completing UPDATE keeps every column but the status, and leaves no  *)
(* victim active (create_campaign).                                        *)
LEMMA CompletedIs ==
  ASSUME NEW table \in Seq(Row), NEW call, NEW new, new = Completed(table, call)
  PROVE  Completes(table, call, new)
<1>0. Len(table) \in Nat /\ DOMAIN table = 1..Len(table) /\ \A c \in DOMAIN table : table[c] \in Row
  BY SMT
<1>1. ASSUME NEW c \in DOMAIN table
      PROVE  /\ new[c] \in Row /\ SameRow(table[c], new[c])
             /\ c \in call.victims => new[c].status # "active"
  <2>0. table[c] \in Row /\ "active" \in Completable(call.plan) /\ "completed" # "active"
    BY <1>0 DEF Completable
  <2>1. CASE c \in call.victims /\ table[c].status \in Completable(call.plan)
    <3>1. new[c] = [table[c] EXCEPT !.status = "completed"]
      BY <2>1, Zenon DEF Completed
    <3>2. "completed" \in Statuses
      BY DEF Statuses
    <3>3. /\ new[c] \in Row /\ new[c].status = "completed" /\ new[c].hand = table[c].hand
          /\ new[c].plugin = table[c].plugin /\ new[c].version = table[c].version
          /\ new[c].stages = table[c].stages /\ new[c].created = table[c].created
          /\ new[c].seen = table[c].seen
      BY <2>0, <3>1, <3>2, ZenonT(40) DEF Row
    <3> QED
      BY <2>0, <3>3, Zenon DEF SameRow
  <2>2. CASE ~(c \in call.victims /\ table[c].status \in Completable(call.plan))
    <3>1. new[c] = table[c]
      BY <2>2, Zenon DEF Completed
    <3> QED
      BY <2>0, <2>2, <3>1, Zenon DEF SameRow
  <2> QED
    BY <2>1, <2>2, Zenon
<1>2. new = [c \in 1..Len(table) |-> new[c]]
  BY <1>0, Zenon DEF Completed
<1>3. new \in [1..Len(table) -> Row]
  BY <1>0, <1>1, <1>2, Zenon
<1>4. new \in Seq(Row) /\ Len(new) = Len(table)
  BY <1>0, <1>3, TableIs, Zenon
<1> QED
  BY <1>1, <1>4, Zenon DEF Completes

(* The INSERT.                                                             *)
Inserts(table, call, new) ==
  LET e == Len(table) + 1
  IN /\ new \in Seq(Row) /\ Len(new) = e
     /\ \A c \in DOMAIN table : new[c] = table[c]
     /\ new[e].plugin = Scope(call.plan) /\ new[e].stages = call.plan.stages
     /\ new[e].seen = call.seen /\ ~new[e].hand /\ new[e].status = call.plan.start
     /\ new[e].version = call.plan.version

(* The INSERT adds one row, with what the call asked for and saw.          *)
LEMMA InsertedIs ==
  ASSUME AdminInv, NEW table \in Seq(Row), NEW call \in Call, NEW new, new = Inserted(table, call)
  PROVE  Inserts(table, call, new)
<1> DEFINE row == [status |-> call.plan.start, plugin |-> Scope(call.plan), of |-> call.plan.of,
                   version |-> call.plan.version, rollback |-> call.plan.rollback,
                   cohort |-> IF call.plan.target = "all" THEN NoCohort ELSE call.plan.cohort,
                   stages |-> call.plan.stages, hosts |-> call.plan.hosts,
                   created |-> IF Transactional(call.plan) THEN call.began ELSE now,
                   stamp |-> IF Transactional(call.plan) THEN call.stamp ELSE NextStamp,
                   seen |-> call.seen, hand |-> FALSE]
<1>1. /\ call.plan \in Request /\ call.seen \in SUBSET Nat /\ call.began \in Nat
      /\ call.stamp \in Nat
  BY Zenon DEF Call
<1>2. now \in Nat /\ NextStamp \in Nat
  BY StampIs, Zenon DEF AdminInv, AdminTypes
<1>3. /\ call.plan.start \in Statuses /\ call.plan.of \in Plugin /\ call.plan.version \in Nat
      /\ call.plan.rollback \in Nat /\ call.plan.cohort \in Cohort
      /\ call.plan.stages \in Seq([percent : Nat, hours : Nat]) /\ call.plan.hosts \in SUBSET Nat
  BY <1>1, Zenon DEF Request
<1>4. Scope(call.plan) \in Plugin \cup {NoPlugin}
  BY <1>3, Zenon DEF Scope
<1>5. row \in Row
  BY <1>1, <1>2, <1>3, <1>4, ZenonT(40) DEF Row
<1>6. /\ row.plugin = Scope(call.plan) /\ row.stages = call.plan.stages
      /\ row.seen = call.seen /\ ~row.hand /\ row.status = call.plan.start
      /\ row.version = call.plan.version
  BY Zenon
<1>7. new = Append(table, row)
  BY Zenon DEF Inserted
<1> HIDE DEF row
<1>8. /\ new \in Seq(Row) /\ Len(new) = Len(table) + 1 /\ new[Len(table) + 1] = row
      /\ \A c \in DOMAIN table : new[c] = table[c]
  BY <1>5, <1>7, SMT
<1> QED
  BY <1>6, <1>8, Zenon DEF Inserts

(* The rows a creating call has seen and is to complete.                   *)
Matched(a, m) ==
  /\ m \in Call /\ m.plan = Plans[a] /\ m.victims = AutoCompleted(Plans[a])
  /\ m.seen = Campaigns
  /\ m.phase = IF Transactional(Plans[a]) THEN "commit" ELSE "complete"

(* What a creating call has found when its completing UPDATE begins.       *)
LEMMA MatchingIs ==
  ASSUME AdminInv, NEW a \in Admin, NEW m, m = Matching(Plans[a])
  PROVE  Matched(a, m)
<1>1. AutoCompleted(Plans[a]) \in SUBSET Nat /\ Campaigns \in SUBSET Nat
  BY NumbersAre, Zenon DEF AutoCompleted
<1>2. now \in Nat /\ NextStamp \in Nat /\ 0 \in Nat
  BY StampIs, SMT DEF AdminInv, AdminTypes
<1>3. m \in Call
  BY <1>1, <1>2, PlanIs, Zenon DEF Matching, Call
<1> QED
  BY <1>3, Zenon DEF Matching, Matched

(* Nothing happened to a call but that it need not wait any more.          *)
SameCall(b) ==
  IF calls[b] = Idle THEN calls'[b] = Idle
  ELSE /\ calls'[b] \in Call /\ calls'[b] # Idle
       /\ calls'[b].plan = calls[b].plan /\ calls'[b].phase = calls[b].phase
       /\ calls'[b].victims = calls[b].victims /\ calls'[b].seen = calls[b].seen

(* The end of a call changes nothing of the others but their waiting.      *)
LEMMA ReleasedIs ==
  ASSUME AdminInv, NEW a \in Admin, NEW call \in Call \cup {Idle}, calls' = Released(a, call)
  PROVE  /\ calls' \in [Admin -> Call \cup {Idle}] /\ calls'[a] = call
         /\ \A b \in Admin \ {a} : SameCall(b)
<1>1. calls'[a] = call /\ calls' = [b \in Admin |-> calls'[b]]
  BY Zenon DEF Released
<1>2. ASSUME NEW b \in Admin \ {a} PROVE SameCall(b) /\ calls'[b] \in Call \cup {Idle}
  <2>1. CASE calls[b] = Idle
    BY <2>1, Zenon DEF Released, SameCall
  <2>2. CASE calls[b] # Idle
    <3>1. calls[b] \in Call
      BY <2>2, CallIs, Zenon
    <3>2. calls'[b] = [calls[b] EXCEPT !.waits = calls[b].waits \ {a}]
      BY <2>2, Zenon DEF Released
    <3>3. calls[b].waits \ {a} \in SUBSET Admin
      BY <3>1, Zenon DEF Call
    <3>4. /\ calls'[b] \in Call
          /\ calls'[b].plan = calls[b].plan /\ calls'[b].phase = calls[b].phase
          /\ calls'[b].victims = calls[b].victims /\ calls'[b].seen = calls[b].seen
      BY <3>1, <3>2, <3>3, Zenon DEF Call
    <3> QED
      BY <2>2, <3>4, PlansAssumption, Zenon DEF SameCall
  <2> QED
    BY <2>1, <2>2, Zenon
<1>3. \A b \in Admin : calls'[b] \in Call \cup {Idle}
  BY <1>1, <1>2, Zenon
<1> QED
  BY <1>1, <1>2, <1>3, Zenon

-----------------------------------------------------------------------------
(* What steps of others leave true.                                        *)

(* A campaign stays, and only an admin's hand makes it active again.       *)
LEMMA RowsLinger ==
  ASSUME Grows(campaigns, campaigns'), NEW c \in Campaigns
  PROVE  /\ c \in Campaigns' /\ campaigns'[c].plugin = campaigns[c].plugin
         /\ campaigns'[c].stages = campaigns[c].stages
         /\ campaigns'[c].seen = campaigns[c].seen
         /\ Lingers(c)' => Lingers(c)
BY Zenon DEF Grows, SameRow, Lingers, Campaigns

(* What a call relies on survives what others do to the campaigns.         *)
LEMMA CallFrame ==
  ASSUME AdminInv, Grows(campaigns, campaigns'), NEW b \in Admin, SameCall(b)
  PROVE  CallOK(b)'
<1> SUFFICES ASSUME calls'[b] # Idle PROVE CallOK(b)'
  BY Zenon DEF CallOK
<1>1. /\ calls[b] # Idle /\ calls'[b].plan = calls[b].plan /\ calls'[b].phase = calls[b].phase
      /\ calls'[b].victims = calls[b].victims /\ calls'[b].seen = calls[b].seen
  BY Zenon DEF SameCall
<1>2. CallOK(b)
  BY <1>1, CallIs, Zenon
<1>3. /\ calls'[b].plan = Plans[b] /\ calls'[b].victims \subseteq calls'[b].seen
      /\ calls'[b].phase = "commit" => Transactional(calls'[b].plan)
      /\ calls'[b].phase \in {"match", "complete", "insert"} => ~Transactional(calls'[b].plan)
  BY <1>1, <1>2, Zenon DEF CallOK
<1>4. calls[b].seen \subseteq Campaigns /\ calls'[b].seen \subseteq Campaigns'
  BY <1>1, <1>2, RowsLinger, Zenon DEF CallOK
<1>5. \A c \in calls[b].seen :
        Lingers(c)' /\ InScope(c, calls[b].plan)' => Lingers(c) /\ InScope(c, calls[b].plan)
  <2> SUFFICES ASSUME NEW c \in calls[b].seen, Lingers(c)', InScope(c, calls[b].plan)'
               PROVE  Lingers(c) /\ InScope(c, calls[b].plan)
    BY Zenon
  <2>1. campaigns'[c].plugin = campaigns[c].plugin /\ Lingers(c)
    BY <1>4, RowsLinger, Zenon
  <2>2. Scope(calls'[b].plan) = NoPlugin
          \/ campaigns'[c].plugin \in {Scope(calls'[b].plan), NoPlugin}
    BY Zenon DEF InScope
  <2> QED
    BY <1>1, <2>1, <2>2, Zenon DEF InScope
<1>6. calls'[b].phase \in {"complete", "commit"} /\ calls'[b].plan.start = "active" =>
        \A c \in calls'[b].seen : Lingers(c)' /\ InScope(c, calls[b].plan)' => c \in calls'[b].victims
  BY <1>1, <1>2, <1>5, Zenon DEF CallOK
<1>7. calls'[b].phase = "insert" /\ calls'[b].plan.start = "active" =>
        \A c \in calls'[b].seen : ~(Lingers(c)' /\ InScope(c, calls[b].plan)')
  BY <1>1, <1>2, <1>5, Zenon DEF CallOK
<1> QED
  BY <1>3, <1>4, <1>6, <1>7, Zenon DEF CallOK

(* What a campaign left behind when it was created stays left behind.      *)
LEMMA RowFrame ==
  ASSUME AdminInv, Grows(campaigns, campaigns'), NEW e \in Campaigns
  PROVE  RowOK(e)'
<1>1. RowOK(e)
  BY Zenon DEF AdminInv
<1>2. campaigns[e].seen \subseteq Campaigns /\ campaigns'[e].seen = campaigns[e].seen
      /\ campaigns'[e].stages = campaigns[e].stages /\ campaigns'[e].plugin = campaigns[e].plugin
      /\ (Lingers(e)' => Lingers(e))
  BY <1>1, RowsLinger, Zenon DEF RowOK
<1>3. campaigns'[e].seen \subseteq Campaigns'
  BY <1>2, RowsLinger, Zenon
<1>4. \A i \in DOMAIN campaigns'[e].stages : StageEnd(campaigns'[e].stages, i) \in Nat
  BY <1>1, <1>2, Zenon DEF RowOK
<1>5. Lingers(e)' => \A c \in campaigns'[e].seen : ~(Lingers(c)' /\ SameScope(c, e)')
  <2> SUFFICES ASSUME Lingers(e)', NEW c \in campaigns'[e].seen, Lingers(c)', SameScope(c, e)'
               PROVE  FALSE
    BY Zenon
  <2>1. campaigns'[c].plugin = campaigns[c].plugin /\ Lingers(c)
    BY <1>2, RowsLinger, Zenon
  <2>2. SameScope(c, e)
    BY <1>2, <2>1, Zenon DEF SameScope
  <2> QED
    BY <1>1, <1>2, <2>1, <2>2, Zenon DEF RowOK
<1> QED
  BY <1>3, <1>4, <1>5, Zenon DEF RowOK

(* It is enough to look at the calls that move and at the new rows.        *)
LEMMA AdminStep ==
  ASSUME AdminInv, Grows(campaigns, campaigns'), calls' \in [Admin -> Call \cup {Idle}],
         now' \in Nat, Len(campaigns') + Cardinality(Busy') <= MaxCampaigns, AutoOK',
         \A b \in Admin : SameCall(b) \/ CallOK(b)',
         \A e \in Campaigns' : e \in Campaigns \/ RowOK(e)'
  PROVE  AdminInv'
<1>1. AdminTypes'
  BY Zenon DEF AdminTypes, Grows
<1>2. \A b \in Admin : CallOK(b)'
  BY CallFrame, Zenon
<1>3. \A e \in Campaigns' : RowOK(e)'
  BY RowFrame, Zenon
<1> QED
  BY <1>1, <1>2, <1>3, Zenon DEF AdminInv

(* The calls under way are counted.                                        *)
LEMMA BusyIs ==
  ASSUME AdminInv
  PROVE  /\ IsFiniteSet(Busy) /\ Cardinality(Busy) \in Nat
         /\ Len(campaigns) \in Nat /\ Len(campaigns) + Cardinality(Busy) <= MaxCampaigns
<1>1. IsFiniteSet(Busy)
  <2>1. Busy \in SUBSET Admin
    BY Zenon DEF Busy
  <2> QED
    BY <2>1, PlansAssumption, FS_Subset, Zenon
<1>2. Cardinality(Busy) \in Nat
  BY <1>1, FS_CardinalityType, Zenon
<1> QED
  BY <1>1, <1>2, NumbersAre, Zenon DEF AdminInv, AdminTypes

(* A table that stays as it is.                                            *)
LEMMA SameTable == AdminInv /\ campaigns' = campaigns => Grows(campaigns, campaigns')
<1> SUFFICES ASSUME AdminInv, campaigns' = campaigns PROVE Grows(campaigns, campaigns)
  BY Zenon
<1>1. campaigns \in Seq(Row)
  BY Zenon DEF AdminInv, AdminTypes
<1>2. Len(campaigns) \in Nat /\ DOMAIN campaigns = 1..Len(campaigns) /\ Len(campaigns) <= Len(campaigns)
  BY <1>1, SMT
<1> QED
  BY <1>1, <1>2, Zenon DEF Grows, SameRow

(* Steps that leave the calls and their history alone.                     *)
LEMMA Bystander ==
  ASSUME AdminInv, Grows(campaigns, campaigns'), Len(campaigns') = Len(campaigns),
         calls' = calls, auto' = auto, stranded' = stranded, now' \in Nat
  PROVE  AdminInv'
<1>1. \A b \in Admin : SameCall(b)
  BY CallIs, Zenon DEF SameCall
<1>2. Busy' = Busy
  BY Zenon DEF Busy
<1>3. AutoOK'
  <2>1. AutoOK
    BY Zenon DEF AdminInv
  <2> QED
    BY <2>1, RowsLinger, Zenon DEF AutoOK
<1>4. Campaigns' = Campaigns
  BY NumbersAre, Zenon DEF Grows, Campaigns
<1>5. Len(campaigns') + Cardinality(Busy') <= MaxCampaigns
  BY <1>2, BusyIs, Zenon
<1> QED
  BY <1>1, <1>3, <1>4, <1>5, AdminStep, Zenon DEF AdminInv, AdminTypes

-----------------------------------------------------------------------------
(* Each step of a creating call keeps the lifecycle invariant.             *)

(* A call begins, or the deploy endpoint looks again: it sees all          *)
(* campaigns and is to complete every active one in its scope.             *)
LEMMA MatchKept ==
  ASSUME AdminInv, NEW a \in Admin, NEW m, calls' = [calls EXCEPT ![a] = m], m # Idle,
         \/ Matched(a, m)
         \/ /\ m \in Call /\ m.plan = Plans[a] /\ m.seen = Campaigns /\ m.victims = {}
            /\ m.phase = "match" /\ ~Transactional(Plans[a]),
         \/ calls[a] = Idle /\ Len(campaigns) + Cardinality(Busy) < MaxCampaigns
         \/ calls[a] # Idle /\ calls[a].phase = "match",
         campaigns' = campaigns, auto' = auto, stranded' = stranded, now' = now
  PROVE  AdminInv'
<1>0. calls \in [Admin -> Call \cup {Idle}] /\ m \in Call
  BY Zenon DEF AdminInv, AdminTypes, Matched
<1>1. /\ calls' \in [Admin -> Call \cup {Idle}] /\ calls'[a] = m
      /\ \A b \in Admin \ {a} : calls'[b] = calls[b]
  BY <1>0, Zenon
<1>2. \A b \in Admin \ {a} : SameCall(b)
  BY <1>1, CallIs, ZenonT(40) DEF SameCall
<1>3. CallOK(a)'
  <2>0. /\ m.plan = Plans[a] /\ m.seen = Campaigns /\ m.victims \subseteq Campaigns
        /\ Campaigns' = Campaigns
    BY Zenon DEF Matched, AutoCompleted, Campaigns
  <2>1. CASE Matched(a, m)
    <3>1. m.phase \in {"complete", "commit"} /\ m.phase # "insert"
          /\ (m.phase = "commit" <=> Transactional(Plans[a]))
          /\ (m.phase \in {"match", "complete", "insert"} <=> ~Transactional(Plans[a]))
      BY <2>1, SMT DEF Matched
    <3>2. Plans[a].start = "active" =>
            \A c \in Campaigns : Lingers(c)' /\ InScope(c, Plans[a])' => c \in m.victims
      <4> SUFFICES ASSUME Plans[a].start = "active", NEW c \in Campaigns, Lingers(c)',
                          InScope(c, Plans[a])'
                   PROVE  c \in AutoCompleted(Plans[a])
        BY <2>1, Zenon DEF Matched
      <4>1. campaigns[c].status = "active"
        BY Zenon DEF Lingers
      <4>2. "active" \in Completable(Plans[a])
        BY DEF Completable
      <4>3. Scope(Plans[a]) = NoPlugin \/ campaigns[c].plugin \in {Scope(Plans[a]), NoPlugin}
        BY Zenon DEF InScope
      <4> QED
        BY <4>1, <4>2, <4>3, Zenon DEF AutoCompleted
    <3>3. \A c \in Campaigns : InScope(c, calls[a].plan)' <=> InScope(c, Plans[a])'
      BY <1>1, <2>0, Zenon DEF InScope
    <3> QED
      BY <1>1, <2>0, <3>1, <3>2, <3>3, ZenonT(40) DEF CallOK
  <2>2. CASE m.phase = "match" /\ ~Transactional(Plans[a])
    <3>1. "match" \notin {"complete", "commit"} /\ "match" # "insert" /\ "match" # "commit"
      OBVIOUS
    <3> QED
      BY <1>1, <2>0, <2>2, <3>1, ZenonT(40) DEF CallOK
  <2> QED
    BY <2>1, <2>2, ZenonT(40)
<1>4. AutoOK'
  <2>1. AutoOK
    BY Zenon DEF AdminInv
  <2>2. ~(calls[a] # Idle /\ calls[a].phase = "insert")
    BY SMT
  <2>3. \A b \in Admin : calls[b] # Idle /\ calls[b].phase = "insert" => calls'[b] = calls[b]
    BY <1>1, <2>2, Zenon
  <2> QED
    BY <2>1, <2>3, Zenon DEF AutoOK, Campaigns
<1>5. Len(campaigns') + Cardinality(Busy') <= MaxCampaigns
  <2>1. Busy' = Busy \cup {a} /\ (a \in Busy <=> calls[a] # Idle)
    BY <1>1, Zenon DEF Busy
  <2>2. Cardinality(Busy') = IF a \in Busy THEN Cardinality(Busy) ELSE Cardinality(Busy) + 1
    BY <2>1, BusyIs, FS_AddElement, Zenon
  <2> QED
    BY <2>1, <2>2, BusyIs, PlansAssumption, RoomTaken, Zenon
<1> QED
  BY <1>1, <1>2, <1>3, <1>4, <1>5, SameTable, AdminStep, ZenonT(40)
     DEF AdminInv, AdminTypes, Campaigns

(* Autocommit: the older campaigns are completed, the new one is to come.  *)
LEMMA CompleteKept ==
  ASSUME AdminInv, NEW a \in Admin, CompleteOlder(a)
  PROVE  AdminInv' /\ Grows(campaigns, campaigns')
<1>0. /\ calls[a] # Idle /\ calls[a].phase = "complete" /\ campaigns' = Completed(campaigns, calls[a])
      /\ auto' = auto \cup calls[a].victims /\ calls' = [calls EXCEPT ![a].phase = "insert"]
      /\ stranded' = stranded /\ now' = now
  BY Zenon DEF CompleteOlder
<1>1. calls[a] \in Call /\ CallOK(a) /\ calls \in [Admin -> Call \cup {Idle}]
      /\ campaigns \in Seq(Row)
  BY <1>0, CallIs, Zenon DEF AdminInv, AdminTypes
<1> DEFINE m == [calls[a] EXCEPT !.phase = "insert"]
<1>2. calls' = [calls EXCEPT ![a] = m]
  BY <1>0, Zenon
<1>3. /\ m \in Call /\ m.phase = "insert" /\ m.plan = calls[a].plan
      /\ m.victims = calls[a].victims /\ m.seen = calls[a].seen
  BY <1>1, Zenon DEF Call
<1>4. m # Idle
  BY <1>3, PlansAssumption, Zenon
<1> HIDE DEF m
<1>5. /\ calls' \in [Admin -> Call \cup {Idle}] /\ calls'[a] = m
      /\ \A b \in Admin \ {a} : calls'[b] = calls[b]
  BY <1>1, <1>2, <1>3, Zenon
<1>6. \A b \in Admin \ {a} : SameCall(b)
  BY <1>5, CallIs, Zenon DEF SameCall
<1>7. Completes(campaigns, calls[a], campaigns')
  BY <1>0, <1>1, CompletedIs, Zenon
<1>8. Grows(campaigns, campaigns') /\ Campaigns' = Campaigns
  <2>1. campaigns' \in Seq(Row) /\ Len(campaigns') = Len(campaigns)
    BY <1>7, Zenon DEF Completes
  <2>2. /\ Len(campaigns') \in Nat /\ DOMAIN campaigns' = 1..Len(campaigns')
        /\ Len(campaigns) <= Len(campaigns') /\ DOMAIN campaigns = 1..Len(campaigns)
    BY <1>1, <2>1, SMTT(30)
  <2> QED
    BY <1>7, <2>1, <2>2, Zenon DEF Completes, Grows, Campaigns
<1>9. CallOK(a)'
  <2>1. /\ calls[a].plan = Plans[a] /\ calls[a].seen \subseteq Campaigns
        /\ calls[a].victims \subseteq calls[a].seen /\ ~Transactional(calls[a].plan)
    BY <1>0, <1>1, Zenon DEF CallOK
  <2>2. "insert" # "commit" /\ "insert" \notin {"complete", "commit"}
    OBVIOUS
  <2>3. ASSUME calls[a].plan.start = "active", NEW c \in calls[a].seen, Lingers(c)',
               InScope(c, calls[a].plan)'
        PROVE  FALSE
    <3>1. c \in Campaigns /\ Lingers(c) /\ campaigns'[c].plugin = campaigns[c].plugin
      BY <1>8, <2>1, <2>3, RowsLinger, Zenon
    <3>2. InScope(c, calls[a].plan)
      <4>1. Scope(calls'[a].plan) = NoPlugin
              \/ campaigns'[c].plugin \in {Scope(calls'[a].plan), NoPlugin}
        BY <2>3, Zenon DEF InScope
      <4> QED
        BY <1>3, <1>5, <3>1, <4>1, Zenon DEF InScope
    <3>3. c \in calls[a].victims
      BY <1>0, <1>1, <2>3, <3>1, <3>2, Zenon DEF CallOK
    <3>4. campaigns'[c].status # "active"
      BY <1>7, <3>1, <3>3, Zenon DEF Completes, Campaigns
    <3> QED
      BY <2>3, <3>4, Zenon DEF Lingers
  <2> QED
    BY <1>3, <1>5, <1>8, <2>1, <2>2, <2>3, Zenon DEF CallOK
<1>10. AutoOK'
  <2>1. AutoOK
    BY Zenon DEF AdminInv
  <2>2. calls[a].phase # "insert"
    BY <1>0, SMT
  <2> SUFFICES ASSUME NEW c \in auto'
               PROVE  \/ \E e \in Campaigns' : c \in campaigns'[e].seen
                      \/ \E b \in Admin : /\ calls'[b] # Idle /\ calls'[b].phase = "insert"
                                          /\ c \in calls'[b].victims
                      \/ c \in stranded'
    BY Zenon DEF AutoOK
  <2>3. CASE c \in calls[a].victims
    BY <1>3, <1>4, <1>5, <2>3, Zenon
  <2>4. CASE c \in auto
    <3>1. CASE \E e \in Campaigns : c \in campaigns[e].seen
      BY <1>8, <3>1, RowsLinger, Zenon
    <3>2. CASE \E b \in Admin : calls[b] # Idle /\ calls[b].phase = "insert" /\ c \in calls[b].victims
      BY <1>5, <2>2, <3>2, Zenon
    <3> QED
      BY <1>0, <2>1, <2>4, <3>1, <3>2, Zenon DEF AutoOK
  <2> QED
    BY <1>0, <2>3, <2>4, Zenon
<1>11. Len(campaigns') + Cardinality(Busy') <= MaxCampaigns
  <2>1. Busy' = Busy
    BY <1>0, <1>4, <1>5, Zenon DEF Busy
  <2> QED
    BY <1>7, <2>1, BusyIs, Zenon DEF Completes
<1> QED
  BY <1>0, <1>5, <1>6, <1>8, <1>9, <1>10, <1>11, AdminStep, ZenonT(40) DEF AdminInv, AdminTypes

(* The INSERT, in a transaction with the completing UPDATE or on its own.  *)
LEMMA InsertKept ==
  ASSUME AdminInv, NEW a \in Admin, calls[a] # Idle, NEW table \in Seq(Row),
         Len(table) = Len(campaigns),
         \A c \in Campaigns : SameRow(campaigns[c], table[c]),
         calls[a].plan.start = "active" => \A c \in calls[a].seen :
           ~(/\ table[c].status = "active" /\ ~table[c].hand
             /\ \/ Scope(calls[a].plan) = NoPlugin
                \/ table[c].plugin \in {Scope(calls[a].plan), NoPlugin}),
         campaigns' = Inserted(table, calls[a]),
         calls' \in [Admin -> Call \cup {Idle}], calls'[a] = Idle,
         \A b \in Admin \ {a} : SameCall(b),
         auto' \subseteq auto \cup calls[a].victims, stranded' = stranded, now' = now
  PROVE  AdminInv' /\ Grows(campaigns, campaigns')
<1>0. calls[a] \in Call /\ CallOK(a) /\ calls[a].plan = Plans[a]
  BY CallIs, Zenon
<1>1. Inserts(table, calls[a], campaigns')
  BY <1>0, InsertedIs, Zenon
<1>2. PICK e : e = Len(campaigns) + 1
  BY Zenon
<1>3. /\ campaigns' \in Seq(Row) /\ Len(campaigns') = e
      /\ \A c \in Campaigns : campaigns'[c] = table[c]
      /\ campaigns'[e].plugin = Scope(calls[a].plan) /\ campaigns'[e].stages = calls[a].plan.stages
      /\ campaigns'[e].seen = calls[a].seen /\ ~campaigns'[e].hand
      /\ campaigns'[e].status = calls[a].plan.start
  <2>1. DOMAIN table = Campaigns
    BY NumbersAre, SMT
  <2> QED
    BY <1>1, <1>2, <2>1, Zenon DEF Inserts
<1>4. /\ Campaigns' = Campaigns \cup {e} /\ DOMAIN campaigns' = 1..Len(campaigns')
      /\ Len(campaigns') \in Nat /\ Len(campaigns) <= Len(campaigns')
  <2>1. Len(campaigns) \in Nat /\ Campaigns = 1..Len(campaigns)
    BY NumbersAre, ZenonT(40)
  <2>2. DOMAIN campaigns' = 1..e
    BY <1>3, SMTT(30)
  <2>3. 1..e = (1..Len(campaigns)) \cup {e} /\ e \in Nat /\ Len(campaigns) <= e
    BY <1>2, <2>1, SMTT(30)
  <2> QED
    BY <1>3, <2>1, <2>2, <2>3, Zenon DEF Campaigns
<1>5. Grows(campaigns, campaigns')
  BY <1>3, <1>4, Zenon DEF Grows, Campaigns
<1>6. RowOK(e)'
  <2>1. calls[a].seen \subseteq Campaigns
    BY <1>0, Zenon DEF CallOK
  <2>2. \A i \in DOMAIN campaigns'[e].stages : StageEnd(campaigns'[e].stages, i) \in Nat
    BY <1>0, <1>3, PlanIs, ZenonT(40)
  <2>3. ASSUME Lingers(e)', NEW c \in calls[a].seen, Lingers(c)', SameScope(c, e)' PROVE FALSE
    <3>1. calls[a].plan.start = "active" /\ campaigns'[c] = table[c]
      BY <1>3, <2>1, <2>3, Zenon DEF Lingers
    <3>2. table[c].status = "active" /\ ~table[c].hand
      BY <2>3, <3>1, Zenon DEF Lingers
    <3>3. \/ NoPlugin \in {campaigns'[c].plugin, campaigns'[e].plugin}
          \/ campaigns'[c].plugin = campaigns'[e].plugin
      BY <2>3, Zenon DEF SameScope
    <3> QED
      BY <1>3, <3>1, <3>2, <3>3, Zenon
  <2> QED
    BY <1>3, <1>4, <2>1, <2>2, <2>3, ZenonT(40) DEF RowOK
<1>7. CallOK(a)'
  BY Zenon DEF CallOK
<1>8. AutoOK'
  <2>1. AutoOK /\ calls[a].victims \subseteq calls[a].seen
    BY <1>0, Zenon DEF AdminInv, CallOK
  <2> SUFFICES ASSUME NEW c \in auto'
               PROVE  \/ \E f \in Campaigns' : c \in campaigns'[f].seen
                      \/ \E b \in Admin : /\ calls'[b] # Idle /\ calls'[b].phase = "insert"
                                          /\ c \in calls'[b].victims
                      \/ c \in stranded'
    BY Zenon DEF AutoOK
  <2>2. CASE c \in calls[a].victims
    BY <1>3, <1>4, <2>1, <2>2, ZenonT(40)
  <2>3. CASE c \in auto
    <3>1. CASE \E f \in Campaigns : c \in campaigns[f].seen
      BY <1>5, <3>1, RowsLinger, Zenon
    <3>2. CASE \E b \in Admin \ {a} : /\ calls[b] # Idle /\ calls[b].phase = "insert"
                                      /\ c \in calls[b].victims
      BY <3>2, ZenonT(40) DEF SameCall
    <3> QED
      BY <2>1, <2>2, <2>3, <3>1, <3>2, ZenonT(40) DEF AutoOK
  <2> QED
    BY <2>2, <2>3, Zenon
<1>9. Len(campaigns') + Cardinality(Busy') <= MaxCampaigns
  <2>1. Busy' = Busy \ {a} /\ a \in Busy
    BY ZenonT(40) DEF Busy, SameCall
  <2>2. Cardinality(Busy') = Cardinality(Busy) - 1
    BY <2>1, BusyIs, FS_RemoveElement, Zenon
  <2> QED
    BY <1>2, <1>3, <2>2, BusyIs, PlansAssumption, RoomKept, Zenon
<1> QED
  BY <1>4, <1>5, <1>6, <1>7, <1>8, <1>9, AdminStep, ZenonT(40) DEF AdminInv, AdminTypes

(* One transaction: what it completes and what it inserts appear together. *)
LEMMA CommitKept ==
  ASSUME AdminInv, NEW a \in Admin, Commit(a)
  PROVE  AdminInv' /\ Grows(campaigns, campaigns')
<1>0. /\ calls[a] # Idle /\ calls[a].phase = "commit"
      /\ campaigns' = Inserted(Completed(campaigns, calls[a]), calls[a])
      /\ auto' = auto \cup calls[a].victims /\ calls' = Released(a, Idle)
      /\ stranded' = stranded /\ now' = now
  BY Zenon DEF Commit
<1>1. PICK table : table = Completed(campaigns, calls[a])
  BY Zenon
<1>2. calls[a] \in Call /\ CallOK(a) /\ campaigns \in Seq(Row)
  BY <1>0, CallIs, Zenon DEF AdminInv, AdminTypes
<1>3. Completes(campaigns, calls[a], table)
  BY <1>1, <1>2, CompletedIs, Zenon
<1>4. /\ table \in Seq(Row) /\ Len(table) = Len(campaigns)
      /\ \A c \in Campaigns : /\ SameRow(campaigns[c], table[c])
                              /\ c \in calls[a].victims => table[c].status # "active"
  BY <1>3, Zenon DEF Completes, Campaigns
<1>5. ASSUME calls[a].plan.start = "active", NEW c \in calls[a].seen,
             table[c].status = "active", ~table[c].hand,
             \/ Scope(calls[a].plan) = NoPlugin
             \/ table[c].plugin \in {Scope(calls[a].plan), NoPlugin}
      PROVE  FALSE
  <2>1. c \in Campaigns
    BY <1>0, <1>2, Zenon DEF CallOK
  <2>2. Lingers(c) /\ table[c].plugin = campaigns[c].plugin
    BY <1>4, <1>5, <2>1, Zenon DEF SameRow, Lingers
  <2>3. InScope(c, calls[a].plan)
    BY <1>5, <2>2, Zenon DEF InScope
  <2>4. c \in calls[a].victims
    BY <1>0, <1>2, <1>5, <2>2, <2>3, ZenonT(40) DEF CallOK
  <2> QED
    BY <1>4, <1>5, <2>1, <2>4, ZenonT(40)
<1>6. /\ calls' \in [Admin -> Call \cup {Idle}] /\ calls'[a] = Idle
      /\ \A b \in Admin \ {a} : SameCall(b)
  BY <1>0, ReleasedIs, Zenon
<1>7. campaigns' = Inserted(table, calls[a])
  BY <1>0, <1>1, Zenon
<1> QED
  BY <1>0, <1>4, <1>5, <1>6, <1>7, InsertKept, Zenon

(* Autocommit: the INSERT on its own, after the completing UPDATE.         *)
LEMMA InsertCampaignKept ==
  ASSUME AdminInv, NEW a \in Admin, InsertCampaign(a)
  PROVE  AdminInv' /\ Grows(campaigns, campaigns')
<1>0. /\ calls[a] # Idle /\ calls[a].phase = "insert"
      /\ campaigns' = Inserted(campaigns, calls[a])
      /\ auto' = auto /\ calls' = [calls EXCEPT ![a] = Idle]
      /\ stranded' = stranded /\ now' = now
  BY Zenon DEF InsertCampaign
<1>1. CallOK(a) /\ campaigns \in Seq(Row) /\ calls \in [Admin -> Call \cup {Idle}]
  BY <1>0, CallIs, Zenon DEF AdminInv, AdminTypes
<1>2. \A c \in Campaigns : SameRow(campaigns[c], campaigns[c])
  BY Zenon DEF SameRow
<1>3. ASSUME calls[a].plan.start = "active", NEW c \in calls[a].seen,
             campaigns[c].status = "active", ~campaigns[c].hand,
             \/ Scope(calls[a].plan) = NoPlugin
             \/ campaigns[c].plugin \in {Scope(calls[a].plan), NoPlugin}
      PROVE  FALSE
  BY <1>0, <1>1, <1>3, Zenon DEF CallOK, Lingers, InScope
<1>4. /\ calls' \in [Admin -> Call \cup {Idle}] /\ calls'[a] = Idle
      /\ \A b \in Admin \ {a} : calls'[b] = calls[b]
  BY <1>0, <1>1, Zenon
<1>5. \A b \in Admin \ {a} : SameCall(b)
  BY <1>4, CallIs, Zenon DEF SameCall
<1>6. auto' \subseteq auto \cup calls[a].victims
  BY <1>0, Zenon
<1> QED
  BY <1>0, <1>1, <1>2, <1>3, <1>4, <1>5, <1>6, InsertKept, ZenonT(40)

(* Only the two endpoints that commit every statement on its own are ever  *)
(* between completing the older campaigns and inserting the new one.       *)
LEMMA InsertsAlone ==
  ASSUME AdminInv, NEW a \in Admin, calls[a] # Idle, calls[a].phase = "insert"
  PROVE  calls[a].plan.path \in {"api", "deploy"}
<1>1. ~Transactional(calls[a].plan)
  BY CallIs, Zenon DEF CallOK
<1>2. calls[a].plan.path \in {"form", "wizard", "upload", "api", "deploy"}
  BY CallIs, PlanIs, Zenon DEF Request
<1> QED
  BY <1>1, <1>2, Zenon DEF Transactional

(* A failed call: what an autocommitted one had completed is stranded.     *)
LEMMA FailsKept ==
  ASSUME AdminInv, NEW a \in Admin, CallFails(a)
  PROVE  AdminInv' /\ Grows(campaigns, campaigns')
<1>0. /\ calls[a] # Idle /\ campaigns' = campaigns /\ auto' = auto /\ now' = now
      /\ calls' = Released(a, Idle)
      /\ stranded' = IF calls[a].plan.path \in {"api", "deploy"} /\ calls[a].phase = "insert"
                     THEN stranded \cup calls[a].victims ELSE stranded
  BY Zenon DEF CallFails
<1>1. calls[a] \in Call /\ CallOK(a) /\ calls[a].plan = Plans[a]
  BY <1>0, CallIs, Zenon
<1>2. calls[a].phase = "insert" => calls[a].plan.path \in {"api", "deploy"}
  BY <1>0, InsertsAlone, Zenon
<1>3. /\ stranded \subseteq stranded'
      /\ calls[a].phase = "insert" => calls[a].victims \subseteq stranded'
  BY <1>0, <1>2, Zenon
<1>4. /\ calls' \in [Admin -> Call \cup {Idle}] /\ calls'[a] = Idle
      /\ \A b \in Admin \ {a} : SameCall(b)
  BY <1>0, ReleasedIs, Zenon
<1>5. Grows(campaigns, campaigns')
  BY <1>0, SameTable, Zenon
<1>6. CallOK(a)'
  BY <1>4, Zenon DEF CallOK
<1>7. AutoOK'
  <2>1. AutoOK
    BY Zenon DEF AdminInv
  <2> SUFFICES ASSUME NEW c \in auto'
               PROVE  \/ \E f \in Campaigns' : c \in campaigns'[f].seen
                      \/ \E b \in Admin : /\ calls'[b] # Idle /\ calls'[b].phase = "insert"
                                          /\ c \in calls'[b].victims
                      \/ c \in stranded'
    BY Zenon DEF AutoOK
  <2>2. CASE \E f \in Campaigns : c \in campaigns[f].seen
    BY <1>5, <2>2, RowsLinger, ZenonT(40)
  <2>3. CASE \E b \in Admin \ {a} : /\ calls[b] # Idle /\ calls[b].phase = "insert"
                                    /\ c \in calls[b].victims
    BY <1>4, <2>3, ZenonT(40) DEF SameCall
  <2> QED
    BY <1>0, <1>3, <2>1, <2>2, <2>3, ZenonT(40) DEF AutoOK
<1>8. Len(campaigns') + Cardinality(Busy') <= MaxCampaigns
  <2>1. Busy' = Busy \ {a} /\ a \in Busy
    BY <1>0, <1>4, Zenon DEF Busy, SameCall
  <2>2. Cardinality(Busy') = Cardinality(Busy) - 1
    BY <2>1, BusyIs, FS_RemoveElement, Zenon
  <2> QED
    BY <1>0, <2>2, BusyIs, PlansAssumption, RoomGiven, Zenon
<1>9. Campaigns' = Campaigns /\ now' \in Nat
  BY <1>0, Zenon DEF Campaigns, AdminInv, AdminTypes
<1> QED
  BY <1>4, <1>5, <1>6, <1>7, <1>8, <1>9, AdminStep, ZenonT(40)

(* A call begins: four of the handlers match the older campaigns at once.  *)
LEMMA BeginsKept ==
  ASSUME AdminInv, NEW a \in Admin, NEW path, Ask(a, path), Begins(a)
  PROVE  AdminInv' /\ Grows(campaigns, campaigns')
<1>0. /\ calls[a] = Idle /\ Len(campaigns) + Cardinality(Busy) < MaxCampaigns
      /\ calls' = [calls EXCEPT ![a] = Matching(Plans[a])]
      /\ campaigns' = campaigns /\ auto' = auto /\ stranded' = stranded /\ now' = now
  BY Zenon DEF Ask, Begins, Busy
<1>1. PICK m : m = Matching(Plans[a])
  BY Zenon
<1>2. Matched(a, m)
  BY <1>1, MatchingIs, ZenonT(40)
<1>3. m # Idle
  BY <1>2, PlansAssumption, Zenon DEF Matched
<1>4. calls' = [calls EXCEPT ![a] = m]
  BY <1>0, <1>1, ZenonT(40)
<1> QED
  BY <1>0, <1>2, <1>3, <1>4, MatchKept, SameTable, ZenonT(40)

(* The deploy endpoint publishes first, and has matched nothing yet.       *)
LEMMA AskDeployKept ==
  ASSUME AdminInv, NEW a \in Admin, AskDeploy(a)
  PROVE  AdminInv' /\ Grows(campaigns, campaigns')
<1>0. /\ calls[a] = Idle /\ Len(campaigns) + Cardinality(Busy) < MaxCampaigns
      /\ Plans[a].path = "deploy"
      /\ calls' = [calls EXCEPT ![a] = [Matching(Plans[a]) EXCEPT !.phase = "match",
                                                                  !.victims = {}, !.waits = {}]]
      /\ campaigns' = campaigns /\ auto' = auto /\ stranded' = stranded /\ now' = now
  BY Zenon DEF AskDeploy, Ask, Busy
<1>1. PICK m : m = Matching(Plans[a])
  BY Zenon
<1>2. Matched(a, m)
  BY <1>1, MatchingIs, Zenon
<1>3. PICK k : k = [m EXCEPT !.phase = "match", !.victims = {}, !.waits = {}]
  BY Zenon
<1>4. /\ k \in Call /\ k.plan = Plans[a] /\ k.seen = Campaigns /\ k.victims = {}
      /\ k.phase = "match"
  BY <1>2, <1>3, Zenon DEF Matched, Call
<1>5. ~Transactional(Plans[a])
  BY <1>0, SMT DEF Transactional
<1>6. k # Idle
  BY <1>4, PlansAssumption, ZenonT(40)
<1>7. calls' = [calls EXCEPT ![a] = k]
  BY <1>0, <1>1, <1>3, ZenonT(40)
<1> QED
  BY <1>0, <1>4, <1>5, <1>6, <1>7, MatchKept, SameTable, ZenonT(40)

(* The deploy endpoint's completing UPDATE begins.                         *)
LEMMA DeployMatchesKept ==
  ASSUME AdminInv, NEW a \in Admin, DeployMatches(a)
  PROVE  AdminInv' /\ Grows(campaigns, campaigns')
<1>0. /\ calls[a] # Idle /\ calls[a].phase = "match"
      /\ calls' = [calls EXCEPT ![a] = Matching(Plans[a])]
      /\ campaigns' = campaigns /\ auto' = auto /\ stranded' = stranded /\ now' = now
  BY ZenonT(40) DEF DeployMatches
<1>1. PICK m : m = Matching(Plans[a])
  BY Zenon
<1>2. Matched(a, m)
  BY <1>1, MatchingIs, Zenon
<1>3. m # Idle
  BY <1>2, PlansAssumption, Zenon DEF Matched
<1>4. calls' = [calls EXCEPT ![a] = m]
  BY <1>0, <1>1, ZenonT(40)
<1> QED
  BY <1>0, <1>2, <1>3, <1>4, MatchKept, SameTable, ZenonT(40)

(* Every step of a creating call.                                          *)
LEMMA CreatesKept ==
  ASSUME AdminInv, NEW a \in Admin, Creates(a)
  PROVE  AdminInv' /\ Grows(campaigns, campaigns') /\ now' = now /\ UNCHANGED deviceVars
<1>1. CASE AskForm(a) \/ AskWizard(a) \/ AskUpload(a) \/ AskApi(a)
  <2>1. PICK path : Ask(a, path) /\ Begins(a)
    BY <1>1, Zenon DEF AskForm, AskWizard, AskUpload, AskApi
  <2> QED
    BY <2>1, BeginsKept, Zenon DEF Begins
<1>2. CASE AskDeploy(a)
  BY <1>2, AskDeployKept, Zenon DEF AskDeploy
<1>3. CASE DeployMatches(a)
  BY <1>3, DeployMatchesKept, Zenon DEF DeployMatches
<1>4. CASE CompleteOlder(a)
  BY <1>4, CompleteKept, Zenon DEF CompleteOlder
<1>5. CASE InsertCampaign(a)
  BY <1>5, InsertCampaignKept, Zenon DEF InsertCampaign
<1>6. CASE Commit(a)
  BY <1>6, CommitKept, ZenonT(40) DEF Commit
<1>7. CASE CallFails(a)
  BY <1>7, FailsKept, ZenonT(40) DEF CallFails
<1> QED
  BY <1>1, <1>2, <1>3, <1>4, <1>5, <1>6, <1>7, ZenonT(40) DEF Creates

(* Start, activate, pause, resume, complete and abort: an admin who        *)
(* activates a campaign takes it in hand.                                  *)
LEMMA ActionKept ==
  ASSUME AdminInv, NEW c \in Campaigns, NEW status \in Statuses, CampaignAction(c, status)
  PROVE  AdminInv' /\ Grows(campaigns, campaigns') /\ now' = now /\ UNCHANGED deviceVars
<1>0. /\ calls' = calls /\ auto' = auto /\ stranded' = stranded /\ now' = now
      /\ campaigns' = [campaigns EXCEPT ![c].status = status, ![c].hand = @ \/ status = "active"]
      /\ UNCHANGED deviceVars
  BY Zenon DEF CampaignAction
<1>1. /\ Len(campaigns) \in Nat /\ Campaigns = 1..Len(campaigns)
      /\ \A e \in Campaigns : campaigns[e] \in Row
  BY NumbersAre, Zenon
<1>2. campaigns \in [Campaigns -> Row]
  BY <1>1, SMTT(30) DEF AdminInv, AdminTypes
<1>3. PICK r : r = campaigns[c]
  BY Zenon
<1>4. PICK s : s = [r EXCEPT !.status = status, !.hand = @ \/ status = "active"]
  BY Zenon
<1>5. r \in Row /\ r.hand \in BOOLEAN
  BY <1>1, <1>3, Zenon DEF Row
<1>6. /\ s \in Row /\ s.status = status /\ s.hand = (r.hand \/ status = "active")
      /\ s.plugin = r.plugin /\ s.version = r.version /\ s.stages = r.stages
      /\ s.created = r.created /\ s.seen = r.seen
  <2>1. PICK h \in BOOLEAN : h = (r.hand \/ status = "active")
    BY Zenon
  <2>2. s = [r EXCEPT !.status = status, !.hand = h]
    BY <1>4, <2>1, Zenon
  <2>3. /\ s \in Row /\ s.status = status /\ s.hand = h
        /\ s.plugin = r.plugin /\ s.version = r.version /\ s.stages = r.stages
        /\ s.created = r.created /\ s.seen = r.seen
    BY <1>5, <2>2, Zenon DEF Row
  <2> QED
    BY <2>1, <2>3, Zenon
<1>7. campaigns' = [campaigns EXCEPT ![c] = s]
  BY <1>0, <1>3, <1>4, Zenon
<1>8. campaigns' \in [1..Len(campaigns) -> Row]
  BY <1>1, <1>2, <1>6, <1>7, ZenonT(40)
<1>9. campaigns' \in Seq(Row) /\ Len(campaigns') = Len(campaigns)
  BY <1>1, <1>8, TableIs, ZenonT(40)
<1>10. \A e \in Campaigns : SameRow(campaigns[e], campaigns'[e])
  <2> TAKE e \in Campaigns
  <2>1. CASE e = c
    <3>1. campaigns'[e] = s /\ campaigns[e] = r
      BY <1>2, <1>3, <1>7, <2>1, ZenonT(40)
    <3> QED
      BY <1>6, <3>1, Zenon DEF SameRow
  <2>2. CASE e # c
    <3>1. campaigns'[e] = campaigns[e]
      BY <1>2, <1>7, <2>2, ZenonT(40)
    <3> QED
      BY <3>1, Zenon DEF SameRow
  <2> QED
    BY <2>1, <2>2, ZenonT(40)
<1>11. DOMAIN campaigns' = 1..Len(campaigns') /\ Len(campaigns) <= Len(campaigns')
  BY <1>1, <1>8, <1>9, SMTT(30)
<1>12. Grows(campaigns, campaigns')
  BY <1>1, <1>9, <1>10, <1>11, ZenonT(40) DEF Grows, Campaigns
<1>13. now' \in Nat
  BY <1>0, Zenon DEF AdminInv, AdminTypes
<1> QED
  BY <1>0, <1>9, <1>12, <1>13, Bystander, ZenonT(40)

(* The other admin operations.                                             *)
LEMMA ManagesKept ==
  ASSUME AdminInv, Manages
  PROVE  AdminInv' /\ Grows(campaigns, campaigns') /\ now' = now /\ UNCHANGED deviceVars
<1>1. CASE \E c \in Campaigns, status \in Statuses \ {"draft"} :
             CampaignAction(c, status) \/ ApiCampaignAction(c, status)
  BY <1>1, ActionKept, Zenon DEF ApiCampaignAction
<1>2. CASE /\ campaigns' = campaigns /\ calls' = calls /\ auto' = auto /\ stranded' = stranded
           /\ now' = now /\ UNCHANGED deviceVars
  <2>1. Grows(campaigns, campaigns') /\ Len(campaigns') = Len(campaigns) /\ now' \in Nat
    BY <1>2, SameTable, Zenon DEF AdminInv, AdminTypes
  <2> QED
    BY <1>2, <2>1, Bystander, Zenon
<1> QED
  BY <1>1, <1>2, Zenon DEF Manages, CreateCohort, AddMember, DeleteCohort, WidenCohort

-----------------------------------------------------------------------------
(* The exchanges with the devices.                                         *)

(* What the device side reads of a campaign stays.                         *)
LEMMA RowsKeep ==
  ASSUME Grows(campaigns, campaigns'), NEW c \in Campaigns
  PROVE  /\ c \in Campaigns' /\ campaigns'[c].version = campaigns[c].version
         /\ campaigns'[c].stages = campaigns[c].stages
         /\ campaigns'[c].created = campaigns[c].created
BY Zenon DEF Grows, SameRow, Campaigns

(* A device the stages have reached once stays reached: time only passes.  *)
LEMMA ReachedKept ==
  ASSUME AdminInv, Grows(campaigns, campaigns'), now' \in Nat, now <= now',
         NEW c \in Campaigns, NEW d, Reached(c, d)
  PROVE  Reached(c, d)'
<1>1. now \in Nat /\ campaigns[c].created \in Nat
  BY NumbersAre, Zenon DEF AdminInv, AdminTypes, Row
<1>2. PICK stages, created : stages = campaigns[c].stages /\ created = campaigns[c].created
  BY Zenon
<1>3. campaigns'[c].stages = stages /\ campaigns'[c].created = created
  BY <1>2, RowsKeep, Zenon
<1>4. \A i \in DOMAIN stages : StageEnd(stages, i) \in Nat
  BY <1>2, Zenon DEF AdminInv, RowOK
<1>5. ASSUME NEW i \in DOMAIN stages, now' - created < StageEnd(stages, i)
      PROVE  \E j \in 1..i : Rank[d] < stages[j].percent
  <2>1. PICK n \in Nat : n = StageEnd(stages, i)
    BY <1>4, Zenon
  <2>2. now - created < n
    BY <1>1, <1>2, <1>5, <2>1, SMTT(30)
  <2> QED
    BY <1>2, <2>1, <2>2, Zenon DEF Reached, ReachedAt
<1> QED
  BY <1>3, <1>5, Zenon DEF Reached, ReachedAt

(* The ids of the campaigns are within the bound.                          *)
LEMMA WithinBound == AdminInv => Campaigns \subseteq 1..MaxCampaigns
<1> SUFFICES ASSUME AdminInv PROVE Campaigns \subseteq 1..MaxCampaigns
  OBVIOUS
<1> QED
  BY NumbersAre, BusyIs, PlansAssumption, SMTT(30)

(* Steps of the admins and of time leave the exchanges right.              *)
LEMMA DeviceFrame ==
  ASSUME IInv, Grows(campaigns, campaigns'), now' \in Nat, now <= now', UNCHANGED deviceVars
  PROVE  DeviceInv'
<1>0. /\ installed' = installed /\ inflight' = inflight /\ offered' = offered
      /\ reports' = reports /\ cds' = cds /\ done' = done /\ via' = via /\ muddled' = muddled
  BY Zenon DEF deviceVars
<1>1. AdminInv /\ DeviceInv
  BY Zenon DEF IInv
<1>2. \A c \in Campaigns : c \in Campaigns' /\ \A d : Reached(c, d) => Reached(c, d)'
  BY <1>1, ReachedKept, RowsKeep, ZenonT(40)
<1>3. DeviceTypes'
  <2>1. via \in [Device -> Campaigns' \cup {0}]
    BY <1>1, <1>2, Zenon DEF DeviceInv, DeviceTypes
  <2>2. reports \subseteq [campaign : Campaigns', device : Device,
                           status : {"installed", "checksum_error", "deferred"}]
    <3> SUFFICES ASSUME NEW m \in reports
                 PROVE  m \in [campaign : Campaigns', device : Device,
                               status : {"installed", "checksum_error", "deferred"}]
      BY Zenon
    <3>1. m \in [campaign : Campaigns, device : Device,
                 status : {"installed", "checksum_error", "deferred"}]
      BY <1>1, Zenon DEF DeviceInv, DeviceTypes
    <3> QED
      BY <1>2, <3>1, Zenon
  <2> QED
    BY <1>0, <1>1, <2>1, <2>2, ZenonT(40) DEF DeviceInv, DeviceTypes
<1>4. ASSUME NEW d \in Device PROVE ExchangeOK(d)'
  <2>1. ExchangeOK(d)
    BY <1>1, Zenon DEF DeviceInv
  <2>2. (inflight[d] # Idle =>
           inflight[d].campaign \in Campaigns /\ Reached(inflight[d].campaign, d))'
    BY <1>0, <1>2, <2>1, Zenon DEF ExchangeOK, Reached
  <2>3. (offered[d] # None =>
           offered[d].campaign \in Campaigns /\ Reached(offered[d].campaign, d))'
    BY <1>0, <1>2, <2>1, ZenonT(40) DEF ExchangeOK, Reached
  <2>4. \A c \in 1..MaxCampaigns : cds'[c][d] # "none" => c \in Campaigns' /\ Reached(c, d)'
    BY <1>0, <1>2, <2>1, ZenonT(40) DEF ExchangeOK
  <2>5. \A c \in 1..MaxCampaigns : cds'[c][d] = "updated" => <<c, d>> \in done'
    BY <1>0, <2>1, ZenonT(40) DEF ExchangeOK
  <2> QED
    BY <2>2, <2>3, <2>4, <2>5, ZenonT(40) DEF ExchangeOK
<1>5. ASSUME NEW d \in Device PROVE LastOK(d)'
  <2>1. via[d] # 0 => campaigns'[via[d]].version = campaigns[via[d]].version
    BY <1>1, RowsKeep, Zenon DEF DeviceInv, DeviceTypes
  <2> QED
    BY <1>0, <1>1, <2>1, ZenonT(40) DEF DeviceInv, LastOK
<1>6. ASSUME NEW m \in reports' PROVE ReportOK(m)'
  BY <1>0, <1>1, <1>2, Zenon DEF DeviceInv, DeviceTypes, ReportOK
<1> QED
  BY <1>3, <1>4, <1>5, <1>6, ZenonT(40) DEF DeviceInv

(* One device's entry is written, the others stay.                         *)
Sets(f, e, x, new) ==
  /\ new = [d \in Device |-> new[d]] /\ new[e] = x
  /\ \A d \in Device : d # e => new[d] = f[d]

(* Writing one device's entry.                                             *)
LEMMA SetIs ==
  ASSUME NEW f, f = [d \in Device |-> f[d]], NEW e \in Device, NEW x,
         NEW new, new = [f EXCEPT ![e] = x]
  PROVE  Sets(f, e, x, new)
<1>1. DOMAIN f = Device
  BY Zenon
<1>2. \A d \in Device : new[d] = IF d = e THEN x ELSE f[d]
  BY <1>1, Zenon
<1>3. new = [d \in Device |-> new[d]]
  BY <1>1, Zenon
<1> QED
  BY <1>2, <1>3, Zenon DEF Sets

CdsType == [1..MaxCampaigns -> [Device -> {"none", "notified", "updated", "failed"}]]

(* One row of campaign_device_status is written, the others stay.          *)
Writes(table, e, d, s, new) ==
  /\ new \in CdsType /\ new[e][d] = s
  /\ \A c \in 1..MaxCampaigns, x \in Device : c # e \/ x # d => new[c][x] = table[c][x]

(* The upsert of campaign_device_status.                                   *)
LEMMA WriteIs ==
  ASSUME NEW table \in CdsType, NEW e \in 1..MaxCampaigns, NEW d \in Device,
         NEW s \in {"none", "notified", "updated", "failed"},
         NEW new, new = [table EXCEPT ![e][d] = s]
  PROVE  Writes(table, e, d, s, new)
<1>1. PICK row : row = [table[e] EXCEPT ![d] = s]
  BY Zenon
<1>2. table[e] \in [Device -> {"none", "notified", "updated", "failed"}]
  BY Zenon DEF CdsType
<1>3. /\ row \in [Device -> {"none", "notified", "updated", "failed"}] /\ row[d] = s
      /\ \A x \in Device : x # d => row[x] = table[e][x]
  BY <1>1, <1>2, Zenon
<1>4. new = [table EXCEPT ![e] = row]
  BY <1>1, Zenon
<1>5. /\ new \in CdsType /\ new[e] = row
      /\ \A c \in 1..MaxCampaigns : c # e => new[c] = table[c]
  BY <1>3, <1>4, ZenonT(40) DEF CdsType
<1>6. \A c \in 1..MaxCampaigns, x \in Device : c # e \/ x # d => new[c][x] = table[c][x]
  BY <1>3, <1>5, ZenonT(40)
<1> QED
  BY <1>3, <1>5, <1>6, ZenonT(40) DEF Writes

(* A device the staged rollout lets through has been reached: the stage    *)
(* that counts is the first that is still running.                         *)
LEMMA EligibleReached ==
  ASSUME AdminInv, NEW c \in Campaigns, NEW d, Eligible(c, d)
  PROVE  Reached(c, d)
<1>1. PICK stages, created : stages = campaigns[c].stages /\ created = campaigns[c].created
  BY Zenon
<1> DEFINE open == {i \in DOMAIN stages : now - created < StageEnd(stages, i) \/ stages[i].percent = 100}
<1>2. Rank[d] < IF open = {} THEN 100 ELSE stages[Min(open)].percent
  BY <1>1, ZenonT(40) DEF Eligible, RolloutPercent
<1>3. ASSUME NEW i \in DOMAIN stages, now - created < StageEnd(stages, i)
      PROVE  \E j \in 1..i : Rank[d] < stages[j].percent
  <2>1. i \in open
    BY <1>3, Zenon
  <2>2. stages \in Seq([percent : Nat, hours : Nat])
    BY <1>1, NumbersAre, Zenon DEF Row
  <2>3. DOMAIN stages \subseteq Nat /\ \A j \in DOMAIN stages : j >= 1
    BY <2>2, SMTT(30)
  <2>4. open \subseteq Nat /\ open # {} /\ \A j \in open : j >= 1
    BY <2>1, <2>3, ZenonT(40)
  <2>5. Rank[d] < stages[Min(open)].percent
    BY <1>2, <2>4, Zenon
  <2> HIDE DEF open
  <2>6. Min(open) \in open /\ Min(open) <= i
    BY <2>1, <2>4, MinIs, Zenon
  <2>7. PICK j \in Nat : j = Min(open)
    BY <2>4, <2>6, ZenonT(40)
  <2>8. i \in Nat /\ j >= 1 /\ j <= i
    BY <2>1, <2>4, <2>6, <2>7, ZenonT(40)
  <2>9. j \in 1..i
    BY <2>8, SMTT(30)
  <2> QED
    BY <2>5, <2>7, <2>9, Zenon
<1> QED
  BY <1>1, <1>3, Zenon DEF Reached, ReachedAt

(* A directive names its campaign and another version than the device's.   *)
LEMMA DirectiveIs ==
  ASSUME NEW c, NEW d, NEW v, Directive(c, d, v) # None
  PROVE  Directive(c, d, v).campaign = c /\ Eligible(c, d) /\ v # campaigns[c].version
BY Zenon DEF Directive

(* GET /config: the device is reached, and does not run the version yet.   *)
LEMMA CheckInKept ==
  ASSUME IInv, NEW d \in Device, NEW c \in Campaigns, CheckIn(d, c)
  PROVE  DeviceInv'
<1>0. /\ campaigns' = campaigns /\ now' = now
      /\ installed' = installed /\ offered' = offered /\ reports' = reports /\ cds' = cds
      /\ done' = done /\ via' = via /\ muddled' = muddled
      /\ Directive(c, d, installed[d]) # None
      /\ inflight' = [inflight EXCEPT ![d] = Directive(c, d, installed[d])]
  BY Zenon DEF CheckIn, adminVars
<1>1. AdminInv /\ DeviceInv /\ DeviceTypes
  BY Zenon DEF IInv, DeviceInv
<1>2. PICK dir : dir = Directive(c, d, installed[d])
  BY Zenon
<1>3. dir.campaign = c /\ Reached(c, d) /\ installed[d] # campaigns[c].version
  <2>1. PICK v : v = installed[d]
    BY Zenon
  <2>2. Directive(c, d, v) # None /\ dir = Directive(c, d, v)
    BY <1>0, <1>2, <2>1, ZenonT(40)
  <2>3. dir.campaign = c /\ Eligible(c, d) /\ v # campaigns[c].version
    BY <2>2, DirectiveIs, ZenonT(40)
  <2> QED
    BY <1>1, <2>1, <2>3, EligibleReached, ZenonT(40)
<1>4. Sets(inflight, d, dir, inflight')
  BY <1>0, <1>1, <1>2, SetIs, Zenon DEF DeviceTypes
<1>5. DeviceTypes' /\ Campaigns' = Campaigns
  BY <1>0, <1>1, <1>4, Zenon DEF DeviceTypes, Campaigns, Sets
<1>6. ASSUME NEW x \in Device PROVE ExchangeOK(x)'
  <2>1. ExchangeOK(x)
    BY <1>1, Zenon DEF DeviceInv
  <2>2. (inflight[x] # Idle =>
           inflight[x].campaign \in Campaigns /\ Reached(inflight[x].campaign, x))'
    <3>1. CASE x = d
      <4>1. inflight'[x] = dir
        BY <1>4, <3>1, Zenon DEF Sets
      <4>2. inflight'[x].campaign = c
        BY <1>3, <4>1, Zenon
      <4>3. ReachedAt(campaigns', now', c, x)
        BY <1>0, <1>3, <3>1, Zenon DEF Reached
      <4> QED
        BY <1>5, <4>2, <4>3, ZenonT(40) DEF Reached
    <3>2. CASE x # d
      <4>1. inflight'[x] = inflight[x]
        BY <1>4, <3>2, Zenon DEF Sets
      <4>2. inflight[x] # Idle => /\ inflight[x].campaign \in Campaigns
                                  /\ ReachedAt(campaigns', now', inflight[x].campaign, x)
        BY <1>0, <2>1, Zenon DEF ExchangeOK, Reached
      <4> QED
        BY <1>5, <4>1, <4>2, Zenon DEF Reached
    <3> QED
      BY <3>1, <3>2, Zenon
  <2> QED
    BY <1>0, <1>5, <2>1, <2>2, ZenonT(40) DEF ExchangeOK, Reached
<1>7. ASSUME NEW x \in Device PROVE LastOK(x)'
  <2>1. LastOK(x)
    BY <1>1, Zenon DEF DeviceInv
  <2>2. CASE x = d
    <3>1. inflight'[x] = dir
      BY <1>4, <2>2, Zenon DEF Sets
    <3>2. installed[x] = campaigns[via[x]].version => via[x] # dir.campaign
      BY <1>3, <2>2, Zenon
    <3> QED
      BY <1>0, <2>1, <3>1, <3>2, ZenonT(40) DEF LastOK
  <2>3. CASE x # d
    <3>1. inflight'[x] = inflight[x]
      BY <1>4, <2>3, Zenon DEF Sets
    <3> QED
      BY <1>0, <2>1, <3>1, ZenonT(40) DEF LastOK
  <2> QED
    BY <2>2, <2>3, Zenon
<1>8. ASSUME NEW m \in reports' PROVE ReportOK(m)'
  BY <1>0, <1>1, Zenon DEF DeviceInv, ReportOK, Reached
<1> QED
  BY <1>5, <1>6, <1>7, <1>8, ZenonT(40) DEF DeviceInv

(* 'notified' is written, and the answer arrives or is lost.  A device     *)
(* whose last install is undisturbed has no check-in about it under way,   *)
(* so its 'updated' is not overwritten.                                    *)
LEMMA NotifyKept ==
  ASSUME IInv, NEW d \in Device, Notify(d) \/ NotifyInVain(d)
  PROVE  DeviceInv'
<1>0. /\ campaigns' = campaigns /\ now' = now
      /\ installed' = installed /\ reports' = reports
      /\ done' = done /\ via' = via /\ muddled' = muddled
      /\ inflight[d] # Idle
      /\ cds' = [cds EXCEPT ![inflight[d].campaign][d] = "notified"]
      /\ inflight' = [inflight EXCEPT ![d] = Idle]
      /\ offered' = offered \/ offered' = [offered EXCEPT ![d] = inflight[d]]
  BY Zenon DEF Notify, NotifyInVain, adminVars
<1>1. AdminInv /\ DeviceInv /\ DeviceTypes /\ cds \in CdsType
  BY Zenon DEF IInv, DeviceInv, DeviceTypes, CdsType
<1>2. PICK dir : dir = inflight[d]
  BY Zenon
<1>3. PICK e : e = dir.campaign
  BY Zenon
<1>4. e \in Campaigns /\ e \in 1..MaxCampaigns /\ Reached(e, d)
  BY <1>0, <1>1, <1>2, <1>3, WithinBound, ZenonT(40) DEF DeviceInv, ExchangeOK
<1>5. Writes(cds, e, d, "notified", cds')
  <2>1. cds' = [cds EXCEPT ![e][d] = "notified"]
    BY <1>0, <1>2, <1>3, ZenonT(40)
  <2> QED
    BY <1>1, <1>4, <2>1, WriteIs, ZenonT(40)
<1>6. Sets(inflight, d, Idle, inflight')
  BY <1>0, <1>1, SetIs, ZenonT(40) DEF DeviceTypes
<1>7. offered' = offered \/ Sets(offered, d, dir, offered')
  BY <1>0, <1>1, <1>2, SetIs, ZenonT(40) DEF DeviceTypes
<1>8. DeviceTypes' /\ Campaigns' = Campaigns
  BY <1>0, <1>1, <1>5, <1>6, <1>7, ZenonT(40) DEF DeviceTypes, Campaigns, Sets, Writes, CdsType
<1>9. ASSUME NEW x \in Device PROVE ExchangeOK(x)'
  <2>1. ExchangeOK(x)
    BY <1>1, Zenon DEF DeviceInv
  <2>2. (inflight[x] # Idle =>
           inflight[x].campaign \in Campaigns /\ Reached(inflight[x].campaign, x))'
    BY <1>0, <1>6, <1>8, <2>1, ZenonT(40) DEF ExchangeOK, Reached, Sets
  <2>3. (offered[x] # None =>
           offered[x].campaign \in Campaigns /\ Reached(offered[x].campaign, x))'
    <3>1. offered'[x] = offered[x] \/ (x = d /\ offered'[x] = dir)
      BY <1>7, Zenon DEF Sets
    <3>2. CASE offered'[x] = offered[x]
      BY <1>0, <1>8, <2>1, <3>2, ZenonT(40) DEF ExchangeOK, Reached
    <3>3. CASE x = d /\ offered'[x] = dir
      BY <1>0, <1>3, <1>4, <1>8, <3>3, ZenonT(40) DEF Reached
    <3> QED
      BY <3>1, <3>2, <3>3, Zenon
  <2>4. ASSUME NEW c \in 1..MaxCampaigns
        PROVE  /\ cds'[c][x] # "none" => c \in Campaigns' /\ Reached(c, x)'
               /\ cds'[c][x] = "updated" => <<c, x>> \in done'
    <3>1. CASE c = e /\ x = d
      <4>1. cds'[c][x] = "notified" /\ "notified" # "updated"
        BY <1>5, <3>1, SMTT(30) DEF Writes
      <4> QED
        BY <1>0, <1>4, <1>8, <3>1, <4>1, ZenonT(40) DEF Reached
    <3>2. CASE c # e \/ x # d
      <4>1. cds'[c][x] = cds[c][x]
        BY <1>5, <3>2, Zenon DEF Writes
      <4>2. cds[c][x] # "none" => c \in Campaigns /\ Reached(c, x)
        BY <2>1, Zenon DEF ExchangeOK
      <4>3. cds[c][x] = "updated" => <<c, x>> \in done
        BY <2>1, Zenon DEF ExchangeOK
      <4>4. Reached(c, x)' <=> Reached(c, x)
        BY <1>0, Zenon DEF Reached
      <4> QED
        BY <1>0, <1>8, <4>1, <4>2, <4>3, <4>4, ZenonT(40)
    <3> QED
      BY <3>1, <3>2, Zenon
  <2> QED
    BY <2>2, <2>3, <2>4, ZenonT(40) DEF ExchangeOK
<1>10. ASSUME NEW x \in Device PROVE LastOK(x)'
  <2>1. LastOK(x)
    BY <1>1, Zenon DEF DeviceInv
  <2> SUFFICES ASSUME via[x] # 0, <<via[x], x>> \notin muddled,
                      installed[x] = campaigns[via[x]].version
               PROVE  /\ inflight'[x] # Idle => inflight'[x].campaign # via[x]
                      /\ offered'[x] # None => offered'[x].campaign # via[x]
                      /\ \A m \in reports : m.campaign = via[x] /\ m.device = x => m.status = "installed"
                      /\ \/ cds'[via[x]][x] = "updated"
                         \/ \E m \in reports : m.campaign = via[x] /\ m.device = x
    BY <1>0, Zenon DEF LastOK
  <2>2. via[x] \in 1..MaxCampaigns
    BY <1>1, WithinBound, ZenonT(40) DEF DeviceTypes
  <2>3. CASE x = d
    <3>1. e # via[x]
      BY <1>0, <1>2, <1>3, <2>1, <2>3, ZenonT(40) DEF LastOK
    <3>2. cds'[via[x]][x] = cds[via[x]][x]
      BY <1>5, <2>2, <3>1, ZenonT(40) DEF Writes
    <3> QED
      BY <1>3, <1>6, <1>7, <2>1, <2>3, <3>1, <3>2, ZenonT(40) DEF LastOK, Sets
  <2>4. CASE x # d
    <3>1. cds'[via[x]][x] = cds[via[x]][x]
      BY <1>5, <2>2, <2>4, ZenonT(40) DEF Writes
    <3> QED
      BY <1>6, <1>7, <2>1, <2>4, <3>1, ZenonT(40) DEF LastOK, Sets
  <2> QED
    BY <2>3, <2>4, Zenon
<1>11. ASSUME NEW m \in reports' PROVE ReportOK(m)'
  BY <1>0, <1>1, ZenonT(40) DEF DeviceInv, ReportOK, Reached
<1> QED
  BY <1>8, <1>9, <1>10, <1>11, ZenonT(40) DEF DeviceInv

(* The device installs what it was told to, and reports it.                *)
LEMMA InstallKept ==
  ASSUME IInv, NEW d \in Device, Install(d)
  PROVE  DeviceInv'
<1>0. /\ campaigns' = campaigns /\ now' = now /\ offered[d] # None
      /\ inflight' = inflight /\ cds' = cds
      /\ installed' = [installed EXCEPT ![d] = offered[d].version]
      /\ reports' = reports \cup {Report(d, "installed")}
      /\ done' = done \cup {<<offered[d].campaign, d>>}
      /\ via' = [via EXCEPT ![d] = offered[d].campaign]
      /\ muddled' = IF Overlaps(d) THEN muddled \cup {<<offered[d].campaign, d>>} ELSE muddled
      /\ offered' = [offered EXCEPT ![d] = None]
  BY Zenon DEF Install, adminVars
<1>1. AdminInv /\ DeviceInv /\ DeviceTypes
  BY Zenon DEF IInv, DeviceInv
<1>2. PICK e : e = offered[d].campaign
  BY Zenon
<1>3. PICK r : r = Report(d, "installed")
  BY Zenon
<1>4. e \in Campaigns /\ Reached(e, d)
  BY <1>0, <1>1, <1>2, ZenonT(40) DEF DeviceInv, ExchangeOK
<1>5. /\ r.campaign = e /\ r.device = d /\ r.status = "installed"
      /\ r \in [campaign : Campaigns, device : Device,
                status : {"installed", "checksum_error", "deferred"}]
  BY <1>2, <1>3, <1>4, ZenonT(40) DEF Report
<1>6. /\ Sets(installed, d, offered[d].version, installed') /\ Sets(offered, d, None, offered')
      /\ via' \in [Device -> Campaigns \cup {0}] /\ via'[d] = e
      /\ \A x \in Device : x # d => via'[x] = via[x]
  <2>1. Sets(installed, d, offered[d].version, installed') /\ Sets(offered, d, None, offered')
    BY <1>0, <1>1, SetIs, ZenonT(40) DEF DeviceTypes
  <2>2. via \in [Device -> Campaigns \cup {0}] /\ via' = [via EXCEPT ![d] = e]
    BY <1>0, <1>1, <1>2, ZenonT(40) DEF DeviceTypes
  <2> QED
    BY <1>4, <2>1, <2>2, ZenonT(40)
<1>7. /\ reports' = reports \cup {r} /\ done' = done \cup {<<e, d>>} /\ muddled \subseteq muddled'
      /\ <<e, d>> \notin muddled' => ~Overlaps(d)
  BY <1>0, <1>2, <1>3, ZenonT(40)
<1>8. DeviceTypes' /\ Campaigns' = Campaigns
  BY <1>0, <1>1, <1>5, <1>6, <1>7, ZenonT(40) DEF DeviceTypes, Campaigns, Sets
<1>9. ASSUME NEW x \in Device PROVE ExchangeOK(x)'
  <2>1. ExchangeOK(x)
    BY <1>1, Zenon DEF DeviceInv
  <2>2. (offered[x] # None =>
           offered[x].campaign \in Campaigns /\ Reached(offered[x].campaign, x))'
    BY <1>0, <1>6, <1>8, <2>1, ZenonT(40) DEF ExchangeOK, Reached, Sets
  <2> QED
    BY <1>0, <1>7, <1>8, <2>1, <2>2, ZenonT(40) DEF ExchangeOK, Reached
<1>10. ASSUME NEW x \in Device PROVE LastOK(x)'
  <2>1. LastOK(x)
    BY <1>1, Zenon DEF DeviceInv
  <2>2. CASE x = d
    <3> SUFFICES ASSUME <<e, d>> \notin muddled'
                 PROVE  /\ inflight'[d] # Idle => inflight'[d].campaign # e
                        /\ \A m \in reports' : m.campaign = e /\ m.device = d => m.status = "installed"
                        /\ \E m \in reports' : m.campaign = e /\ m.device = d
      BY <1>6, <2>2, ZenonT(40) DEF LastOK, Sets
    <3>1. ~Overlaps(d)
      BY <1>7, Zenon
    <3>2. /\ inflight[d] # Idle => inflight[d].campaign # e
          /\ \A m \in reports : ~(m.device = d /\ m.campaign = e)
      BY <1>2, <3>1, Zenon DEF Overlaps
    <3> QED
      BY <1>0, <1>5, <1>7, <3>2, ZenonT(40)
  <2>3. CASE x # d
    <3>1. /\ via'[x] = via[x] /\ installed'[x] = installed[x] /\ offered'[x] = offered[x]
          /\ inflight'[x] = inflight[x] /\ cds' = cds /\ muddled \subseteq muddled'
      BY <1>0, <1>6, <1>7, <2>3, ZenonT(40) DEF Sets
    <3>2. \A m \in reports' : m.device = x => m \in reports
      BY <1>5, <1>7, <2>3, ZenonT(40)
    <3> QED
      BY <1>0, <1>7, <2>1, <3>1, <3>2, ZenonT(40) DEF LastOK
  <2> QED
    BY <2>2, <2>3, ZenonT(40)
<1>11. ASSUME NEW m \in reports' PROVE ReportOK(m)'
  <2>1. CASE m \in reports
    BY <1>0, <1>1, <1>7, <2>1, ZenonT(40) DEF DeviceInv, ReportOK, Reached
  <2>2. CASE m = r
    BY <1>0, <1>4, <1>5, <1>7, <2>2, ZenonT(40) DEF ReportOK, Reached
  <2> QED
    BY <1>7, <2>1, <2>2, Zenon
<1> QED
  BY <1>8, <1>9, <1>10, <1>11, ZenonT(40) DEF DeviceInv

(* The device could not install, or the user deferred the update: a device *)
(* that runs the version of its last campaign holds no directive of it.    *)
LEMMA GiveUpKept ==
  ASSUME IInv, NEW d \in Device, GiveUp(d)
  PROVE  DeviceInv'
<1>0. /\ campaigns' = campaigns /\ now' = now /\ offered[d] # None
      /\ inflight' = inflight /\ cds' = cds /\ installed' = installed
      /\ done' = done /\ via' = via /\ muddled' = muddled
      /\ \E s \in {"checksum_error", "deferred"} : reports' = reports \cup {Report(d, s)}
      /\ offered' = [offered EXCEPT ![d] = None]
  BY Zenon DEF GiveUp, adminVars
<1>1. AdminInv /\ DeviceInv /\ DeviceTypes
  BY Zenon DEF IInv, DeviceInv
<1>2. PICK e : e = offered[d].campaign
  BY Zenon
<1>3. PICK s \in {"checksum_error", "deferred"} : reports' = reports \cup {Report(d, s)}
  BY <1>0, Zenon
<1>4. PICK r : r = Report(d, s)
  BY Zenon
<1>5. e \in Campaigns /\ Reached(e, d)
  BY <1>0, <1>1, <1>2, Zenon DEF DeviceInv, ExchangeOK
<1>6. /\ r.campaign = e /\ r.device = d /\ r.status # "installed"
      /\ r \in [campaign : Campaigns, device : Device,
                status : {"installed", "checksum_error", "deferred"}]
  <2>1. s # "installed" /\ s \in {"installed", "checksum_error", "deferred"}
    BY <1>3, SMT
  <2> QED
    BY <1>2, <1>4, <1>5, <2>1, Zenon DEF Report
<1>7. Sets(offered, d, None, offered') /\ reports' = reports \cup {r}
  BY <1>0, <1>1, <1>3, <1>4, SetIs, ZenonT(40) DEF DeviceTypes
<1>8. DeviceTypes' /\ Campaigns' = Campaigns
  BY <1>0, <1>1, <1>6, <1>7, ZenonT(40) DEF DeviceTypes, Campaigns, Sets
<1>9. ASSUME NEW x \in Device PROVE ExchangeOK(x)'
  <2>1. ExchangeOK(x)
    BY <1>1, Zenon DEF DeviceInv
  <2>2. (offered[x] # None =>
           offered[x].campaign \in Campaigns /\ Reached(offered[x].campaign, x))'
    BY <1>0, <1>7, <1>8, <2>1, ZenonT(40) DEF ExchangeOK, Reached, Sets
  <2> QED
    BY <1>0, <1>8, <2>1, <2>2, Zenon DEF ExchangeOK, Reached
<1>10. ASSUME NEW x \in Device PROVE LastOK(x)'
  <2>1. LastOK(x)
    BY <1>1, Zenon DEF DeviceInv
  <2> SUFFICES ASSUME via[x] # 0, <<via[x], x>> \notin muddled,
                      installed[x] = campaigns[via[x]].version
               PROVE  /\ inflight[x] # Idle => inflight[x].campaign # via[x]
                      /\ offered'[x] # None => offered'[x].campaign # via[x]
                      /\ \A m \in reports' : m.campaign = via[x] /\ m.device = x => m.status = "installed"
                      /\ \/ cds[via[x]][x] = "updated"
                         \/ \E m \in reports' : m.campaign = via[x] /\ m.device = x
    BY <1>0, Zenon DEF LastOK
  <2>2. CASE x = d
    <3>1. e # via[x]
      BY <1>0, <1>2, <2>1, <2>2, ZenonT(40) DEF LastOK
    <3> QED
      BY <1>6, <1>7, <2>1, <2>2, <3>1, ZenonT(40) DEF LastOK, Sets
  <2>3. CASE x # d
    BY <1>6, <1>7, <2>1, <2>3, ZenonT(40) DEF LastOK, Sets
  <2> QED
    BY <2>2, <2>3, Zenon
<1>11. ASSUME NEW m \in reports' PROVE ReportOK(m)'
  <2>1. CASE m \in reports
    BY <1>0, <1>1, <2>1, ZenonT(40) DEF DeviceInv, ReportOK, Reached
  <2>2. CASE m = r
    BY <1>0, <1>5, <1>6, <2>2, ZenonT(40) DEF ReportOK, Reached
  <2> QED
    BY <1>7, <2>1, <2>2, ZenonT(40)
<1> QED
  BY <1>8, <1>9, <1>10, <1>11, Zenon DEF DeviceInv

(* POST /update/status: an 'installed' report writes 'updated', and no     *)
(* other report about an undisturbed install is under way.                 *)
LEMMA ArrivesKept ==
  ASSUME IInv, NEW r \in reports, ReportArrives(r)
  PROVE  DeviceInv'
<1>0. /\ campaigns' = campaigns /\ now' = now /\ offered' = offered
      /\ inflight' = inflight /\ installed' = installed
      /\ done' = done /\ via' = via /\ muddled' = muddled
      /\ cds' = [cds EXCEPT ![r.campaign][r.device] = ReportedAs(r.status)]
      /\ reports' = reports \ {r}
  BY Zenon DEF ReportArrives, adminVars
<1>1. AdminInv /\ DeviceInv /\ DeviceTypes /\ cds \in CdsType
  BY Zenon DEF IInv, DeviceInv, DeviceTypes, CdsType
<1>2. PICK e, d : e = r.campaign /\ d = r.device
  BY Zenon
<1>3. r \in [campaign : Campaigns, device : Device,
             status : {"installed", "checksum_error", "deferred"}]
  BY <1>1, Zenon DEF DeviceTypes
<1>4. e \in Campaigns /\ e \in 1..MaxCampaigns /\ d \in Device
  BY <1>1, <1>2, <1>3, WithinBound, ZenonT(40)
<1>5. Reached(e, d) /\ (r.status = "installed" => <<e, d>> \in done)
  BY <1>1, <1>2, ZenonT(40) DEF DeviceInv, ReportOK
<1>6. PICK s : s = ReportedAs(r.status)
  BY Zenon
<1>7. /\ s \in {"none", "notified", "updated", "failed"} /\ s # "none"
      /\ s = "updated" <=> r.status = "installed"
  BY <1>6, SMTT(30) DEF ReportedAs
<1>8. Writes(cds, e, d, s, cds')
  <2>1. cds' = [cds EXCEPT ![e][d] = s]
    BY <1>0, <1>2, <1>6, ZenonT(40)
  <2> QED
    BY <1>1, <1>4, <1>7, <2>1, WriteIs, ZenonT(40)
<1>9. DeviceTypes' /\ Campaigns' = Campaigns
  BY <1>0, <1>1, <1>8, ZenonT(40) DEF DeviceTypes, Campaigns, Writes, CdsType
<1>10. ASSUME NEW x \in Device PROVE ExchangeOK(x)'
  <2>1. ExchangeOK(x)
    BY <1>1, Zenon DEF DeviceInv
  <2>2. ASSUME NEW c \in 1..MaxCampaigns
        PROVE  /\ cds'[c][x] # "none" => c \in Campaigns' /\ Reached(c, x)'
               /\ cds'[c][x] = "updated" => <<c, x>> \in done'
    <3>0. Reached(c, x)' <=> Reached(c, x)
      BY <1>0, Zenon DEF Reached
    <3>1. CASE c = e /\ x = d
      <4>1. cds'[c][x] = s
        BY <1>8, <3>1, Zenon DEF Writes
      <4> QED
        BY <1>0, <1>4, <1>5, <1>7, <1>9, <3>0, <3>1, <4>1, ZenonT(40)
    <3>2. CASE c # e \/ x # d
      <4>1. cds'[c][x] = cds[c][x]
        BY <1>8, <3>2, Zenon DEF Writes
      <4>2. cds[c][x] # "none" => c \in Campaigns /\ Reached(c, x)
        BY <2>1, Zenon DEF ExchangeOK
      <4>3. cds[c][x] = "updated" => <<c, x>> \in done
        BY <2>1, Zenon DEF ExchangeOK
      <4> QED
        BY <1>0, <1>9, <3>0, <4>1, <4>2, <4>3, ZenonT(40)
    <3> QED
      BY <3>1, <3>2, Zenon
  <2> QED
    BY <1>0, <1>9, <2>1, <2>2, ZenonT(40) DEF ExchangeOK, Reached
<1>11. ASSUME NEW x \in Device PROVE LastOK(x)'
  <2>1. LastOK(x)
    BY <1>1, Zenon DEF DeviceInv
  <2> SUFFICES ASSUME via[x] # 0, <<via[x], x>> \notin muddled,
                      installed[x] = campaigns[via[x]].version
               PROVE  \/ cds'[via[x]][x] = "updated"
                      \/ \E m \in reports' : m.campaign = via[x] /\ m.device = x
    BY <1>0, <2>1, Zenon DEF LastOK
  <2>2. via[x] \in 1..MaxCampaigns
    BY <1>1, WithinBound, Zenon DEF DeviceTypes
  <2>3. CASE x = d /\ via[x] = e
    <3>1. r.status = "installed"
      BY <1>2, <2>1, <2>3, Zenon DEF LastOK
    <3> QED
      BY <1>7, <1>8, <2>3, <3>1, ZenonT(40) DEF Writes
  <2>4. CASE x # d \/ via[x] # e
    <3>1. cds'[via[x]][x] = cds[via[x]][x]
      BY <1>8, <2>2, <2>4, Zenon DEF Writes
    <3>2. \A m \in reports : m.campaign = via[x] /\ m.device = x => m \in reports'
      BY <1>0, <1>2, <2>4, Zenon
    <3> QED
      BY <2>1, <3>1, <3>2, Zenon DEF LastOK
  <2> QED
    BY <2>3, <2>4, Zenon
<1>12. ASSUME NEW m \in reports' PROVE ReportOK(m)'
  BY <1>0, <1>1, ZenonT(40) DEF DeviceInv, ReportOK, Reached
<1> QED
  BY <1>9, <1>10, <1>11, <1>12, Zenon DEF DeviceInv

(* A report that is lost is remembered with its campaign and its device.   *)
LEMMA LostKept ==
  ASSUME IInv, NEW r \in reports, ReportLost(r)
  PROVE  DeviceInv'
<1>0. /\ campaigns' = campaigns /\ now' = now /\ offered' = offered
      /\ inflight' = inflight /\ installed' = installed /\ cds' = cds
      /\ done' = done /\ via' = via /\ muddled' = muddled \cup {<<r.campaign, r.device>>}
      /\ reports' = reports \ {r}
  BY Zenon DEF ReportLost, adminVars
<1>1. DeviceInv /\ DeviceTypes
  BY Zenon DEF IInv, DeviceInv
<1>2. DeviceTypes' /\ Campaigns' = Campaigns
  BY <1>0, <1>1, Zenon DEF DeviceTypes, Campaigns
<1>3. ASSUME NEW x \in Device PROVE ExchangeOK(x)'
  BY <1>0, <1>1, <1>2, Zenon DEF DeviceInv, ExchangeOK, Reached
<1>4. ASSUME NEW x \in Device PROVE LastOK(x)'
  <2>1. LastOK(x)
    BY <1>1, Zenon DEF DeviceInv
  <2>2. <<via[x], x>> \notin muddled' =>
          \A m \in reports : m.campaign = via[x] /\ m.device = x => m \in reports'
    BY <1>0, Zenon
  <2> QED
    BY <1>0, <2>1, <2>2, ZenonT(40) DEF LastOK
<1>5. ASSUME NEW m \in reports' PROVE ReportOK(m)'
  BY <1>0, <1>1, Zenon DEF DeviceInv, ReportOK, Reached
<1> QED
  BY <1>2, <1>3, <1>4, <1>5, Zenon DEF DeviceInv

-----------------------------------------------------------------------------
(* The inductive invariant.                                                *)

(* At first there is no campaign, no call and no exchange.                 *)
LEMMA InitOK == Init => IInv
<1> SUFFICES ASSUME Init PROVE IInv
  OBVIOUS
<1>0. /\ campaigns = <<>> /\ calls = [a \in Admin |-> Idle] /\ now = 0
      /\ installed = FirstVersion /\ inflight = [d \in Device |-> Idle]
      /\ offered = [d \in Device |-> None] /\ reports = {}
      /\ cds = [c \in 1..MaxCampaigns |-> [d \in Device |-> "none"]]
      /\ auto = {} /\ via = [d \in Device |-> 0]
  BY Zenon DEF Init
<1>1. /\ campaigns \in Seq(Row) /\ Len(campaigns) = 0 /\ Campaigns = {} /\ now \in Nat
  BY <1>0, SMTT(30) DEF Campaigns
<1>2. Cardinality(Busy) = 0
  <2>1. Busy = {}
    BY <1>0, Zenon DEF Busy
  <2> QED
    BY <2>1, FS_EmptySet, Zenon
<1>3. AdminTypes
  <2>1. Len(campaigns) + Cardinality(Busy) <= MaxCampaigns
    BY <1>1, <1>2, PlansAssumption, SMTT(30)
  <2> QED
    BY <1>0, <1>1, <2>1, ZenonT(40) DEF AdminTypes
<1>4. AdminInv
  BY <1>0, <1>1, <1>3, ZenonT(40) DEF AdminInv, AutoOK, CallOK
<1>5. DeviceTypes
  <2>1. installed = [d \in Device |-> installed[d]]
    BY <1>0, PlansAssumption, ZenonT(40)
  <2>2. \A c \in 1..MaxCampaigns :
          [d \in Device |-> "none"] \in [Device -> {"none", "notified", "updated", "failed"}]
    BY Zenon
  <2> QED
    BY <1>0, <2>1, <2>2, ZenonT(40) DEF DeviceTypes
<1>6. ASSUME NEW d \in Device PROVE ExchangeOK(d)
  <2>1. \A c \in 1..MaxCampaigns : cds[c][d] = "none"
    BY <1>0, Zenon
  <2>2. "none" # "updated"
    OBVIOUS
  <2> QED
    BY <1>0, <2>1, <2>2, ZenonT(40) DEF ExchangeOK
<1>7. ASSUME NEW d \in Device PROVE LastOK(d)
  BY <1>0, Zenon DEF LastOK
<1> QED
  BY <1>0, <1>4, <1>5, <1>6, <1>7, ZenonT(40) DEF IInv, DeviceInv

(* Every step of an admin, of a device, of a report and of time.           *)
LEMMA StepOK == IInv /\ [Next]_vars => IInv'
<1> SUFFICES ASSUME IInv, [Next]_vars PROVE IInv'
  OBVIOUS
<1>0. AdminInv /\ now \in Nat /\ now <= now
  BY SMT DEF IInv, AdminInv, AdminTypes
<1>1. CASE \E a \in Admin : Creates(a)
  <2>1. AdminInv' /\ Grows(campaigns, campaigns') /\ now' = now /\ UNCHANGED deviceVars
    BY <1>0, <1>1, CreatesKept, ZenonT(40)
  <2> QED
    BY <1>0, <2>1, DeviceFrame, ZenonT(40) DEF IInv
<1>2. CASE Manages
  <2>1. AdminInv' /\ Grows(campaigns, campaigns') /\ now' = now /\ UNCHANGED deviceVars
    BY <1>0, <1>2, ManagesKept, ZenonT(40)
  <2> QED
    BY <1>0, <2>1, DeviceFrame, Zenon DEF IInv
<1>3. CASE UNCHANGED adminVars /\ now' = now /\ DeviceInv'
  <2>1. /\ campaigns' = campaigns /\ calls' = calls /\ auto' = auto /\ stranded' = stranded
    BY <1>3, Zenon DEF adminVars
  <2>2. Grows(campaigns, campaigns') /\ Len(campaigns') = Len(campaigns) /\ now' \in Nat
    BY <1>0, <1>3, <2>1, SameTable, ZenonT(40)
  <2> QED
    BY <1>0, <1>3, <2>1, <2>2, Bystander, ZenonT(40) DEF IInv
<1>4. CASE \E d \in Device : Polls(d)
  <2>1. PICK d \in Device : Polls(d)
    BY <1>4, Zenon
  <2>2. CASE \E c \in Campaigns : CheckIn(d, c)
    BY <1>3, <2>2, CheckInKept, Zenon DEF CheckIn
  <2>3. CASE Notify(d) \/ NotifyInVain(d)
    BY <1>3, <2>3, NotifyKept, ZenonT(40) DEF Notify, NotifyInVain
  <2>4. CASE Install(d)
    BY <1>3, <2>4, InstallKept, ZenonT(40) DEF Install
  <2>5. CASE GiveUp(d)
    BY <1>3, <2>5, GiveUpKept, ZenonT(40) DEF GiveUp
  <2> QED
    BY <2>1, <2>2, <2>3, <2>4, <2>5, ZenonT(40) DEF Polls
<1>5. CASE \E m \in reports : ReportArrives(m) \/ ReportLost(m)
  BY <1>3, <1>5, ArrivesKept, LostKept, ZenonT(40) DEF ReportArrives, ReportLost
<1>6. CASE Tick \/ UNCHANGED vars
  <2>1. /\ campaigns' = campaigns /\ calls' = calls /\ auto' = auto /\ stranded' = stranded
        /\ UNCHANGED deviceVars
    BY <1>6, Zenon DEF Tick, vars, adminVars
  <2>2. now' \in Nat /\ now <= now'
    BY <1>0, <1>6, SMTT(30) DEF Tick, vars
  <2>3. Grows(campaigns, campaigns') /\ Len(campaigns') = Len(campaigns)
    BY <1>0, <2>1, SameTable, Zenon
  <2> QED
    BY <1>0, <2>1, <2>2, <2>3, Bystander, DeviceFrame, ZenonT(40) DEF IInv
<1> QED
  BY <1>1, <1>2, <1>4, <1>5, <1>6, ZenonT(40) DEF Next

(* The lifecycle of the campaigns and the exchanges with the devices stay  *)
(* right, whatever admins, devices, faults and time do.                    *)
THEOREM RolloutInvariant == Spec => []IInv
BY InitOK, StepOK, PTL DEF Spec

(* A staged rollout holds back the devices it should, for any stages: no   *)
(* device beyond the running stage's percentage has a status row           *)
(* (_get_current_rollout_percent, _build_update_directive).                *)
THEOREM RolloutIsStaged == Spec => []StagedRollout
<1>1. IInv => StagedRollout
  <2> SUFFICES ASSUME IInv, NEW c \in Campaigns, NEW d \in Device, cds[c][d] # "none"
               PROVE  Reached(c, d)
    BY Zenon DEF StagedRollout, Reached, ReachedAt
  <2>1. c \in 1..MaxCampaigns
    BY WithinBound, Zenon DEF IInv
  <2> QED
    BY <2>1, Zenon DEF IInv, DeviceInv, ExchangeOK
<1> QED
  BY <1>1, RolloutInvariant, PTL

(* Two campaigns over the same plugin are active together only by an       *)
(* admin's hand or after overlapping creating calls (create_campaign,      *)
(* _create_campaign_db_work, _deploy_plugin_db_work).                      *)
THEOREM OverlapsOnly == Spec => []OnlyOverlapsCoexist
<1>1. IInv => OnlyOverlapsCoexist
  <2> SUFFICES ASSUME IInv, NEW c \in Campaigns, NEW e \in Campaigns,
                      Lingers(c), Lingers(e), SameScope(c, e)
               PROVE  Overlapped(c, e)
    BY Zenon DEF OnlyOverlapsCoexist, Lingers
  <2>1. RowOK(c) /\ RowOK(e) /\ SameScope(e, c)
    BY Zenon DEF IInv, AdminInv, SameScope
  <2> QED
    BY <2>1, Zenon DEF RowOK, Overlapped
<1> QED
  BY <1>1, RolloutInvariant, PTL

(* A campaign is completed only for the sake of a newer one that exists,   *)
(* or that one of the two autocommitting endpoints is about to insert, or  *)
(* has failed to (_create_campaign_db_work, _deploy_plugin_db_work).       *)
THEOREM NewerOnes == Spec => []CompletedForANewerOne
<1>1. IInv => CompletedForANewerOne
  <2> SUFFICES ASSUME IInv PROVE CompletedForANewerOne
    OBVIOUS
  <2>1. AdminInv /\ AutoOK
    BY ZenonT(40) DEF IInv, AdminInv
  <2> QED
    BY <2>1, InsertsAlone, Zenon DEF AutoOK, CompletedForANewerOne
<1> QED
  BY <1>1, RolloutInvariant, PTL

(* The dashboard shows as updated the devices that have installed what     *)
(* their campaign told them to, and no others, unless a report was lost or *)
(* exchanges overlapped (_update_campaign_device_status_sync,              *)
(* _upsert_campaign_device_status).                                        *)
THEOREM DashboardRight == Spec => []DashboardIsRight
<1>1. IInv => DashboardIsRight
  <2> SUFFICES ASSUME IInv PROVE DashboardIsRight
    OBVIOUS
  <2>1. ASSUME NEW c \in Campaigns, NEW d \in Stats(c)["updated"] PROVE <<c, d>> \in done
    <3>1. c \in 1..MaxCampaigns
      BY WithinBound, Zenon DEF IInv
    <3>2. d \in Device /\ cds[c][d] = "updated"
      BY Zenon DEF Stats
    <3> QED
      BY <3>1, <3>2, Zenon DEF IInv, DeviceInv, ExchangeOK
  <2>2. ASSUME NEW d \in Device, via[d] # 0, installed[d] = campaigns[via[d]].version,
               Quiet(via[d], d), <<via[d], d>> \notin muddled
        PROVE  cds[via[d]][d] = "updated"
    BY <2>2, Zenon DEF IInv, DeviceInv, LastOK, Quiet
  <2> QED
    BY <2>1, <2>2, Zenon DEF DashboardIsRight
<1> QED
  BY <1>1, RolloutInvariant, PTL
=============================================================================
