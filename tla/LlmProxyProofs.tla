--------------------------- MODULE LlmProxyProofs ---------------------------
(***************************************************************************)
(* The inductive invariant of LlmProxy and its theorems, for any pods,     *)
(* users, requests, settings and bounds.  The gauges, the pools and the    *)
(* shared counters are numbers and what they stand for are sets: the       *)
(* proofs follow a step of one request or one pod through both.            *)
(***************************************************************************)
EXTENDS LlmProxy, TLAPS

-----------------------------------------------------------------------------
(* The inductive invariant.                                                *)

(* What the throttle says of a request, or nothing yet.                    *)
Judgement == {NoQuota} \cup
  [start : 0 .. MaxTime, len : Nat \ {0}, limit : Int, verdict : {"allowed", "denied", "open"}]

(* A request, whatever its route and settings.                             *)
ReqRecord ==
  [phase : Phase, pod : Pod, route : Route, user : User, limit : Int, window : Nat \ {0},
   guards : {{}} \cup {c.guards : c \in Config}, quota : Judgement, key : Key \cup {NoKey}]

(* A request is running; it holds a connection to the upstream.            *)
Busy == Phase \ {"idle", "done", "lost"}
Pooled == {"upstream", "ready", "streaming", "abandoned"}

(* The types of what a request touches.                                    *)
ReqTypes ==
  /\ now \in 0 .. MaxTime
  /\ cfg \in [Pod -> Config]
  /\ req \in [Request -> ReqRecord]
  /\ active \in [Pod -> Int]
  /\ conns \in [Pod -> Int]
  /\ \A p \in Pod : conns[p] <= MaxConns

(* The types of what is counted.                                           *)
TrafficTypes ==
  /\ acc \in [Pod -> [Key -> Nat]]
  /\ pending \in [Pod -> [Key -> Nat]]
  /\ wrote \in [Pod -> SUBSET Key]
  /\ flushing \in [Pod -> BOOLEAN]
  /\ traffic \in [Key -> Nat]
  /\ partly \in BOOLEAN /\ short \in BOOLEAN

(* A request is judged in its throttle and has a key when it is over.      *)
ReqOK(r) ==
  /\ req[r].phase \in {"idle", "auth", "body", "throttle"} => req[r].quota = NoQuota
  /\ req[r].phase # "done" => req[r].key = NoKey

(* An accumulator is under its cap; what a flush has written it swapped    *)
(* out, and between two flushes there is nothing swapped out.              *)
PodOK(p) ==
  /\ Cardinality(Keys(acc[p])) <= MaxPendingKeys
  /\ wrote[p] \subseteq Keys(pending[p])
  /\ ~flushing[p] => wrote[p] = {} /\ pending[p] = [k \in Key |-> 0]

(* The gauges, the pools and the traffic.                                  *)
ProxyBase ==
  /\ ReqTypes /\ TrafficTypes
  /\ \A r \in Request : ReqOK(r)
  /\ \A p \in Pod : PodOK(p)
  /\ OnlyAbandonedLeak
  /\ TrafficIsExact

(* The requests of a user that were judged in a window, and those among    *)
(* them that the store has answered for.                                   *)
JudgedIn(u, t) == {r \in Request : req[r].user = u /\ req[r].quota.start = t}
AnsweredIn(u, t) == {r \in JudgedIn(u, t) : req[r].quota.verdict \in {"allowed", "denied"}}

(* A counter is never above the requests judged in its window, and not     *)
(* below those the store answered for until its row may be purged.         *)
ProxyQuota ==
  /\ counters \in [User -> [0 .. MaxTime -> Nat]]
  /\ \A u \in User, t \in 0 .. MaxTime :
       /\ counters[u][t] <= Cardinality(JudgedIn(u, t))
       /\ now <= t + Retention => Cardinality(AnsweredIn(u, t)) <= counters[u][t]
  /\ QuotaHolds

(* The invariant.                                                          *)
ProxyIInv == ProxyBase /\ ProxyQuota /\ upsets \in 0 .. MaxUpsets

-----------------------------------------------------------------------------
(* Counting.                                                               *)

(* One element of each pod for each unit of its share.                     *)
Slots(f) == UNION {{p} \X (1 .. f[p]) : p \in Pod}

(* A change of one pod's share changes the number of slots by as much:     *)
(* their number is the sum of the shares.                                  *)
SlotsLaw ==
  \A f, g \in [Pod -> Nat], p \in Pod :
    (\A q \in Pod : q # p => g[q] = f[q]) =>
      /\ Cardinality(Slots(f)) \in Nat /\ Cardinality(Slots(g)) \in Nat
      /\ Cardinality(Slots(g)) = Cardinality(Slots(f)) - f[p] + g[p]

(* What the proofs below use of finite sets and of the naturals. It is a   *)
(* hypothesis of the lemmas and is proved, with the library of finite      *)
(* sets, before the theorems (CountingHolds).                              *)
Counting ==
  /\ IsFiniteSet({}) /\ Cardinality({}) = 0
  /\ \A S : IsFiniteSet(S) => Cardinality(S) \in Nat
  /\ \A m, n \in Int : IsFiniteSet(m .. n)
  /\ \A S, T : IsFiniteSet(S) /\ T \subseteq S =>
       IsFiniteSet(T) /\ Cardinality(T) <= Cardinality(S)
  /\ \A S, x : IsFiniteSet(S) /\ x \notin S =>
       IsFiniteSet(S \cup {x}) /\ Cardinality(S \cup {x}) = Cardinality(S) + 1
  /\ \A S, x : IsFiniteSet(S) /\ x \in S =>
       IsFiniteSet(S \ {x}) /\ Cardinality(S \ {x}) = Cardinality(S) - 1
  /\ \A S, T : IsFiniteSet(S) /\ IsFiniteSet(T) =>
       /\ IsFiniteSet(S \cup T)
       /\ Cardinality(S \cup T) = Cardinality(S) + Cardinality(T) - Cardinality(S \cap T)
  /\ \A S \in SUBSET Nat : S # {} => \E x \in S : \A y \in S : x <= y
  /\ SlotsLaw

(* The empty set, and the size of a finite set.                            *)
LEMMA EmptyCounts ==
  ASSUME Counting
  PROVE  /\ IsFiniteSet({}) /\ Cardinality({}) = 0
         /\ \A S : IsFiniteSet(S) => Cardinality(S) \in Nat
  BY Zenon DEF Counting

(* Intervals are finite.                                                   *)
LEMMA IntervalCounts ==
  ASSUME Counting, NEW m \in Int, NEW n \in Int
  PROVE  IsFiniteSet(m .. n)
  BY Zenon DEF Counting

(* A part of a finite set.                                                 *)
LEMMA SubsetCounts ==
  ASSUME Counting, NEW S, IsFiniteSet(S), NEW T, T \subseteq S
  PROVE  IsFiniteSet(T) /\ Cardinality(T) <= Cardinality(S)
  BY Zenon DEF Counting

(* One element more.                                                       *)
LEMMA AddCounts ==
  ASSUME Counting, NEW S, IsFiniteSet(S), NEW x, x \notin S
  PROVE  IsFiniteSet(S \cup {x}) /\ Cardinality(S \cup {x}) = Cardinality(S) + 1
  BY Zenon DEF Counting

(* One element less.                                                       *)
LEMMA RemoveCounts ==
  ASSUME Counting, NEW S, IsFiniteSet(S), NEW x, x \in S
  PROVE  IsFiniteSet(S \ {x}) /\ Cardinality(S \ {x}) = Cardinality(S) - 1
  BY Zenon DEF Counting

(* Two finite sets together.                                               *)
LEMMA UnionCounts ==
  ASSUME Counting, NEW S, IsFiniteSet(S), NEW T, IsFiniteSet(T)
  PROVE  /\ IsFiniteSet(S \cup T)
         /\ Cardinality(S \cup T) = Cardinality(S) + Cardinality(T) - Cardinality(S \cap T)
  BY Zenon DEF Counting

(* The change of one pod's share.                                          *)
LEMMA SlotsStep ==
  ASSUME Counting, NEW f \in [Pod -> Nat], NEW g \in [Pod -> Nat], NEW p \in Pod,
         \A q \in Pod : q # p => g[q] = f[q]
  PROVE  /\ Cardinality(Slots(f)) \in Nat /\ Cardinality(Slots(g)) \in Nat
         /\ Cardinality(Slots(g)) = Cardinality(Slots(f)) - f[p] + g[p]
<1>1. SlotsLaw
  BY Zenon DEF Counting
<1> QED
  BY <1>1, Zenon DEF SlotsLaw

(* Sets of requests are finite.                                            *)
LEMMA RequestsFinite ==
  ASSUME Counting, NEW A \in SUBSET Request
  PROVE  IsFiniteSet(A) /\ Cardinality(A) \in Nat /\ Cardinality(A) <= Cardinality(Request)
<1>1. IsFiniteSet(Request)
  <2>1. 1 \in Int /\ MaxRequests \in Int
    BY BoundsAssumption, SMT
  <2> QED
    BY <2>1, IntervalCounts, Zenon DEF Request
<1>2. IsFiniteSet(A) /\ Cardinality(A) <= Cardinality(Request)
  BY <1>1, SubsetCounts, Zenon
<1> QED
  BY <1>2, EmptyCounts, Zenon

(* Two sets of requests that differ at most on r.                          *)
LEMMA CountStep ==
  ASSUME Counting, NEW r \in Request, NEW A \in SUBSET Request, NEW B \in SUBSET Request,
         \A s \in Request : s # r => (s \in A <=> s \in B)
  PROVE  /\ Cardinality(A) \in Nat /\ Cardinality(B) \in Nat
         /\ r \in A /\ r \in B => Cardinality(B) = Cardinality(A)
         /\ r \in A /\ r \notin B => Cardinality(B) = Cardinality(A) - 1
         /\ r \notin A /\ r \in B => Cardinality(B) = Cardinality(A) + 1
         /\ r \notin A /\ r \notin B => Cardinality(B) = Cardinality(A)
<1>1. IsFiniteSet(A) /\ IsFiniteSet(B) /\ Cardinality(A) \in Nat /\ Cardinality(B) \in Nat
  BY RequestsFinite, Zenon
<1>2. (r \in A <=> r \in B) => A = B
  BY SMT
<1>3. r \in A /\ r \notin B => B = A \ {r}
  BY Zenon
<1>4. r \notin A /\ r \in B => B = A \cup {r}
  BY Zenon
<1>5. r \in A => Cardinality(A \ {r}) = Cardinality(A) - 1
  BY <1>1, RemoveCounts, Zenon
<1>6. r \notin A => Cardinality(A \cup {r}) = Cardinality(A) + 1
  BY <1>1, AddCounts, Zenon
<1> QED
  BY <1>1, <1>2, <1>3, <1>4, <1>5, <1>6, Zenon

(* A set that r was not in may gain r alone.                               *)
LEMMA CountJoin ==
  ASSUME Counting, NEW r \in Request, NEW A \in SUBSET Request, NEW B \in SUBSET Request,
         \A s \in Request : s # r => (s \in A <=> s \in B), r \notin A
  PROVE  /\ Cardinality(A) \in Nat
         /\ Cardinality(B) = Cardinality(A) + (IF r \in B THEN 1 ELSE 0)
<1>1. /\ Cardinality(A) \in Nat
      /\ r \in B => Cardinality(B) = Cardinality(A) + 1
      /\ r \notin B => Cardinality(B) = Cardinality(A)
  BY CountStep, SMT
<1> QED
  BY <1>1, SMT

(* One more fits where one more than as many does.                         *)
LEMMA OneFits ==
  ASSUME NEW m \in Nat, NEW n \in Nat, NEW l \in Int, m <= n, n + 1 <= l
  PROVE  m + 1 <= l
  BY SMT

(* Two counts, the smaller of which rises by d at most, and the other by d. *)
LEMMA RisesBelow ==
  ASSUME NEW a \in Nat, NEW b \in Nat, NEW c \in Nat, NEW d \in {0, 1}, a <= b, c <= a + d
  PROVE  c <= b + d
  BY SMT

(* Two counts, the smaller of which rises by d, and the other by d at least. *)
LEMMA RisesAbove ==
  ASSUME NEW a \in Nat, NEW b \in Nat, NEW c \in Nat, NEW d \in {0, 1}, a <= b, c >= b + d
  PROVE  a + d <= c
  BY SMT

(* A count that is at least n is full when n is.                           *)
LEMMA IsFull ==
  ASSUME NEW m \in Nat, NEW n \in Nat, NEW l \in Int, n <= m
  PROVE  ~(n + 1 <= l) => m >= l
  BY SMT

(* What exceeds a count exceeds what that exceeds.                         *)
LEMMA IsAbove ==
  ASSUME NEW m \in Nat, NEW n \in Nat, NEW l \in Int, n <= m, n >= l
  PROVE  m >= l
  BY SMT

(* The slots of one pod, and those of the others.                          *)
Row(f, p) == {p} \X (1 .. f[p])
Others(f, p) == UNION {Row(f, q) : q \in Pod \ {p}}

(* The slots of a function are those of p beside those of the others.      *)
LEMMA SlotsSplit ==
  ASSUME NEW p \in Pod, NEW f, NEW h, \A q \in Pod : q # p => h[q] = f[q]
  PROVE  Slots(h) = Others(f, p) \cup Row(h, p) /\ Others(f, p) \cap Row(h, p) = {}
  BY SMT DEF Slots, Others, Row

(* A union of disjoint sets, one of them replaced.                         *)
LEMMA Disjoint ==
  ASSUME NEW o \in Nat, NEW n \in Nat
  PROVE  o + n - 0 = o + n
  BY SMT

(* A share replaced in a sum.                                              *)
LEMMA ShareReplaced ==
  ASSUME NEW o \in Nat, NEW m \in Nat, NEW n \in Nat
  PROVE  o + n = (o + m) - m + n
  BY SMT

(* An interval from one.                                                   *)
LEMMA FromOne ==
  ASSUME NEW n \in Nat
  PROVE  /\ 1 \in Int /\ n \in Int /\ 1 * n = n
         /\ \A c : (c = IF 1 > n THEN 0 ELSE n - 1 + 1) => c = n
  BY SMT

(* A window no longer than the retention ends within it.                   *)
LEMMA EndsWithin ==
  ASSUME NEW m \in Nat, NEW n \in 0 .. m, NEW t \in 0 .. m, NEW w \in Nat, NEW k \in Nat,
         n < t + w, w <= k
  PROVE  n <= t + k
  BY SMT

-----------------------------------------------------------------------------
(* Time buckets and windows.                                               *)

(* A quotient is the last multiple reached.                                *)
LEMMA Quotient ==
  ASSUME NEW a \in Nat, NEW n \in Nat \ {0}
  PROVE  /\ a \div n \in Nat
         /\ (a \div n) * n <= a
         /\ a < (a \div n) * n + n
  BY SMT

(* Quotients grow with what is divided.                                    *)
LEMMA QuotientGrows ==
  ASSUME NEW a \in Nat, NEW b \in Nat, a <= b, NEW n \in Nat \ {0}
  PROVE  a \div n <= b \div n
<1>1. PICK x \in Nat : x = a \div n
  BY Quotient, Zenon
<1>2. PICK y \in Nat : y = b \div n
  BY Quotient, Zenon
<1>3. x * n <= a /\ b < y * n + n
  BY <1>1, <1>2, Quotient, Zenon
<1>4. x * n < (y + 1) * n
  BY <1>3, SMT
<1>5. x < y + 1
  BY <1>4, SMT
<1> QED
  BY <1>1, <1>2, <1>5, SMT

(* The bucket of the current time is a key.                                *)
LEMMA BucketIsKey == now \in 0 .. MaxTime => now \div BucketTicks \in Key
<1> SUFFICES ASSUME now \in 0 .. MaxTime PROVE now \div BucketTicks \in Key
  OBVIOUS
<1>1. now \in Nat /\ MaxTime \in Nat /\ now <= MaxTime /\ BucketTicks \in Nat \ {0}
  BY BoundsAssumption, SMT
<1>2. /\ now \div BucketTicks \in Nat /\ MaxTime \div BucketTicks \in Nat
      /\ now \div BucketTicks <= MaxTime \div BucketTicks
  BY <1>1, Quotient, QuotientGrows, Zenon
<1> QED
  BY <1>2, SMT DEF Key

(* The window of the current time has begun and is not over.               *)
LEMMA WindowIsCurrent ==
  ASSUME now \in 0 .. MaxTime, NEW w \in Nat \ {0}
  PROVE  /\ WindowStart(w) \in 0 .. MaxTime
         /\ now < WindowStart(w) + w
<1>1. now \in Nat
  BY SMT
<1>2. (now \div w) * w <= now /\ now < (now \div w) * w + w /\ now \div w \in Nat
  BY <1>1, Quotient, Zenon
<1>3. (now \div w) * w \in Nat
  BY <1>2, SMT
<1> QED
  BY <1>2, <1>3, BoundsAssumption, SMT DEF WindowStart

-----------------------------------------------------------------------------
(* The accumulator.                                                        *)

(* A non-empty set of naturals has a least element.                        *)
LEMMA LeastIs ==
  ASSUME Counting, NEW S, S \subseteq Nat, S # {}
  PROVE  Min(S) \in S
<1>1. PICK x \in S : \A y \in S : x <= y
  BY Zenon DEF Counting
<1> QED
  BY <1>1, Zenon DEF Min

(* The keys of a bag are naturals, and finitely many.                      *)
LEMMA KeysFinite ==
  ASSUME Counting, NEW bag
  PROVE  /\ Key \subseteq Nat /\ Keys(bag) \subseteq Key
         /\ IsFiniteSet(Keys(bag)) /\ Cardinality(Keys(bag)) \in Nat
<1>1. MaxTime \div BucketTicks \in Int /\ 0 \in Int
  BY BoundsAssumption, SMT
<1>2. IsFiniteSet(Key)
  BY <1>1, IntervalCounts, Zenon DEF Key
<1>3. Keys(bag) \in SUBSET Key
  BY Zenon DEF Keys
<1>4. Key \subseteq Nat
  BY <1>1, SMT DEF Key
<1>5. IsFiniteSet(Keys(bag))
  BY <1>2, <1>3, SubsetCounts, Zenon
<1> QED
  BY <1>3, <1>4, <1>5, EmptyCounts, Zenon

(* Recording one request more: the cap holds, and no count grows but that  *)
(* of its key, by one; without an overflow none shrinks.                   *)
LEMMA RecordedIs ==
  ASSUME Counting, NEW bag \in [Key -> Nat], NEW k \in Key, Cardinality(Keys(bag)) <= MaxPendingKeys
  PROVE  /\ Recorded(bag, k) \in [Key -> Nat]
         /\ Cardinality(Keys(Recorded(bag, k))) <= MaxPendingKeys
         /\ \A j \in Key \ {k} : Recorded(bag, k)[j] <= bag[j]
         /\ Recorded(bag, k)[k] = bag[k] + 1
         /\ ~Overflows(bag, k) => \A j \in Key \ {k} : Recorded(bag, k)[j] = bag[j]
<1> DEFINE K == Keys(bag)
           new == Recorded(bag, k)
           o == Oldest(bag)
<1>1. /\ Key \subseteq Nat /\ K \subseteq Key /\ IsFiniteSet(K) /\ Cardinality(K) \in Nat
      /\ bag[k] \in Nat /\ MaxPendingKeys \in Nat \ {0} /\ bag[k] + 1 \in Nat /\ 1 \in Nat /\ 0 \in Nat
  <2>1. bag[k] \in Nat
    BY Zenon
  <2> QED
    BY <2>1, KeysFinite, BoundsAssumption, SMT
<1>2. CASE Overflows(bag, k)
  <2>1. bag[k] = 0 /\ Cardinality(K) >= MaxPendingKeys
    BY <1>2, Zenon DEF Overflows
  <2>2. Cardinality(K) = MaxPendingKeys /\ Cardinality(K) # 0
    BY <1>1, <2>1, SMT
  <2>3. K # {}
    BY <2>2, EmptyCounts, Zenon
  <2>4. o \in K
    <3>1. K \subseteq Nat
      BY <1>1, Zenon
    <3> QED
      BY <2>3, <3>1, LeastIs, Zenon DEF Oldest
  <2>5. k \notin K /\ o # k /\ o \in Key
    BY <1>1, <2>1, <2>4, SMT DEF Keys
  <2>6. new = [[bag EXCEPT ![o] = 0] EXCEPT ![k] = 1]
    BY <1>2, Zenon DEF Recorded
  <2> HIDE DEF new, o
  <2>7. new \in [Key -> Nat] /\ new[k] = 1 /\ new[o] = 0
        /\ \A j \in Key : j # o /\ j # k => new[j] = bag[j]
    BY <1>1, <2>5, <2>6, Zenon
  <2>8. Keys(new) = (K \ {o}) \cup {k}
    BY <2>5, <2>7, SMT DEF Keys
  <2>9. Cardinality(K \ {o}) = Cardinality(K) - 1 /\ IsFiniteSet(K \ {o})
    BY <1>1, <2>4, RemoveCounts, Zenon
  <2>10. k \notin K \ {o}
    BY <2>5, Zenon
  <2>11. Cardinality(Keys(new)) = Cardinality(K \ {o}) + 1
    BY <2>8, <2>9, <2>10, AddCounts, Zenon
  <2>12. Cardinality(Keys(new)) <= MaxPendingKeys
    BY <1>1, <2>2, <2>9, <2>11, SMT
  <2>13. \A j \in Key \ {k} : new[j] <= bag[j]
    <3>1. \A j \in Key : bag[j] \in Nat
      BY Zenon
    <3> QED
      BY <2>7, <3>1, SMT
  <2>14. new[k] = bag[k] + 1
    BY <2>1, <2>7, SMT
  <2> QED
    BY <1>2, <2>7, <2>12, <2>13, <2>14, Zenon DEF new
<1>3. CASE ~Overflows(bag, k)
  <2>1. new = [bag EXCEPT ![k] = bag[k] + 1]
    BY <1>3, Zenon DEF Recorded
  <2> HIDE DEF new
  <2>2. new \in [Key -> Nat] /\ new[k] = bag[k] + 1 /\ \A j \in Key \ {k} : new[j] = bag[j]
    BY <1>1, <2>1, Zenon
  <2>3. \A j \in Key \ {k} : new[j] <= bag[j]
    <3>1. \A j \in Key : bag[j] \in Nat
      BY Zenon
    <3> QED
      BY <2>2, <3>1, SMT
  <2>4. Keys(new) = K \cup {k}
    <3>1. new[k] > 0
      BY <1>1, <2>2, SMT
    <3> QED
      BY <2>2, <3>1, Zenon DEF Keys
  <2>5. /\ k \in K => Cardinality(Keys(new)) = Cardinality(K)
        /\ k \notin K => Cardinality(Keys(new)) = Cardinality(K) + 1
    <3>1. k \in K => Keys(new) = K
      BY <2>4, Zenon
    <3> QED
      BY <1>1, <2>4, <3>1, AddCounts, Zenon
  <2>6. k \in K \/ ~(Cardinality(K) >= MaxPendingKeys)
    <3>1. bag[k] # 0 => k \in K
      BY <1>1, SMT DEF Keys
    <3> QED
      BY <1>3, <3>1, Zenon DEF Overflows
  <2>7. Cardinality(Keys(new)) <= MaxPendingKeys
    BY <1>1, <2>5, <2>6, SMT
  <2> QED
    BY <2>2, <2>3, <2>7, Zenon DEF new
<1> QED
  BY <1>2, <1>3, Zenon

(* What a failed flush merges back: the cap holds, only what was swapped   *)
(* out is added, and all of it when every key fits.                        *)
LEMMA MergedIs ==
  ASSUME Counting, NEW p \in Pod, TrafficTypes, PodOK(p), NEW keep \in Fitting(p)
  PROVE  /\ Merged(p, keep) \in [Key -> Nat]
         /\ Cardinality(Keys(Merged(p, keep))) <= MaxPendingKeys
         /\ keep \subseteq Keys(pending[p])
         /\ \A k \in keep : Merged(p, keep)[k] = acc[p][k] + pending[p][k]
         /\ \A k \in Key \ keep : Merged(p, keep)[k] = acc[p][k]
<1> DEFINE A == Keys(acc[p])
           N == Keys(pending[p]) \ A
           room == Max({0, MaxPendingKeys - Cardinality(A)})
           n == Min({Cardinality(N), room})
<1>1. /\ acc[p] \in [Key -> Nat] /\ pending[p] \in [Key -> Nat]
      /\ Cardinality(A) <= MaxPendingKeys
  BY Zenon DEF TrafficTypes, PodOK
<1>2. PICK new \in SUBSET N : Cardinality(new) = n /\ keep = new \cup (Keys(pending[p]) \cap A)
  BY Zenon DEF Fitting, kSubset
<1>3. /\ IsFiniteSet(A) /\ Cardinality(A) \in Nat /\ MaxPendingKeys \in Nat
      /\ IsFiniteSet(Keys(pending[p])) /\ Keys(pending[p]) \subseteq Key /\ A \subseteq Key
  BY KeysFinite, BoundsAssumption, Zenon
<1>4. IsFiniteSet(N) /\ Cardinality(N) \in Nat /\ IsFiniteSet(new)
  <2>1. IsFiniteSet(N)
    <3>1. N \subseteq Keys(pending[p])
      BY Zenon
    <3> QED
      BY <1>3, <3>1, SubsetCounts, Zenon
  <2> QED
    BY <2>1, EmptyCounts, SubsetCounts, Zenon
<1>5. room = MaxPendingKeys - Cardinality(A) /\ room \in Nat
  <2> DEFINE d == MaxPendingKeys - Cardinality(A)
  <2>1. d \in Nat
    BY <1>1, <1>3, SMT
  <2> HIDE DEF d
  <2>2. d \in {0, d} /\ \A y \in {0, d} : d >= y
    BY <2>1, SMT
  <2>3. \A x \in {0, d} : (\A y \in {0, d} : x >= y) => x = d
    BY <2>1, SMT
  <2>4. Max({0, d}) = d
    BY <2>2, <2>3, Zenon DEF Max
  <2> QED
    BY <2>1, <2>4, Zenon DEF d
<1> HIDE DEF room
<1>6. n <= room /\ n \in Nat
  <2> DEFINE c == Cardinality(N)
             S == {c, room}
  <2>1. c \in Nat /\ room \in Nat
    BY <1>4, <1>5, Zenon
  <2> HIDE DEF c
  <2>2. \E x \in S : \A y \in S : x <= y
    <3>1. CASE c <= room
      BY <2>1, <3>1, SMT
    <3>2. CASE ~(c <= room)
      BY <2>1, <3>2, SMT
    <3> QED
      BY <3>1, <3>2, Zenon
  <2>3. Min(S) \in S /\ \A y \in S : Min(S) <= y
    BY <2>2, Zenon DEF Min
  <2> QED
    BY <2>1, <2>3, Zenon DEF c
<1> HIDE DEF n
<1>7. \A k \in Key : acc[p][k] \in Nat /\ pending[p][k] \in Nat /\ acc[p][k] + pending[p][k] \in Nat
  <2>1. \A k \in Key : acc[p][k] \in Nat /\ pending[p][k] \in Nat
    BY <1>1, Zenon
  <2> QED
    BY <2>1, SMT
<1>8. /\ Merged(p, keep) \in [Key -> Nat]
      /\ \A k \in Key \cap keep : Merged(p, keep)[k] = acc[p][k] + pending[p][k]
      /\ \A k \in Key \ keep : Merged(p, keep)[k] = acc[p][k]
  BY <1>7, Zenon DEF Merged
<1>9. Keys(Merged(p, keep)) \subseteq A \cup new
  <2> SUFFICES ASSUME NEW k \in Key, Merged(p, keep)[k] > 0, k \notin A PROVE k \in new
    BY Zenon DEF Keys
  <2>1. ~(acc[p][k] > 0)
    BY Zenon DEF Keys
  <2>2. k \in keep
    BY <1>8, <2>1, Zenon
  <2> QED
    BY <1>2, <2>2, Zenon
<1>10. A \cap new = {}
  BY Zenon
<1>11. /\ IsFiniteSet(A \cup new)
       /\ Cardinality(A \cup new) = Cardinality(A) + Cardinality(new) - Cardinality(A \cap new)
  BY <1>3, <1>4, UnionCounts, Zenon
<1>12. Cardinality({}) = 0
  BY EmptyCounts, Zenon
<1>13. Cardinality(A \cup new) <= MaxPendingKeys
  <2>1. Cardinality(A \cup new) = Cardinality(A) + n - 0
    BY <1>2, <1>10, <1>11, <1>12, Zenon
  <2> QED
    BY <1>3, <1>5, <1>6, <2>1, SMT
<1>14. /\ Cardinality(Keys(Merged(p, keep))) <= Cardinality(A \cup new)
       /\ Cardinality(Keys(Merged(p, keep))) \in Nat /\ Cardinality(A \cup new) \in Nat
  BY <1>9, <1>11, SubsetCounts, EmptyCounts, KeysFinite, Zenon
<1>15. keep \subseteq Keys(pending[p])
  BY <1>2, Zenon
<1>16. Cardinality(Keys(Merged(p, keep))) <= MaxPendingKeys
  BY <1>3, <1>13, <1>14, SMT
<1> QED
  BY <1>3, <1>8, <1>15, <1>16, Zenon

-----------------------------------------------------------------------------
(* What a step leaves of the gauges and of the traffic.                    *)

(* A blank request is a request nobody has made yet.                       *)
LEMMA BlankIs ==
  /\ Blank \in ReqRecord
  /\ Blank.phase = "idle" /\ Blank.quota = NoQuota /\ Blank.key = NoKey
<1>1. (CHOOSE p \in Pod : TRUE) \in Pod /\ (CHOOSE u \in User : TRUE) \in User
  BY FleetAssumption, Zenon
<1>2. Blank.phase = "idle" /\ Blank.quota = NoQuota /\ Blank.key = NoKey
  BY Zenon DEF Blank
<1>3. 0 \in Int /\ 1 \in Nat \ {0}
  BY SMT
<1> QED
  BY <1>1, <1>2, <1>3, Zenon DEF Blank, ReqRecord, Phase, Route, Judgement

(* What is left of a request that ended, or went with its pod.             *)
LEMMA OverIs ==
  ASSUME NEW rec \in ReqRecord, NEW k \in Key \cup {NoKey}
  PROVE  /\ Over(rec, k) \in ReqRecord
         /\ Over(rec, k).phase = "done" /\ Over(rec, k).user = rec.user
         /\ Over(rec, k).quota = rec.quota /\ Over(rec, k).key = k
<1>1. rec.user \in User /\ rec.quota \in Judgement
  BY Zenon DEF ReqRecord
<1> DEFINE a == [Blank EXCEPT !.phase = "done"]
           b == [a EXCEPT !.user = rec.user]
           c == [b EXCEPT !.quota = rec.quota]
           d == [c EXCEPT !.key = k]
<1>2. Over(rec, k) = d
  BY Zenon DEF Over
<1>3. a \in ReqRecord /\ a.phase = "done"
  BY BlankIs, Zenon DEF ReqRecord, Phase
<1> HIDE DEF a
<1>4. b \in ReqRecord /\ b.phase = "done" /\ b.user = rec.user
  BY <1>1, <1>3, Zenon DEF ReqRecord
<1> HIDE DEF b
<1>5. c \in ReqRecord /\ c.phase = "done" /\ c.user = rec.user /\ c.quota = rec.quota
  BY <1>1, <1>4, Zenon DEF ReqRecord
<1> HIDE DEF c
<1>6. d \in ReqRecord /\ d.phase = "done" /\ d.user = rec.user /\ d.quota = rec.quota /\ d.key = k
  BY <1>5, Zenon DEF ReqRecord
<1> QED
  BY <1>2, <1>6, Zenon

(* The gauge and the pool of each pod change as request r does, which      *)
(* becomes new.                                                            *)
GaugesFollow(r, new) ==
  \A p \in Pod :
    /\ active'[p] = active[p] + (IF new.pod = p /\ new.phase \in Busy THEN 1 ELSE 0)
                              - (IF req[r].pod = p /\ req[r].phase \in Busy THEN 1 ELSE 0)
    /\ conns'[p] = conns[p] + (IF new.pod = p /\ new.phase \in Pooled THEN 1 ELSE 0)
                            - (IF req[r].pod = p /\ req[r].phase \in Pooled THEN 1 ELSE 0)

(* Request r has become new: the gauge and the pool still count what is    *)
(* running, if they changed for r's pod as r did.                          *)
LEMMA LeakStep ==
  ASSUME Counting, ReqTypes, OnlyAbandonedLeak, NEW r \in Request, NEW new \in ReqRecord,
         req' = [req EXCEPT ![r] = new],
         GaugesFollow(r, new)
  PROVE  OnlyAbandonedLeak'
<1>1. req \in [Request -> ReqRecord] /\ active \in [Pod -> Int] /\ conns \in [Pod -> Int]
  BY Zenon DEF ReqTypes
<1>2. /\ req' \in [Request -> ReqRecord] /\ req'[r] = new
      /\ \A s \in Request : s # r => req'[s] = req[s]
  BY <1>1, Zenon
<1> SUFFICES ASSUME NEW p \in Pod
             PROVE  /\ active'[p] = Cardinality(Unfinished(p)')
                    /\ conns'[p] = Cardinality(On(p, Pooled)')
  BY Zenon DEF OnlyAbandonedLeak, Pooled
<1>3. active[p] = Cardinality(Unfinished(p)) /\ conns[p] = Cardinality(On(p, Pooled))
  BY Zenon DEF OnlyAbandonedLeak, Pooled
<1>4. /\ \A s \in Request : s \in Unfinished(p) <=> req[s].pod = p /\ req[s].phase \in Busy
      /\ \A s \in Request : s \in Unfinished(p)' <=> req'[s].pod = p /\ req'[s].phase \in Busy
  <2>1. \A s \in Request : req[s].phase \in Phase /\ req'[s].phase \in Phase
    BY <1>1, <1>2, Zenon DEF ReqRecord
  <2> QED
    BY <2>1, Zenon DEF Unfinished, Busy
<1>5. /\ \A s \in Request : s \in On(p, Pooled) <=> req[s].pod = p /\ req[s].phase \in Pooled
      /\ \A s \in Request : s \in On(p, Pooled)' <=> req'[s].pod = p /\ req'[s].phase \in Pooled
  BY Zenon DEF On
<1>6. /\ Unfinished(p) \in SUBSET Request /\ Unfinished(p)' \in SUBSET Request
      /\ On(p, Pooled) \in SUBSET Request /\ On(p, Pooled)' \in SUBSET Request
  BY Zenon DEF Unfinished, On
<1> DEFINE A == Unfinished(p)
           B == Unfinished(p)'
           C == On(p, Pooled)
           D == On(p, Pooled)'
<1>7. /\ \A s \in Request : s # r => (s \in A <=> s \in B)
      /\ \A s \in Request : s # r => (s \in C <=> s \in D)
  BY <1>2, <1>4, <1>5, Zenon
<1>8. /\ r \in A <=> req[r].pod = p /\ req[r].phase \in Busy
      /\ r \in B <=> new.pod = p /\ new.phase \in Busy
      /\ r \in C <=> req[r].pod = p /\ req[r].phase \in Pooled
      /\ r \in D <=> new.pod = p /\ new.phase \in Pooled
  BY <1>2, <1>4, <1>5, Zenon
<1>9. /\ A \in SUBSET Request /\ B \in SUBSET Request /\ C \in SUBSET Request /\ D \in SUBSET Request
      /\ active[p] = Cardinality(A) /\ conns[p] = Cardinality(C)
      /\ active'[p] = active[p] + (IF r \in B THEN 1 ELSE 0) - (IF r \in A THEN 1 ELSE 0)
      /\ conns'[p] = conns[p] + (IF r \in D THEN 1 ELSE 0) - (IF r \in C THEN 1 ELSE 0)
  BY <1>3, <1>6, <1>8, Zenon DEF GaugesFollow
<1> SUFFICES active'[p] = Cardinality(B) /\ conns'[p] = Cardinality(D)
  OBVIOUS
<1> HIDE DEF A, B, C, D
<1>10. /\ Cardinality(A) \in Nat
       /\ Cardinality(B) = Cardinality(A) + (IF r \in B THEN 1 ELSE 0) - (IF r \in A THEN 1 ELSE 0)
  BY <1>7, <1>9, CountStep, SMT
<1>11. /\ Cardinality(C) \in Nat
       /\ Cardinality(D) = Cardinality(C) + (IF r \in D THEN 1 ELSE 0) - (IF r \in C THEN 1 ELSE 0)
  BY <1>7, <1>9, CountStep, SMT
<1> QED
  BY <1>9, <1>10, <1>11, SMT

(* Neither the keys of the requests nor the counts change.                 *)
LEMMA ExactKept ==
  ASSUME TrafficIsExact, \A s \in Request : req'[s].key = req[s].key,
         UNCHANGED <<acc, pending, wrote, traffic>>,
         short => short', partly => partly'
  PROVE  TrafficIsExact'
<1> SUFFICES ASSUME NEW k \in Key PROVE Counted(k)' = Counted(k) /\ Ended(k)' = Ended(k)
  BY Zenon DEF TrafficIsExact
<1>1. {r \in Request : req'[r].key = k} = {r \in Request : req[r].key = k}
  BY Zenon
<1> QED
  BY <1>1, Zenon DEF Counted, Ended, Outstanding, Unwritten

(* Only what pod p holds of a key has changed.                             *)
LEMMA OutstandingStep ==
  ASSUME Counting, TrafficTypes, TrafficTypes', NEW p \in Pod, NEW k \in Key,
         \A q \in Pod : q # p => /\ acc'[q] = acc[q] /\ pending'[q] = pending[q]
                                 /\ wrote'[q] = wrote[q]
  PROVE  /\ Cardinality(Outstanding(k)) \in Nat
         /\ Unwritten(p, k) \in Nat /\ Unwritten(p, k)' \in Nat
         /\ Cardinality(Outstanding(k)') = Cardinality(Outstanding(k)) - Unwritten(p, k) + Unwritten(p, k)'
<1> DEFINE f == [q \in Pod |-> Unwritten(q, k)]
           g == [q \in Pod |-> Unwritten(q, k)']
<1>1. \A q \in Pod : Unwritten(q, k) \in Nat /\ Unwritten(q, k)' \in Nat
  <2> SUFFICES ASSUME NEW q \in Pod PROVE Unwritten(q, k) \in Nat /\ Unwritten(q, k)' \in Nat
    OBVIOUS
  <2>1. acc[q][k] \in Nat /\ pending[q][k] \in Nat /\ acc'[q][k] \in Nat /\ pending'[q][k] \in Nat
    BY Zenon DEF TrafficTypes
  <2> QED
    BY <2>1, SMT DEF Unwritten
<1>2. \A q \in Pod : q # p => Unwritten(q, k)' = Unwritten(q, k)
  BY Zenon DEF Unwritten
<1>3. f \in [Pod -> Nat] /\ g \in [Pod -> Nat] /\ \A q \in Pod : q # p => g[q] = f[q]
  BY <1>1, <1>2, Zenon
<1>4. f[p] = Unwritten(p, k) /\ g[p] = Unwritten(p, k)'
  BY Zenon
<1>5. Outstanding(k) = Slots(f) /\ Outstanding(k)' = Slots(g)
  <2>1. \A q \in Pod : f[q] = Unwritten(q, k) /\ g[q] = Unwritten(q, k)'
    BY Zenon
  <2> HIDE DEF f, g
  <2>2. Outstanding(k) = Slots(f)
    BY <2>1, Zenon DEF Outstanding, Slots
  <2>3. Outstanding(k)' = Slots(g)
    BY <2>1, Zenon DEF Outstanding, Slots
  <2> QED
    BY <2>2, <2>3, Zenon
<1> HIDE DEF f, g
<1>6. /\ Cardinality(Slots(f)) \in Nat
      /\ Cardinality(Slots(g)) = Cardinality(Slots(f)) - f[p] + g[p]
  BY <1>3, SlotsStep, Zenon
<1> QED
  BY <1>1, <1>4, <1>5, <1>6, Zenon

(* Request r ends and is recorded under K by pod p.                        *)
LEMMA ExactEnds ==
  ASSUME Counting, TrafficTypes, TrafficIsExact, NEW p \in Pod, PodOK(p),
         NEW r \in Request, NEW new, NEW K \in Key,
         req \in [Request -> ReqRecord], req[r].key = NoKey, new.key = K,
         req' = [req EXCEPT ![r] = new],
         acc' = [acc EXCEPT ![p] = Recorded(acc[p], K)],
         short' = (short \/ Overflows(acc[p], K)),
         UNCHANGED <<pending, wrote, flushing, traffic, partly>>
  PROVE  /\ TrafficTypes' /\ TrafficIsExact' /\ \A q \in Pod : PodOK(q) => PodOK(q)'
<1>1. /\ acc \in [Pod -> [Key -> Nat]] /\ acc[p] \in [Key -> Nat] /\ pending[p] \in [Key -> Nat]
      /\ Cardinality(Keys(acc[p])) <= MaxPendingKeys /\ short \in BOOLEAN
  BY Zenon DEF TrafficTypes, PodOK
<1> DEFINE bag == Recorded(acc[p], K)
<1>2. /\ bag \in [Key -> Nat] /\ Cardinality(Keys(bag)) <= MaxPendingKeys
      /\ \A j \in Key \ {K} : bag[j] <= acc[p][j]
      /\ bag[K] = acc[p][K] + 1
      /\ ~Overflows(acc[p], K) => \A j \in Key \ {K} : bag[j] = acc[p][j]
  BY <1>1, RecordedIs, Zenon
<1> HIDE DEF bag
<1>3. acc' = [acc EXCEPT ![p] = bag]
  BY Zenon DEF bag
<1>4. acc' \in [Pod -> [Key -> Nat]] /\ acc'[p] = bag /\ \A q \in Pod : q # p => acc'[q] = acc[q]
  BY <1>1, <1>2, <1>3, Zenon
<1>5. TrafficTypes'
  <2>1. short' \in BOOLEAN
    BY <1>1, Zenon DEF Overflows
  <2> QED
    BY <1>4, <2>1, Zenon DEF TrafficTypes
<1>6. \A q \in Pod : PodOK(q) => PodOK(q)'
  <2> SUFFICES ASSUME NEW q \in Pod, PodOK(q)
               PROVE  Cardinality(Keys(acc'[q])) <= MaxPendingKeys
    BY Zenon DEF PodOK, Keys
  <2>1. CASE q = p
    BY <1>2, <1>4, <2>1, Zenon
  <2>2. CASE q # p
    BY <1>4, <2>2, Zenon DEF PodOK
  <2> QED
    BY <2>1, <2>2, Zenon
<1>7. TrafficIsExact'
  <2> SUFFICES ASSUME NEW k \in Key
               PROVE  /\ ~short' => Counted(k)' >= Ended(k)'
                      /\ ~partly => Counted(k)' <= Ended(k)'
    BY Zenon DEF TrafficIsExact
  <2>1. (~short => Counted(k) >= Ended(k)) /\ (~partly => Counted(k) <= Ended(k))
    BY Zenon DEF TrafficIsExact
  <2> DEFINE A == {s \in Request : req[s].key = k}
             B == {s \in Request : req'[s].key = k}
  <2>2. req'[r] = new /\ \A s \in Request : s # r => req'[s] = req[s]
    BY Zenon
  <2>3. /\ A \in SUBSET Request /\ B \in SUBSET Request
        /\ \A s \in Request : s # r => (s \in A <=> s \in B)
    BY <2>2, Zenon
  <2>4. r \notin A /\ (r \in B <=> k = K)
    <3>1. NoKey # k
      BY KeysFinite, SMT DEF NoKey
    <3> QED
      BY <2>2, <3>1, Zenon
  <2>5. Ended(k) = Cardinality(A) /\ Ended(k)' = Cardinality(B)
    BY Zenon DEF Ended
  <2> HIDE DEF A, B
  <2>6. Ended(k) \in Nat /\ Ended(k)' = Ended(k) + (IF k = K THEN 1 ELSE 0)
    BY <2>3, <2>4, <2>5, CountStep, SMT
  <2>7. /\ Cardinality(Outstanding(k)) \in Nat
        /\ Unwritten(p, k) \in Nat /\ Unwritten(p, k)' \in Nat
        /\ Cardinality(Outstanding(k)') = Cardinality(Outstanding(k)) - Unwritten(p, k) + Unwritten(p, k)'
    BY <1>4, <1>5, OutstandingStep, Zenon
  <2>8. /\ Counted(k) = traffic[k] + Cardinality(Outstanding(k)) /\ traffic[k] \in Nat
        /\ Counted(k)' = traffic[k] + Cardinality(Outstanding(k)')
    BY Zenon DEF Counted, TrafficTypes
  <2>9. PICK w \in Nat : /\ Unwritten(p, k) = acc[p][k] + w
                         /\ Unwritten(p, k)' = bag[k] + w
    <3>1. pending[p][k] \in Nat /\ 0 \in Nat
      BY <1>1, Zenon
    <3> QED
      BY <1>4, <3>1, Zenon DEF Unwritten
  <2>10. /\ acc[p][k] \in Nat /\ bag[k] \in Nat
         /\ k = K => bag[k] = acc[p][k] + 1
         /\ k # K => bag[k] <= acc[p][k]
         /\ ~short' => ~short /\ (k # K => bag[k] = acc[p][k])
    BY <1>1, <1>2, Zenon
  <2>11. Counted(k) \in Nat /\ Counted(k)' = Counted(k) - acc[p][k] + bag[k]
    BY <2>7, <2>8, <2>9, <2>10, SMT
  <2> QED
    BY <2>1, <2>6, <2>10, <2>11, SMT
<1> QED
  BY <1>5, <1>6, <1>7, Zenon

-----------------------------------------------------------------------------
(* The steps of a request.                                                 *)

(* A record request r may go on with: what it is, judged q.                *)
Carries(r, rec, q) ==
  /\ rec \in ReqRecord /\ q \in Judgement
  /\ rec.phase = req[r].phase /\ rec.pod = req[r].pod /\ rec.user = req[r].user
  /\ rec.quota = q /\ rec.key = NoKey

(* What a step of request r leaves that is now judged q.                   *)
Advances(r, q) ==
  /\ ProxyBase'
  /\ \A s \in Request : s # r => req'[s] = req[s]
  /\ req'[r].user = req[r].user /\ req'[r].quota = q

(* Request r becomes new, and nothing is recorded: the invariant holds if  *)
(* the gauge and the pool changed as r did.                                *)
LEMMA Becomes ==
  ASSUME Counting, ProxyBase, NEW r \in Request, NEW new \in ReqRecord,
         req' = [req EXCEPT ![r] = new], req[r].phase # "done", new.phase \in Busy,
         new.key = NoKey,
         new.phase \in {"auth", "body", "throttle"} => new.quota = NoQuota,
         active' \in [Pod -> Int], conns' \in [Pod -> Int],
         GaugesFollow(r, new),
         \A p \in Pod : conns'[p] <= MaxConns,
         UNCHANGED <<now, cfg, acc, pending, wrote, flushing, traffic, partly, short>>
  PROVE  /\ ProxyBase' /\ req'[r] = new
         /\ \A s \in Request : s # r => req'[s] = req[s]
<1>1. /\ ReqTypes /\ TrafficTypes /\ OnlyAbandonedLeak /\ TrafficIsExact
      /\ req \in [Request -> ReqRecord]
  BY Zenon DEF ProxyBase, ReqTypes
<1>2. /\ req' \in [Request -> ReqRecord] /\ req'[r] = new
      /\ \A s \in Request : s # r => req'[s] = req[s]
  BY <1>1, Zenon
<1>3. ReqTypes'
  BY <1>1, <1>2, Zenon DEF ReqTypes
<1>4. TrafficTypes'
  BY <1>1, Zenon DEF TrafficTypes
<1>5. OnlyAbandonedLeak'
  BY <1>1, LeakStep, Zenon
<1>6. \A s \in Request : ReqOK(s)'
  <2>1. \A s \in Request : s # r => ReqOK(s)'
    BY <1>2, Zenon DEF ProxyBase, ReqOK
  <2>2. ReqOK(r)'
    BY <1>2, Zenon DEF ReqOK, Busy
  <2> QED
    BY <2>1, <2>2, Zenon
<1>7. TrafficIsExact'
  <2>1. req[r].key = NoKey
    BY Zenon DEF ProxyBase, ReqOK
  <2>2. \A s \in Request : req'[s].key = req[s].key
    BY <1>2, <2>1, Zenon
  <2> QED
    BY <1>1, <2>2, ExactKept, Zenon
<1>8. \A p \in Pod : PodOK(p)'
  BY ZenonT(40) DEF ProxyBase, PodOK, Keys
<1> QED
  BY <1>2, <1>3, <1>4, <1>5, <1>6, <1>7, <1>8, Zenon DEF ProxyBase

(* Going on within the handler.                                            *)
LEMMA GoesOn ==
  ASSUME Counting, ProxyBase, NEW r \in Request, NEW rec, NEW q, NEW ph \in Busy,
         Carries(r, rec, q), req[r].phase \in Busy,
         ph \in Pooled <=> req[r].phase \in Pooled,
         ph \in {"auth", "body", "throttle"} => q = NoQuota,
         Goes(r, rec, ph), UNCHANGED Rest
  PROVE  Advances(r, q)
<1> DEFINE new == [rec EXCEPT !.phase = ph]
<1>1. /\ new \in ReqRecord /\ new.phase = ph /\ new.pod = req[r].pod /\ new.user = req[r].user
      /\ new.quota = q /\ new.key = NoKey
  BY Zenon DEF Carries, ReqRecord, Busy
<1>2. req' = [req EXCEPT ![r] = new] /\ UNCHANGED <<active, conns, acc, short>>
  BY Zenon DEF Goes
<1> HIDE DEF new
<1>3. /\ active \in [Pod -> Int] /\ conns \in [Pod -> Int] /\ \A p \in Pod : conns[p] <= MaxConns
      /\ UNCHANGED <<now, cfg, pending, wrote, flushing, traffic, partly>>
  BY Zenon DEF ProxyBase, ReqTypes, Rest
<1>4. GaugesFollow(r, new)
  <2>1. /\ \A p \in Pod : active[p] \in Int /\ conns[p] \in Int
        /\ \A p \in Pod : active'[p] = active[p] /\ conns'[p] = conns[p]
    BY <1>2, <1>3, Zenon
  <2>2. \A p \in Pod : /\ new.pod = p <=> req[r].pod = p
                       /\ new.phase \in Busy <=> req[r].phase \in Busy
                       /\ new.phase \in Pooled <=> req[r].phase \in Pooled
    BY <1>1, Zenon
  <2> QED
    BY <2>1, <2>2, SMT DEF GaugesFollow
<1>5. req[r].phase # "done"
  BY Zenon DEF Busy
<1>6. /\ ProxyBase' /\ req'[r] = new
      /\ \A s \in Request : s # r => req'[s] = req[s]
  BY <1>1, <1>2, <1>3, <1>4, <1>5, Becomes, Zenon
<1> QED
  BY <1>1, <1>6, Zenon DEF Advances

(* Ending, with the connection given back when one is held.                *)
LEMMA EndsWell ==
  ASSUME Counting, ProxyBase, NEW r \in Request, NEW rec, NEW q, NEW s, NEW freed,
         Carries(r, rec, q), req[r].phase \in Busy,
         freed = IF req[r].phase \in Pooled THEN 1 ELSE 0,
         Finalize(r, rec, s, freed), UNCHANGED Rest
  PROVE  Advances(r, q)
<1>1. /\ ReqTypes /\ TrafficTypes /\ OnlyAbandonedLeak /\ TrafficIsExact
      /\ req \in [Request -> ReqRecord] /\ now \in 0 .. MaxTime
      /\ active \in [Pod -> Int] /\ conns \in [Pod -> Int]
      /\ UNCHANGED <<now, cfg, pending, wrote, flushing, traffic, partly>>
  BY Zenon DEF ProxyBase, ReqTypes, Rest
<1>2. PICK K \in Key : K = now \div BucketTicks
  BY <1>1, BucketIsKey, Zenon
<1>3. PICK p \in Pod : p = req[r].pod /\ rec.pod = p
  BY Zenon DEF Carries, ReqRecord
<1> DEFINE new == Over(rec, K)
<1>4. /\ new \in ReqRecord /\ new.phase = "done" /\ new.user = req[r].user
      /\ new.quota = q /\ new.key = K
  <2>1. "done" \in Phase /\ rec \in ReqRecord /\ rec.user = req[r].user /\ rec.quota = q
    BY Zenon DEF Phase, Carries
  <2>2. K \in Key \cup {NoKey}
    BY Zenon
  <2> QED
    BY <2>1, <2>2, OverIs, Zenon
<1>5. /\ req' = [req EXCEPT ![r] = new]
      /\ active' = [active EXCEPT ![p] = active[p] - 1]
      /\ conns' = [conns EXCEPT ![p] = conns[p] - freed]
      /\ acc' = [acc EXCEPT ![p] = Recorded(acc[p], K)]
      /\ short' = (short \/ Overflows(acc[p], K))
  BY <1>2, <1>3, Zenon DEF Finalize
<1> HIDE DEF new
<1>6. /\ req' \in [Request -> ReqRecord] /\ req'[r] = new
      /\ \A i \in Request : i # r => req'[i] = req[i]
  BY <1>1, <1>4, <1>5, Zenon
<1>7. /\ active'[p] = active[p] - 1 /\ conns'[p] = conns[p] - freed
      /\ \A i \in Pod : i # p => active'[i] = active[i] /\ conns'[i] = conns[i]
      /\ \A i \in Pod : active[i] \in Int /\ conns[i] \in Int
  BY <1>1, <1>5, Zenon
<1>8. active' \in [Pod -> Int] /\ conns' \in [Pod -> Int] /\ \A i \in Pod : conns'[i] <= MaxConns
  <2>1. freed \in {0, 1} /\ \A i \in Pod : conns[i] <= MaxConns
    BY <1>1, Zenon DEF ReqTypes
  <2>2. active[p] - 1 \in Int /\ conns[p] - freed \in Int /\ conns[p] - freed <= MaxConns
    BY <1>7, <2>1, BoundsAssumption, SMT
  <2>3. active' \in [Pod -> Int] /\ conns' \in [Pod -> Int]
    BY <1>1, <1>5, <2>2, Zenon
  <2> QED
    BY <1>7, <2>1, <2>2, <2>3, Zenon
<1>9. ReqTypes'
  BY <1>1, <1>6, <1>8, Zenon DEF ReqTypes
<1>10. OnlyAbandonedLeak'
  <2>1. /\ \A i \in Pod : req[r].pod = i <=> i = p
        /\ new.phase \notin Busy /\ new.phase \notin Pooled /\ req[r].phase \in Busy
    BY <1>3, <1>4, Zenon DEF Busy, Pooled
  <2>2. GaugesFollow(r, new)
    BY <1>7, <2>1, SMT DEF GaugesFollow
  <2> QED
    BY <1>1, <1>4, <1>5, <2>2, LeakStep, Zenon
<1>11. TrafficTypes' /\ TrafficIsExact' /\ \A i \in Pod : PodOK(i)'
  <2>1. req[r].key = NoKey /\ \A i \in Pod : PodOK(i)
    BY Zenon DEF ProxyBase, ReqOK, Busy
  <2> QED
    BY <1>1, <1>4, <1>5, <2>1, ExactEnds, Zenon
<1>12. \A i \in Request : ReqOK(i)'
  <2>1. \A i \in Request : i # r => ReqOK(i)'
    BY <1>6, Zenon DEF ProxyBase, ReqOK
  <2>2. ReqOK(r)'
    BY <1>4, <1>6, Zenon DEF ReqOK
  <2> QED
    BY <2>1, <2>2, Zenon
<1> QED
  BY <1>4, <1>6, <1>9, <1>10, <1>11, <1>12, Zenon DEF ProxyBase, Advances

(* A request carries what it is.                                           *)
LEMMA CarriesItself ==
  ASSUME ProxyBase, NEW r \in Request, req[r].phase \in Busy
  PROVE  /\ Carries(r, req[r], req[r].quota)
         /\ req[r].phase \in {"auth", "body", "throttle"} => req[r].quota = NoQuota
<1>1. req[r] \in ReqRecord /\ req[r].quota \in Judgement
  BY Zenon DEF ProxyBase, ReqTypes, ReqRecord
<1>2. ReqOK(r)
  BY Zenon DEF ProxyBase
<1> QED
  BY <1>1, <1>2, Zenon DEF Carries, ReqOK, Busy

(* The guardrails and the choice of the backend.                           *)
LEMMA DispatchAdvances ==
  ASSUME Counting, ProxyBase, NEW r \in Request, NEW rec, NEW q, Carries(r, rec, q),
         req[r].phase \in {"auth", "body", "throttle"}, Dispatch(r, rec), UNCHANGED Rest
  PROVE  Advances(r, q)
<1>1. /\ req[r].phase \in Busy /\ req[r].phase \notin Pooled
      /\ "send" \in Busy /\ "send" \notin Pooled
  BY Zenon DEF Busy, Pooled, Phase
<1> DEFINE a == [rec EXCEPT !.limit = 0]
           b == [a EXCEPT !.window = 1]
<1>2. 0 \in Int /\ 1 \in Nat \ {0}
  BY SMT
<1>3. Carries(r, a, q)
  BY <1>2, Zenon DEF Carries, ReqRecord
<1>4. Carries(r, b, q)
  <2> HIDE DEF a
  <2> QED
    BY <1>2, <1>3, Zenon DEF Carries, ReqRecord
<1>5. (\E s : Finalize(r, rec, s, 0)) \/ Goes(r, b, "send")
  BY SMT DEF Dispatch
<1> HIDE DEF b
<1>6. CASE Goes(r, b, "send")
  BY <1>1, <1>4, <1>6, GoesOn, Zenon
<1>7. CASE \E s : Finalize(r, rec, s, 0)
  <2>1. PICK s : Finalize(r, rec, s, 0)
    BY <1>7, Zenon
  <2>2. 0 = IF req[r].phase \in Pooled THEN 1 ELSE 0
    BY <1>1, Zenon
  <2> QED
    BY <1>1, <2>1, <2>2, EndsWell, Zenon
<1> QED
  BY <1>5, <1>6, <1>7, Zenon

(* A refusal or an error: the handler ends where it is.                    *)
LEMMA EndsHere ==
  ASSUME Counting, ProxyBase, NEW r \in Request, req[r].phase \in Busy, NEW s, NEW freed,
         freed = IF req[r].phase \in Pooled THEN 1 ELSE 0,
         Finalize(r, req[r], s, freed), UNCHANGED Rest
  PROVE  Advances(r, req[r].quota)
<1>1. PICK rec : rec = req[r]
  BY Zenon
<1>2. PICK q : q = req[r].quota
  BY Zenon
<1>3. Carries(r, rec, q) /\ Finalize(r, rec, s, freed)
  BY <1>1, <1>2, CarriesItself, Zenon
<1> QED
  BY <1>2, <1>3, EndsWell, Zenon

(* ... or goes on as it is.                                                *)
LEMMA GoesOnHere ==
  ASSUME Counting, ProxyBase, NEW r \in Request, req[r].phase \in Busy, NEW ph \in Busy,
         ph \in Pooled <=> req[r].phase \in Pooled,
         ph \in {"auth", "body", "throttle"} => req[r].phase \in {"auth", "body", "throttle"},
         Goes(r, req[r], ph), UNCHANGED Rest
  PROVE  Advances(r, req[r].quota)
<1>1. PICK rec : rec = req[r]
  BY Zenon
<1>2. PICK q : q = req[r].quota
  BY Zenon
<1>3. /\ Carries(r, rec, q) /\ Goes(r, rec, ph)
      /\ ph \in {"auth", "body", "throttle"} => q = NoQuota
  BY <1>1, <1>2, CarriesItself, Zenon
<1> QED
  BY <1>2, <1>3, GoesOn, Zenon

(* Authenticating a request.                                               *)
LEMMA AuthenticateAdvances ==
  ASSUME Counting, ProxyBase, NEW r \in Request, Authenticate(r)
  PROVE  Advances(r, req[r].quota)
<1>1. /\ req[r].phase = "auth" /\ UNCHANGED Rest
      /\ \/ \E s : Finalize(r, req[r], s, 0)
         \/ Dispatch(r, req[r])
         \/ Goes(r, req[r], "body")
  BY SMT DEF Authenticate
<1>2. /\ req[r].phase \in Busy /\ req[r].phase \notin Pooled /\ req[r].phase \in {"auth", "body", "throttle"}
      /\ "body" \in Busy /\ "body" \notin Pooled
      /\ 0 = IF req[r].phase \in Pooled THEN 1 ELSE 0
  BY <1>1, Zenon DEF Busy, Pooled, Phase
<1>3. CASE \E s : Finalize(r, req[r], s, 0)
  BY <1>1, <1>2, <1>3, EndsHere, Zenon
<1>4. CASE Dispatch(r, req[r])
  <2>1. PICK rec : rec = req[r]
    BY Zenon
  <2>2. PICK q : q = req[r].quota
    BY Zenon
  <2>3. Carries(r, rec, q) /\ Dispatch(r, rec)
    BY <1>2, <1>4, <2>1, <2>2, CarriesItself, Zenon
  <2> QED
    BY <1>1, <1>2, <2>2, <2>3, DispatchAdvances, Zenon
<1>5. CASE Goes(r, req[r], "body")
  BY <1>1, <1>2, <1>5, GoesOnHere, Zenon
<1> QED
  BY <1>1, <1>3, <1>4, <1>5, Zenon

(* Reading its body and building its pipeline.                             *)
LEMMA ReadBodyAdvances ==
  ASSUME Counting, ProxyBase, NEW r \in Request, ReadBody(r)
  PROVE  Advances(r, req[r].quota)
<1>1. PICK c : c = cfg[req[r].pod]
  BY Zenon
<1>2. PICK rec : rec = [req[r] EXCEPT !.limit = c.limit, !.window = c.window, !.guards = c.guards]
  BY Zenon
<1>3. PICK q : q = req[r].quota
  BY Zenon
<1>4. /\ req[r].phase = "body" /\ UNCHANGED Rest
      /\ \/ \E s : Finalize(r, req[r], s, 0)
         \/ Goes(r, rec, "throttle")
         \/ Dispatch(r, rec)
  BY <1>1, <1>2, SMT DEF ReadBody
<1>5. /\ req[r].phase \in Busy /\ req[r].phase \notin Pooled /\ req[r].phase \in {"auth", "body", "throttle"}
      /\ "throttle" \in Busy /\ "throttle" \notin Pooled
      /\ 0 = IF req[r].phase \in Pooled THEN 1 ELSE 0
  BY <1>4, Zenon DEF Busy, Pooled, Phase
<1>6. Carries(r, req[r], q) /\ q = NoQuota
  BY <1>3, <1>5, CarriesItself, Zenon
<1>7. Carries(r, rec, q)
  <2>1. c \in Config
    BY <1>1, Zenon DEF ProxyBase, ReqTypes, ReqRecord
  <2>2. c.limit \in Int /\ c.window \in Nat \ {0} /\ c.guards \in {{}} \cup {d.guards : d \in Config}
    BY <2>1, SettingsAssumption, Zenon
  <2> DEFINE a == [req[r] EXCEPT !.limit = c.limit]
             b == [a EXCEPT !.window = c.window]
             d == [b EXCEPT !.guards = c.guards]
  <2>3. Carries(r, a, q)
    BY <1>6, <2>2, Zenon DEF Carries, ReqRecord
  <2> HIDE DEF a
  <2>4. Carries(r, b, q)
    BY <2>2, <2>3, Zenon DEF Carries, ReqRecord
  <2> HIDE DEF b
  <2>5. Carries(r, d, q)
    BY <2>2, <2>4, Zenon DEF Carries, ReqRecord
  <2> QED
    BY <1>2, <2>5, Zenon DEF a, b
<1>8. CASE \E s : Finalize(r, req[r], s, 0)
  BY <1>4, <1>5, <1>8, EndsHere, Zenon
<1>9. CASE Goes(r, rec, "throttle")
  BY <1>3, <1>4, <1>5, <1>6, <1>7, <1>9, GoesOn, Zenon
<1>10. CASE Dispatch(r, rec)
  BY <1>3, <1>4, <1>5, <1>7, <1>10, DispatchAdvances, Zenon
<1> QED
  BY <1>4, <1>8, <1>9, <1>10, Zenon

(* Waiting for a connection in vain, the upstream call and the stream.     *)
LEMMA AnswerAdvances ==
  ASSUME Counting, ProxyBase, NEW r \in Request,
         PoolTimeout(r) \/ Upstream(r) \/ StreamStart(r) \/ StreamEnd(r) \/ Abandon(r)
  PROVE  Advances(r, req[r].quota)
<1>1. /\ \A ph \in Pooled : ph \in Busy /\ ph \notin {"auth", "body", "throttle"}
      /\ "send" \in Busy /\ "send" \notin Pooled
      /\ {"upstream", "ready", "streaming", "abandoned"} \subseteq Pooled
  BY Zenon DEF Busy, Pooled, Phase
<1>2. CASE PoolTimeout(r)
  <2>1. req[r].phase = "send" /\ UNCHANGED Rest /\ \E s : Finalize(r, req[r], s, 0)
    BY <1>2, SMT DEF PoolTimeout
  <2>2. /\ req[r].phase \in Busy /\ req[r].phase \notin {"auth", "body", "throttle"}
        /\ 0 = IF req[r].phase \in Pooled THEN 1 ELSE 0
    BY <1>1, <2>1, Zenon
  <2> QED
    BY <2>1, <2>2, EndsHere, Zenon
<1>3. CASE Upstream(r)
  <2>1. /\ req[r].phase = "upstream" /\ UNCHANGED Rest
        /\ (\E s : Finalize(r, req[r], s, 1)) \/ Goes(r, req[r], "ready")
    BY <1>3, SMT DEF Upstream
  <2>2. /\ req[r].phase \in Pooled /\ 1 = IF req[r].phase \in Pooled THEN 1 ELSE 0
        /\ req[r].phase \in Busy /\ req[r].phase \notin {"auth", "body", "throttle"}
    BY <1>1, <2>1, Zenon
  <2>3. CASE \E s : Finalize(r, req[r], s, 1)
    BY <2>1, <2>2, <2>3, EndsHere, Zenon
  <2>4. CASE Goes(r, req[r], "ready")
    BY <1>1, <2>1, <2>2, <2>4, GoesOnHere, Zenon
  <2> QED
    BY <2>1, <2>3, <2>4, Zenon
<1>4. CASE StreamStart(r) \/ Abandon(r)
  <2>1. /\ req[r].phase = "ready" /\ UNCHANGED Rest
        /\ Goes(r, req[r], "streaming") \/ Goes(r, req[r], "abandoned")
    BY <1>4, Zenon DEF StreamStart, Abandon
  <2> QED
    BY <1>1, <2>1, GoesOnHere, Zenon
<1>5. CASE StreamEnd(r)
  <2>1. req[r].phase = "streaming" /\ UNCHANGED Rest /\ \E s : Finalize(r, req[r], s, 1)
    BY <1>5, SMT DEF StreamEnd
  <2>2. 1 = IF req[r].phase \in Pooled THEN 1 ELSE 0
    BY <1>1, <2>1, Zenon
  <2> QED
    BY <1>1, <2>1, <2>2, EndsHere, Zenon
<1> QED
  BY <1>2, <1>3, <1>4, <1>5, Zenon

(* A connection of the pool is taken.                                      *)
LEMMA SendAdvances ==
  ASSUME Counting, ProxyBase, NEW r \in Request, Send(r)
  PROVE  Advances(r, req[r].quota)
<1>1. PICK p \in Pod : p = req[r].pod
  BY Zenon DEF ProxyBase, ReqTypes, ReqRecord
<1>2. PICK new : new = [req[r] EXCEPT !.phase = "upstream"]
  BY Zenon
<1>3. /\ req[r].phase = "send" /\ conns[p] < MaxConns
      /\ conns' = [conns EXCEPT ![p] = conns[p] + 1]
      /\ req' = [req EXCEPT ![r] = new]
      /\ UNCHANGED <<now, cfg, acc, pending, wrote, flushing, traffic, partly, short>>
      /\ active' = active
  BY <1>1, <1>2, Zenon DEF Send, Rest
<1>4. /\ active \in [Pod -> Int] /\ conns \in [Pod -> Int] /\ \A i \in Pod : conns[i] <= MaxConns
      /\ req[r] \in ReqRecord
  BY Zenon DEF ProxyBase, ReqTypes
<1>5. /\ req[r].phase \in Busy /\ req[r].phase \notin Pooled /\ req[r].phase # "done"
      /\ "upstream" \in Busy /\ "upstream" \in Pooled
      /\ "upstream" \notin {"auth", "body", "throttle"}
  BY <1>3, Zenon DEF Busy, Pooled, Phase
<1>6. Carries(r, req[r], req[r].quota)
  BY <1>5, CarriesItself, Zenon
<1>7. /\ new \in ReqRecord /\ new.phase = "upstream" /\ new.pod = p /\ new.user = req[r].user
      /\ new.quota = req[r].quota /\ new.key = NoKey
  BY <1>1, <1>2, <1>4, <1>6, Zenon DEF Carries, ReqRecord, Phase
<1>8. /\ \A i \in Pod : active[i] \in Int /\ conns[i] \in Int
      /\ conns[p] + 1 \in Int /\ conns[p] + 1 <= MaxConns
  <2>1. \A i \in Pod : active[i] \in Int /\ conns[i] \in Int
    BY <1>4, Zenon
  <2> QED
    BY <1>3, <2>1, BoundsAssumption, SMT
<1>9. /\ conns' \in [Pod -> Int] /\ conns'[p] = conns[p] + 1
      /\ \A i \in Pod : i # p => conns'[i] = conns[i]
      /\ active' \in [Pod -> Int] /\ \A i \in Pod : active'[i] = active[i]
  BY <1>3, <1>4, <1>8, Zenon
<1>10. \A i \in Pod : conns'[i] <= MaxConns
  BY <1>4, <1>8, <1>9, Zenon
<1>11. GaugesFollow(r, new)
  <2>1. /\ new.phase \in Busy /\ new.phase \in Pooled /\ new.pod = p /\ req[r].pod = p
        /\ req[r].phase \in Busy /\ req[r].phase \notin Pooled
    BY <1>1, <1>5, <1>7, Zenon
  <2> QED
    BY <1>8, <1>9, <2>1, SMT DEF GaugesFollow
<1>12. new.phase \in Busy /\ new.phase \notin {"auth", "body", "throttle"}
  BY <1>5, <1>7, Zenon
<1>13. /\ ProxyBase' /\ req'[r] = new
       /\ \A s \in Request : s # r => req'[s] = req[s]
  BY <1>3, <1>5, <1>7, <1>9, <1>10, <1>11, <1>12, Becomes, Zenon
<1> QED
  BY <1>7, <1>13, Zenon DEF Advances

(* A client calls: the gauge of the pod is raised.  The request was nobody's *)
(* and had not been judged.                                                *)
LEMMA ArriveBase ==
  ASSUME Counting, ProxyBase, NEW r \in Request, Arrive(r)
  PROVE  /\ ProxyBase'
         /\ \A s \in Request : s # r => req'[s] = req[s]
         /\ req[r].quota = NoQuota /\ req'[r].quota = NoQuota
<1>1. PICK p \in Pod, route \in Route, u \in Senders[r] :
        /\ req' = [req EXCEPT ![r] = [Blank EXCEPT
                    !.phase = "auth", !.pod = p, !.route = route, !.user = u]]
        /\ active' = [active EXCEPT ![p] = @ + 1]
  BY Zenon DEF Arrive
<1>2. /\ req[r].phase = "idle" /\ conns' = conns
      /\ UNCHANGED <<now, cfg, acc, pending, wrote, flushing, traffic, partly, short>>
  BY Zenon DEF Arrive, Rest
<1>3. u \in User
  BY BoundsAssumption, Zenon DEF Request
<1> DEFINE a == [Blank EXCEPT !.phase = "auth"]
           b == [a EXCEPT !.pod = p]
           c == [b EXCEPT !.route = route]
           new == [c EXCEPT !.user = u]
<1>4. req' = [req EXCEPT ![r] = new]
  BY <1>1, Zenon
<1>5. a \in ReqRecord /\ a.phase = "auth" /\ a.quota = NoQuota /\ a.key = NoKey
  BY BlankIs, Zenon DEF ReqRecord, Phase
<1> HIDE DEF a
<1>6. b \in ReqRecord /\ b.phase = "auth" /\ b.pod = p /\ b.quota = NoQuota /\ b.key = NoKey
  BY <1>5, Zenon DEF ReqRecord
<1> HIDE DEF b
<1>7. c \in ReqRecord /\ c.phase = "auth" /\ c.pod = p /\ c.quota = NoQuota /\ c.key = NoKey
  BY <1>6, Zenon DEF ReqRecord
<1> HIDE DEF c
<1>8. new \in ReqRecord /\ new.phase = "auth" /\ new.pod = p /\ new.quota = NoQuota /\ new.key = NoKey
  BY <1>3, <1>7, Zenon DEF ReqRecord
<1> HIDE DEF new
<1>9. /\ active \in [Pod -> Int] /\ conns \in [Pod -> Int] /\ \A i \in Pod : conns[i] <= MaxConns
      /\ ReqOK(r)
  BY Zenon DEF ProxyBase, ReqTypes
<1>10. \A i \in Pod : active[i] \in Int /\ conns[i] \in Int /\ active[i] + 1 \in Int
  <2>1. \A i \in Pod : active[i] \in Int /\ conns[i] \in Int
    BY <1>9, Zenon
  <2> QED
    BY <2>1, SMT
<1>11. /\ active' \in [Pod -> Int] /\ active'[p] = active[p] + 1
       /\ \A i \in Pod : i # p => active'[i] = active[i]
       /\ conns' \in [Pod -> Int] /\ \A i \in Pod : conns'[i] = conns[i]
  BY <1>1, <1>2, <1>9, <1>10, Zenon
<1>12. /\ new.phase \in Busy /\ new.phase \notin Pooled
       /\ req[r].phase \notin Busy /\ req[r].phase \notin Pooled /\ req[r].phase # "done"
  BY <1>2, <1>8, Zenon DEF Busy, Pooled, Phase
<1>13. GaugesFollow(r, new)
  BY <1>8, <1>10, <1>11, <1>12, SMT DEF GaugesFollow
<1>14. \A i \in Pod : conns'[i] <= MaxConns
  BY <1>9, <1>11, Zenon
<1>15. /\ ProxyBase' /\ req'[r] = new
       /\ \A s \in Request : s # r => req'[s] = req[s]
  BY <1>2, <1>4, <1>8, <1>11, <1>12, <1>13, <1>14, Becomes, Zenon
<1> QED
  BY <1>2, <1>8, <1>9, <1>15, Zenon DEF ReqOK

(* The record of a request that has been judged.                           *)
LEMMA JudgedCarries ==
  ASSUME ProxyBase, NEW r \in Request, req[r].phase = "throttle",
         NEW v \in {"allowed", "denied", "open"}
  PROVE  LET q == [start |-> WindowStart(req[r].window), len |-> req[r].window,
                   limit |-> req[r].limit, verdict |-> v]
         IN Carries(r, Judged(r, v), q)
<1> DEFINE q == [start |-> WindowStart(req[r].window), len |-> req[r].window,
                 limit |-> req[r].limit, verdict |-> v]
<1>1. /\ req[r] \in ReqRecord /\ req[r].window \in Nat \ {0} /\ req[r].limit \in Int
      /\ now \in 0 .. MaxTime
  BY Zenon DEF ProxyBase, ReqTypes, ReqRecord
<1>2. WindowStart(req[r].window) \in 0 .. MaxTime
  BY <1>1, WindowIsCurrent, Zenon
<1>3. q \in Judgement
  BY <1>1, <1>2, Zenon DEF Judgement
<1>4. Carries(r, req[r], req[r].quota)
  <2>1. req[r].phase \in Busy
    BY Zenon DEF Busy, Phase
  <2> QED
    BY <2>1, CarriesItself, Zenon
<1>5. Judged(r, v) = [req[r] EXCEPT !.quota = q]
  BY Zenon DEF Judged
<1> HIDE DEF q
<1>6. Carries(r, Judged(r, v), q)
  BY <1>3, <1>4, <1>5, Zenon DEF Carries, ReqRecord
<1> QED
  BY <1>6, Zenon DEF q

(* The throttle judges the request by the window it is in.                 *)
LEMMA ThrottleAdvances ==
  ASSUME Counting, ProxyBase, NEW r \in Request, Throttle(r) \/ ThrottleFails(r)
  PROVE  /\ req[r].phase = "throttle" /\ req[r].quota = NoQuota
         /\ \E t \in 0 .. MaxTime, w \in Nat \ {0}, l \in Int, v \in {"allowed", "denied", "open"} :
              /\ t = WindowStart(w) /\ w = req[r].window /\ l = req[r].limit
              /\ Advances(r, [start |-> t, len |-> w, limit |-> l, verdict |-> v])
              /\ Throttle(r) =>
                   v = IF counters[req[r].user][t] + 1 <= l THEN "allowed" ELSE "denied"
              /\ ~Throttle(r) => v = "open"
<1>1. req[r].phase = "throttle" /\ UNCHANGED Rest
  BY Zenon DEF Throttle, ThrottleFails
<1>2. /\ req[r].phase \in Busy /\ req[r].phase \notin Pooled
      /\ req[r].phase \in {"auth", "body", "throttle"}
      /\ 0 = IF req[r].phase \in Pooled THEN 1 ELSE 0
  BY <1>1, Zenon DEF Busy, Pooled, Phase
<1>3. req[r].quota = NoQuota
  BY <1>2, CarriesItself, Zenon
<1>4. PICK w \in Nat \ {0}, l \in Int : w = req[r].window /\ l = req[r].limit
  BY Zenon DEF ProxyBase, ReqTypes, ReqRecord
<1>5. PICK t \in 0 .. MaxTime : t = WindowStart(w)
  <2>1. now \in 0 .. MaxTime
    BY Zenon DEF ProxyBase, ReqTypes
  <2> QED
    BY <2>1, WindowIsCurrent, Zenon
<1> DEFINE ok == counters[req[r].user][t] + 1 <= l
<1>6. PICK v \in {"allowed", "denied", "open"} :
        /\ Dispatch(r, Judged(r, v)) \/ (\E s : Finalize(r, Judged(r, v), s, 0))
        /\ Throttle(r) => v = IF ok THEN "allowed" ELSE "denied"
        /\ ~Throttle(r) => v = "open"
  <2>1. CASE Throttle(r)
    <3>1. CASE ok
      <4>1. Dispatch(r, Judged(r, "allowed"))
        BY <1>4, <1>5, <2>1, <3>1, Zenon DEF Throttle
      <4> QED
        BY <2>1, <3>1, <4>1, Zenon
    <3>2. CASE ~ok
      <4>1. \E s : Finalize(r, Judged(r, "denied"), s, 0)
        BY <1>4, <1>5, <2>1, <3>2, SMT DEF Throttle
      <4> QED
        BY <2>1, <3>2, <4>1, Zenon
    <3> QED
      BY <3>1, <3>2, Zenon
  <2>2. CASE ~Throttle(r)
    <3>1. Dispatch(r, Judged(r, "open"))
      BY <2>2, Zenon DEF ThrottleFails
    <3> QED
      BY <2>2, <3>1, Zenon
  <2> QED
    BY <2>1, <2>2, Zenon
<1>7. PICK q : q = [start |-> t, len |-> w, limit |-> l, verdict |-> v]
  BY Zenon
<1>8. PICK rec : rec = Judged(r, v)
  BY Zenon
<1>9. Carries(r, rec, q)
  BY <1>1, <1>4, <1>5, <1>7, <1>8, JudgedCarries, Zenon
<1>10. Advances(r, q)
  <2>1. CASE Dispatch(r, rec)
    BY <1>1, <1>2, <1>9, <2>1, DispatchAdvances, Zenon
  <2>2. CASE \E s : Finalize(r, rec, s, 0)
    BY <1>1, <1>2, <1>9, <2>2, EndsWell, Zenon
  <2> QED
    BY <1>6, <1>8, <2>1, <2>2, Zenon
<1> QED
  BY <1>1, <1>3, <1>4, <1>5, <1>6, <1>7, <1>10, Zenon

-----------------------------------------------------------------------------
(* The flusher and the environment.                                        *)

(* A step that changes only what pod p counts, and what the table holds.   *)
LEMMA PodStep ==
  ASSUME Counting, ProxyBase, NEW p \in Pod, TrafficTypes', PodOK(p)',
         \A i \in Pod : i # p => /\ acc'[i] = acc[i] /\ pending'[i] = pending[i]
                                 /\ wrote'[i] = wrote[i] /\ flushing'[i] = flushing[i],
         \A r \in Request : req'[r].key = req[r].key,
         short => short', partly => partly',
         \A k \in Key :
           /\ ~short' => traffic'[k] + Unwritten(p, k)' >= traffic[k] + Unwritten(p, k)
           /\ ~partly' => traffic'[k] + Unwritten(p, k)' <= traffic[k] + Unwritten(p, k)
  PROVE  TrafficIsExact' /\ \A i \in Pod : PodOK(i)'
<1>1. TrafficTypes /\ TrafficIsExact /\ \A i \in Pod : PodOK(i)
  BY Zenon DEF ProxyBase
<1>2. \A i \in Pod : PodOK(i)'
  <2>1. \A i \in Pod : i # p => PodOK(i)'
    BY <1>1, Zenon DEF PodOK
  <2> QED
    BY <2>1, Zenon
<1>3. TrafficIsExact'
  <2> SUFFICES ASSUME NEW k \in Key
               PROVE  /\ ~short' => Counted(k)' >= Ended(k)'
                      /\ ~partly' => Counted(k)' <= Ended(k)'
    BY Zenon DEF TrafficIsExact
  <2>1. (~short => Counted(k) >= Ended(k)) /\ (~partly => Counted(k) <= Ended(k))
    BY <1>1, Zenon DEF TrafficIsExact
  <2>2. {r \in Request : req'[r].key = k} = {r \in Request : req[r].key = k}
    BY Zenon
  <2>3. {r \in Request : req[r].key = k} \in SUBSET Request
    BY Zenon
  <2>4. Ended(k)' = Ended(k) /\ Ended(k) \in Nat
    BY <2>2, <2>3, RequestsFinite, Zenon DEF Ended
  <2>5. /\ Cardinality(Outstanding(k)) \in Nat
        /\ Unwritten(p, k) \in Nat /\ Unwritten(p, k)' \in Nat
        /\ Cardinality(Outstanding(k)') = Cardinality(Outstanding(k)) - Unwritten(p, k) + Unwritten(p, k)'
    BY <1>1, OutstandingStep, Zenon
  <2>6. /\ Counted(k) = traffic[k] + Cardinality(Outstanding(k)) /\ traffic[k] \in Nat
        /\ Counted(k)' = traffic'[k] + Cardinality(Outstanding(k)') /\ traffic'[k] \in Nat
    BY <1>1, Zenon DEF Counted, TrafficTypes
  <2>7. /\ ~short' => traffic'[k] + Unwritten(p, k)' >= traffic[k] + Unwritten(p, k)
        /\ ~partly' => traffic'[k] + Unwritten(p, k)' <= traffic[k] + Unwritten(p, k)
    BY Zenon
  <2>8. /\ ~short' => Counted(k)' >= Counted(k)
        /\ ~partly' => Counted(k)' <= Counted(k)
        /\ Counted(k) \in Int /\ Counted(k)' \in Int
    BY <2>5, <2>6, <2>7, SMT
  <2>9. ~short' => Counted(k)' >= Ended(k)
    <3>1. ~short' => Counted(k) >= Ended(k)
      BY <2>1, Zenon
    <3> QED
      BY <2>4, <2>8, <3>1, SMT
  <2>10. ~partly' => Counted(k)' <= Ended(k)
    <3>1. ~partly' => Counted(k) <= Ended(k)
      BY <2>1, Zenon
    <3> QED
      BY <2>4, <2>8, <3>1, SMT
  <2> QED
    BY <2>4, <2>9, <2>10, Zenon
<1> QED
  BY <1>2, <1>3, Zenon

(* No pod's gauge and no request changes.                                  *)
LEMMA StillBase ==
  ASSUME ProxyBase, UNCHANGED Still, TrafficTypes', TrafficIsExact', \A p \in Pod : PodOK(p)'
  PROVE  ProxyBase'
<1>1. UNCHANGED <<now, cfg, req, active, conns>>
  BY Zenon DEF Still
<1>2. ReqTypes' /\ \A r \in Request : ReqOK(r)'
  BY <1>1, Zenon DEF ProxyBase, ReqTypes, ReqOK
<1>3. OnlyAbandonedLeak'
  BY <1>1, Zenon DEF ProxyBase, OnlyAbandonedLeak, Unfinished, On
<1> QED
  BY <1>2, <1>3, Zenon DEF ProxyBase

(* Nothing is accumulated under any key.                                   *)
LEMMA NoneIs ==
  ASSUME Counting
  PROVE  /\ [k \in Key |-> 0] \in [Key -> Nat]
         /\ \A k \in Key : [j \in Key |-> 0][k] = 0
         /\ Keys([k \in Key |-> 0]) = {}
         /\ Cardinality({}) = 0 /\ Cardinality({}) <= MaxPendingKeys
<1>1. [k \in Key |-> 0] \in [Key -> Nat] /\ \A k \in Key : [j \in Key |-> 0][k] = 0
  BY SMT
<1>2. Keys([k \in Key |-> 0]) = {}
  BY SMT DEF Keys
<1>3. Cardinality({}) = 0
  BY EmptyCounts, Zenon
<1> QED
  BY <1>1, <1>2, <1>3, BoundsAssumption, SMT

(* The accumulator is swapped out.                                         *)
LEMMA FlushBeginBase ==
  ASSUME Counting, ProxyBase, NEW p \in Pod, FlushBegin(p)
  PROVE  ProxyBase'
<1> DEFINE none == [k \in Key |-> 0]
<1>1. /\ ~flushing[p] /\ UNCHANGED Still /\ UNCHANGED <<traffic, partly, short>>
      /\ flushing' = [flushing EXCEPT ![p] = TRUE]
      /\ pending' = [pending EXCEPT ![p] = acc[p]]
      /\ acc' = [acc EXCEPT ![p] = none]
      /\ wrote' = [wrote EXCEPT ![p] = {}]
  BY Zenon DEF FlushBegin
<1>2. TrafficTypes /\ PodOK(p)
  BY Zenon DEF ProxyBase
<1>3. /\ none \in [Key -> Nat] /\ Keys(none) = {} /\ Cardinality(Keys(none)) <= MaxPendingKeys
      /\ \A k \in Key : none[k] = 0
  BY NoneIs, Zenon
<1> HIDE DEF none
<1>4. /\ acc'[p] = none /\ pending'[p] = acc[p] /\ wrote'[p] = {} /\ flushing'[p] = TRUE
      /\ \A i \in Pod : i # p => /\ acc'[i] = acc[i] /\ pending'[i] = pending[i]
                                 /\ wrote'[i] = wrote[i] /\ flushing'[i] = flushing[i]
  BY <1>1, <1>2, Zenon DEF TrafficTypes
<1>5. TrafficTypes'
  BY <1>1, <1>2, <1>3, Zenon DEF TrafficTypes
<1>6. PodOK(p)'
  BY <1>3, <1>4, Zenon DEF PodOK
<1>7. \A k \in Key : traffic'[k] + Unwritten(p, k)' = traffic[k] + Unwritten(p, k)
  <2> SUFFICES ASSUME NEW k \in Key PROVE Unwritten(p, k)' = Unwritten(p, k)
    BY <1>1, Zenon
  <2>1. acc[p][k] \in Nat /\ wrote[p] = {} /\ pending[p][k] = 0
    <3>1. pending[p] = none
      BY <1>1, <1>2, Zenon DEF PodOK, none
    <3> QED
      BY <1>1, <1>2, <1>3, <3>1, ZenonT(40) DEF PodOK, TrafficTypes
  <2>2. Unwritten(p, k) = acc[p][k] + 0 /\ Unwritten(p, k)' = 0 + acc[p][k]
    BY <1>3, <1>4, <2>1, Zenon DEF Unwritten
  <2> QED
    BY <2>1, <2>2, SMT
<1>8. \A k \in Key : traffic[k] + Unwritten(p, k) \in Int
  <2>1. \A k \in Key : traffic[k] \in Nat /\ acc[p][k] \in Nat /\ pending[p][k] \in Nat
    <3>1. traffic \in [Key -> Nat] /\ acc[p] \in [Key -> Nat] /\ pending[p] \in [Key -> Nat]
      BY <1>2, Zenon DEF TrafficTypes
    <3> QED
      BY <3>1, Zenon
  <2> QED
    BY <2>1, SMT DEF Unwritten
<1>9. \A k \in Key : /\ traffic'[k] + Unwritten(p, k)' >= traffic[k] + Unwritten(p, k)
                     /\ traffic'[k] + Unwritten(p, k)' <= traffic[k] + Unwritten(p, k)
  <2>1. \A x \in Int : x >= x /\ x <= x
    BY SMT
  <2> QED
    BY <1>7, <1>8, <2>1, Zenon
<1>10. \A r \in Request : req'[r].key = req[r].key
  BY <1>1, Zenon DEF Still
<1>11. TrafficIsExact' /\ \A i \in Pod : PodOK(i)'
  BY <1>1, <1>4, <1>5, <1>6, <1>9, <1>10, PodStep, Zenon
<1> QED
  BY <1>1, <1>5, <1>11, StillBase, Zenon

(* A row is written.                                                       *)
LEMMA FlushRowBase ==
  ASSUME Counting, ProxyBase, NEW p \in Pod, FlushRow(p)
  PROVE  ProxyBase'
<1>1. PICK j \in Keys(pending[p]) \ wrote[p] :
        /\ traffic' = [traffic EXCEPT ![j] = @ + pending[p][j]]
        /\ wrote' = [wrote EXCEPT ![p] = @ \cup {j}]
  BY Zenon DEF FlushRow
<1>2. /\ flushing[p] /\ UNCHANGED Still /\ UNCHANGED <<acc, pending, flushing, partly, short>>
  BY Zenon DEF FlushRow
<1>3. TrafficTypes /\ PodOK(p) /\ j \in Key
  BY Zenon DEF ProxyBase, Keys
<1>4. \A k \in Key : traffic[k] \in Nat /\ acc[p][k] \in Nat /\ pending[p][k] \in Nat
  <2>1. traffic \in [Key -> Nat] /\ acc[p] \in [Key -> Nat] /\ pending[p] \in [Key -> Nat]
    BY <1>3, Zenon DEF TrafficTypes
  <2> QED
    BY <2>1, Zenon
<1>5. /\ traffic' \in [Key -> Nat] /\ traffic'[j] = traffic[j] + pending[p][j]
      /\ \A k \in Key : k # j => traffic'[k] = traffic[k]
  <2>1. traffic[j] + pending[p][j] \in Nat
    BY <1>3, <1>4, SMT
  <2> QED
    BY <1>1, <1>3, <2>1, Zenon DEF TrafficTypes
<1>6. /\ wrote'[p] = wrote[p] \cup {j} /\ \A i \in Pod : i # p => wrote'[i] = wrote[i]
      /\ wrote' \in [Pod -> SUBSET Key]
  BY <1>1, <1>3, Zenon DEF TrafficTypes
<1>7. TrafficTypes'
  BY <1>2, <1>3, <1>5, <1>6, Zenon DEF TrafficTypes
<1>8. PodOK(p)'
  BY <1>1, <1>2, <1>3, <1>6, Zenon DEF PodOK
<1>9. \A k \in Key : /\ traffic'[k] + Unwritten(p, k)' >= traffic[k] + Unwritten(p, k)
                     /\ traffic'[k] + Unwritten(p, k)' <= traffic[k] + Unwritten(p, k)
  <2> SUFFICES ASSUME NEW k \in Key
               PROVE  /\ traffic'[k] + Unwritten(p, k)' >= traffic[k] + Unwritten(p, k)
                      /\ traffic'[k] + Unwritten(p, k)' <= traffic[k] + Unwritten(p, k)
    BY Zenon
  <2>1. CASE k = j
    <3>1. Unwritten(p, k) = acc[p][k] + pending[p][k] /\ Unwritten(p, k)' = acc[p][k] + 0
      BY <1>1, <1>2, <1>6, <2>1, Zenon DEF Unwritten
    <3> QED
      BY <1>4, <1>5, <2>1, <3>1, SMT
  <2>2. CASE k # j
    <3>1. Unwritten(p, k)' = Unwritten(p, k)
      BY <1>2, <1>6, <2>2, Zenon DEF Unwritten
    <3>2. Unwritten(p, k) \in Nat
      BY <1>4, SMT DEF Unwritten
    <3> QED
      BY <1>4, <1>5, <2>2, <3>1, <3>2, SMT
  <2> QED
    BY <2>1, <2>2, Zenon
<1>10. \A r \in Request : req'[r].key = req[r].key
  BY <1>2, Zenon DEF Still
<1>11. TrafficIsExact' /\ \A i \in Pod : PodOK(i)'
  BY <1>2, <1>6, <1>7, <1>8, <1>9, <1>10, PodStep, Zenon
<1> QED
  BY <1>2, <1>7, <1>11, StillBase, Zenon

(* The flush is over: every row has been written.                          *)
LEMMA FlushDoneBase ==
  ASSUME Counting, ProxyBase, NEW p \in Pod, FlushDone(p)
  PROVE  ProxyBase'
<1> DEFINE none == [k \in Key |-> 0]
<1>1. /\ wrote[p] = Keys(pending[p]) /\ UNCHANGED Still /\ UNCHANGED <<acc, traffic, partly, short>>
      /\ flushing' = [flushing EXCEPT ![p] = FALSE]
      /\ pending' = [pending EXCEPT ![p] = none]
      /\ wrote' = [wrote EXCEPT ![p] = {}]
  BY Zenon DEF FlushDone
<1>2. TrafficTypes /\ PodOK(p)
  BY Zenon DEF ProxyBase
<1>3. none \in [Key -> Nat] /\ \A k \in Key : none[k] = 0
  BY NoneIs, Zenon
<1>4. TrafficTypes'
  BY <1>1, <1>2, <1>3, Zenon DEF TrafficTypes
<1>5. /\ pending'[p] = none /\ wrote'[p] = {} /\ flushing'[p] = FALSE
      /\ \A i \in Pod : i # p => /\ acc'[i] = acc[i] /\ pending'[i] = pending[i]
                                 /\ wrote'[i] = wrote[i] /\ flushing'[i] = flushing[i]
  BY <1>1, <1>2, Zenon DEF TrafficTypes
<1>6. PodOK(p)'
  BY <1>1, <1>2, <1>5, Zenon DEF PodOK
<1> HIDE DEF none
<1>7. \A k \in Key : /\ traffic'[k] + Unwritten(p, k)' >= traffic[k] + Unwritten(p, k)
                     /\ traffic'[k] + Unwritten(p, k)' <= traffic[k] + Unwritten(p, k)
  <2> SUFFICES ASSUME NEW k \in Key
               PROVE  /\ traffic'[k] + Unwritten(p, k)' >= traffic[k] + Unwritten(p, k)
                      /\ traffic'[k] + Unwritten(p, k)' <= traffic[k] + Unwritten(p, k)
    BY Zenon
  <2>1. traffic[k] \in Nat /\ acc[p][k] \in Nat /\ pending[p][k] \in Nat
    BY <1>2, Zenon DEF TrafficTypes
  <2>2. k \notin wrote[p] => pending[p][k] = 0
    BY <1>1, <2>1, SMT DEF Keys
  <2>3. Unwritten(p, k) = acc[p][k] + 0
    BY <2>2, Zenon DEF Unwritten
  <2>4. Unwritten(p, k)' = acc[p][k] + 0
    BY <1>1, <1>3, <1>5, Zenon DEF Unwritten
  <2> QED
    BY <1>1, <2>1, <2>3, <2>4, SMT
<1>8. \A r \in Request : req'[r].key = req[r].key
  BY <1>1, Zenon DEF Still
<1>9. TrafficIsExact' /\ \A i \in Pod : PodOK(i)'
  BY <1>1, <1>4, <1>5, <1>6, <1>7, <1>8, PodStep, Zenon
<1> QED
  BY <1>1, <1>4, <1>9, StillBase, Zenon

(* The flush fails and puts back what fits.                                *)
LEMMA FlushFailsBase ==
  ASSUME Counting, ProxyBase, NEW p \in Pod, FlushFails(p)
  PROVE  ProxyBase'
<1> DEFINE none == [k \in Key |-> 0]
<1>1. PICK keep \in Fitting(p) :
        /\ acc' = [acc EXCEPT ![p] = Merged(p, keep)]
        /\ short' = (short \/ keep # Keys(pending[p]))
  BY Zenon DEF FlushFails
<1>2. /\ UNCHANGED Still /\ traffic' = traffic
      /\ partly' = (partly \/ wrote[p] # {})
      /\ flushing' = [flushing EXCEPT ![p] = FALSE]
      /\ pending' = [pending EXCEPT ![p] = none]
      /\ wrote' = [wrote EXCEPT ![p] = {}]
  BY Zenon DEF FlushFails
<1>3. TrafficTypes /\ PodOK(p)
  BY Zenon DEF ProxyBase
<1>4. none \in [Key -> Nat] /\ \A k \in Key : none[k] = 0
  BY NoneIs, Zenon
<1> DEFINE bag == Merged(p, keep)
<1>5. /\ bag \in [Key -> Nat] /\ Cardinality(Keys(bag)) <= MaxPendingKeys
      /\ keep \subseteq Keys(pending[p])
      /\ \A k \in keep : bag[k] = acc[p][k] + pending[p][k]
      /\ \A k \in Key \ keep : bag[k] = acc[p][k]
  BY <1>3, MergedIs, Zenon
<1> HIDE DEF bag
<1>6. acc' = [acc EXCEPT ![p] = bag]
  BY <1>1, Zenon DEF bag
<1>7. TrafficTypes'
  <2>1. acc' \in [Pod -> [Key -> Nat]]
    BY <1>3, <1>5, <1>6, Zenon DEF TrafficTypes
  <2>2. short' \in BOOLEAN /\ partly' \in BOOLEAN
    BY <1>1, <1>2, <1>3, Zenon DEF TrafficTypes
  <2>3. /\ pending' \in [Pod -> [Key -> Nat]] /\ wrote' \in [Pod -> SUBSET Key]
        /\ flushing' \in [Pod -> BOOLEAN]
    BY <1>2, <1>3, <1>4, Zenon DEF TrafficTypes
  <2> QED
    BY <1>2, <1>3, <2>1, <2>2, <2>3, Zenon DEF TrafficTypes
<1>8. /\ acc'[p] = bag /\ pending'[p] = none /\ wrote'[p] = {} /\ flushing'[p] = FALSE
      /\ \A i \in Pod : i # p => /\ acc'[i] = acc[i] /\ pending'[i] = pending[i]
                                 /\ wrote'[i] = wrote[i] /\ flushing'[i] = flushing[i]
  BY <1>2, <1>3, <1>6, Zenon DEF TrafficTypes
<1>9. PodOK(p)'
  BY <1>5, <1>8, Zenon DEF PodOK
<1> HIDE DEF none
<1>10. \A k \in Key : /\ ~short' => traffic'[k] + Unwritten(p, k)' >= traffic[k] + Unwritten(p, k)
                      /\ ~partly' => traffic'[k] + Unwritten(p, k)' <= traffic[k] + Unwritten(p, k)
  <2> SUFFICES ASSUME NEW k \in Key
               PROVE  /\ ~short' => traffic'[k] + Unwritten(p, k)' >= traffic[k] + Unwritten(p, k)
                      /\ ~partly' => traffic'[k] + Unwritten(p, k)' <= traffic[k] + Unwritten(p, k)
    BY Zenon
  <2>1. traffic[k] \in Nat /\ acc[p][k] \in Nat /\ pending[p][k] \in Nat
    BY <1>3, Zenon DEF TrafficTypes
  <2>2. Unwritten(p, k)' = bag[k] + 0
    BY <1>4, <1>8, Zenon DEF Unwritten
  <2>3. bag[k] = IF k \in keep THEN acc[p][k] + pending[p][k] ELSE acc[p][k]
    BY <1>5, Zenon
  <2>4. ~short' => k \in keep \/ pending[p][k] = 0
    <3>1. k \in Keys(pending[p]) \/ pending[p][k] = 0
      BY <2>1, SMT DEF Keys
    <3> QED
      BY <1>1, <3>1, Zenon
  <2>5. ~partly' => k \notin wrote[p]
    BY <1>2, Zenon
  <2>6. Unwritten(p, k) = acc[p][k] + (IF k \in wrote[p] THEN 0 ELSE pending[p][k])
    BY Zenon DEF Unwritten
  <2> QED
    BY <1>2, <2>1, <2>2, <2>3, <2>4, <2>5, <2>6, SMTT(30)
<1>11. \A r \in Request : req'[r].key = req[r].key
  BY <1>2, Zenon DEF Still
<1>12. TrafficIsExact' /\ \A i \in Pod : PodOK(i)'
  <2>1. (short => short') /\ (partly => partly')
    BY <1>1, <1>2, Zenon
  <2> QED
    BY <1>7, <1>8, <1>9, <1>10, <1>11, <2>1, PodStep, Zenon
<1> QED
  BY <1>2, <1>7, <1>12, StillBase, Zenon

(* A pod is replaced: its gauge and pool are empty, as is what it runs.    *)
LEMMA RestartBase ==
  ASSUME Counting, ProxyBase, NEW p \in Pod, Restart(p)
  PROVE  /\ ProxyBase'
         /\ \A r \in Request : req'[r].user = req[r].user /\ req'[r].quota = req[r].quota
<1> DEFINE none == [k \in Key |-> 0]
           Gone(r) == [Over(req[r], NoKey) EXCEPT !.phase = "lost"]
<1>1. /\ req' = [r \in Request |-> IF r \in Unfinished(p) THEN Gone(r) ELSE req[r]]
      /\ active' = [active EXCEPT ![p] = 0]
      /\ conns' = [conns EXCEPT ![p] = 0]
      /\ acc' = [acc EXCEPT ![p] = none]
      /\ pending' = [pending EXCEPT ![p] = none]
      /\ wrote' = [wrote EXCEPT ![p] = {}]
      /\ flushing' = [flushing EXCEPT ![p] = FALSE]
      /\ short' = TRUE
      /\ UNCHANGED <<now, cfg, counters, traffic, partly>>
  BY Zenon DEF Restart
<1>2. /\ ReqTypes /\ TrafficTypes /\ PodOK(p) /\ OnlyAbandonedLeak /\ \A r \in Request : ReqOK(r)
      /\ req \in [Request -> ReqRecord]
  BY Zenon DEF ProxyBase, ReqTypes
<1>3. /\ none \in [Key -> Nat] /\ Keys(none) = {} /\ Cardinality(Keys(none)) <= MaxPendingKeys
      /\ \A k \in Key : none[k] = 0
  BY NoneIs, Zenon
<1>4. \A r \in Request :
        /\ Gone(r) \in ReqRecord /\ Gone(r).phase = "lost" /\ Gone(r).user = req[r].user
        /\ Gone(r).quota = req[r].quota /\ Gone(r).key = NoKey
  <2> SUFFICES ASSUME NEW r \in Request
               PROVE  /\ Gone(r) \in ReqRecord /\ Gone(r).phase = "lost" /\ Gone(r).user = req[r].user
                      /\ Gone(r).quota = req[r].quota /\ Gone(r).key = NoKey
    BY Zenon
  <2>1. req[r] \in ReqRecord /\ NoKey \in Key \cup {NoKey}
    BY <1>2, Zenon
  <2> DEFINE o == Over(req[r], NoKey)
  <2>2. /\ o \in ReqRecord /\ o.user = req[r].user /\ o.quota = req[r].quota /\ o.key = NoKey
    BY <2>1, OverIs, Zenon
  <2> HIDE DEF o
  <2>3. /\ [o EXCEPT !.phase = "lost"] \in ReqRecord /\ [o EXCEPT !.phase = "lost"].phase = "lost"
        /\ [o EXCEPT !.phase = "lost"].user = o.user /\ [o EXCEPT !.phase = "lost"].quota = o.quota
        /\ [o EXCEPT !.phase = "lost"].key = o.key
    BY <2>2, Zenon DEF ReqRecord, Phase
  <2> QED
    BY <2>2, <2>3, Zenon DEF o
<1> HIDE DEF Gone
<1>5. \A r \in Request : /\ r \in Unfinished(p) => req'[r] = Gone(r)
                         /\ r \notin Unfinished(p) => req'[r] = req[r]
  BY <1>1, Zenon
<1>6. req' \in [Request -> ReqRecord]
  <2>1. \A r \in Request : (IF r \in Unfinished(p) THEN Gone(r) ELSE req[r]) \in ReqRecord
    BY <1>2, <1>4, Zenon
  <2> QED
    BY <1>1, <2>1, Zenon
<1>7. \A r \in Request : req'[r].user = req[r].user /\ req'[r].quota = req[r].quota
  BY <1>4, <1>5, Zenon
<1>8. \A r \in Request : req[r].key = NoKey \/ r \notin Unfinished(p)
  BY <1>2, Zenon DEF ReqOK, Unfinished
<1>9. \A r \in Request : req'[r].key = req[r].key
  BY <1>4, <1>5, <1>8, Zenon
<1>10. \A r \in Request : ReqOK(r)'
  <2>1. \A r \in Request : r \in Unfinished(p) => ReqOK(r)'
    BY <1>4, <1>5, Zenon DEF ReqOK
  <2>2. \A r \in Request : r \notin Unfinished(p) => ReqOK(r)'
    BY <1>2, <1>5, Zenon DEF ReqOK
  <2> QED
    BY <2>1, <2>2, Zenon
<1>11. /\ active' \in [Pod -> Int] /\ conns' \in [Pod -> Int]
       /\ active'[p] = 0 /\ conns'[p] = 0
       /\ \A i \in Pod : i # p => active'[i] = active[i] /\ conns'[i] = conns[i]
  <2>1. 0 \in Int
    BY SMT
  <2> QED
    BY <1>1, <1>2, <2>1, Zenon DEF ReqTypes
<1>12. ReqTypes'
  <2>1. 0 <= MaxConns
    BY BoundsAssumption, SMT
  <2>2. \A i \in Pod : conns'[i] <= MaxConns
    BY <1>2, <1>11, <2>1, Zenon DEF ReqTypes
  <2> QED
    BY <1>1, <1>2, <1>6, <1>11, <2>2, Zenon DEF ReqTypes
<1>13. OnlyAbandonedLeak'
  <2> SUFFICES ASSUME NEW i \in Pod
               PROVE  /\ active'[i] = Cardinality(Unfinished(i)')
                      /\ conns'[i] = Cardinality(On(i, Pooled)')
    BY Zenon DEF OnlyAbandonedLeak, Pooled
  <2>1. active[i] = Cardinality(Unfinished(i)) /\ conns[i] = Cardinality(On(i, Pooled))
    BY <1>2, Zenon DEF OnlyAbandonedLeak, Pooled
  <2>2. \A r \in On(i, Pooled) : r \in Unfinished(i)
    BY Zenon DEF On, Unfinished, Pooled
  <2>3. \A r \in Request : r \in Unfinished(p) => r \notin Unfinished(i)' /\ r \notin On(i, Pooled)'
    BY <1>4, <1>5, Zenon DEF On, Unfinished, Pooled
  <2>4. \A r \in Request : r \notin Unfinished(p) =>
          /\ r \in Unfinished(i)' <=> r \in Unfinished(i)
          /\ r \in On(i, Pooled)' <=> r \in On(i, Pooled)
    BY <1>5, Zenon DEF On, Unfinished
  <2>5. CASE i = p
    <3>1. Unfinished(i)' = {} /\ On(i, Pooled)' = {}
      <4>1. \A r \in Request : r \notin Unfinished(i)' /\ r \notin On(i, Pooled)'
        BY <2>2, <2>3, <2>4, <2>5, Zenon
      <4> QED
        BY <4>1, Zenon DEF Unfinished, On
    <3> QED
      BY <1>11, <2>5, <3>1, NoneIs, Zenon
  <2>6. CASE i # p
    <3>1. \A r \in Unfinished(p) : r \notin Unfinished(i)
      BY <2>6, Zenon DEF Unfinished
    <3>2. Unfinished(i)' = Unfinished(i)
      <4>1. \A r \in Request : r \in Unfinished(i)' <=> r \in Unfinished(i)
        BY <2>3, <2>4, <3>1, Zenon
      <4> QED
        BY <4>1, Zenon DEF Unfinished
    <3>3. On(i, Pooled)' = On(i, Pooled)
      <4>1. \A r \in Request : r \in On(i, Pooled)' <=> r \in On(i, Pooled)
        BY <2>2, <2>3, <2>4, <3>1, Zenon
      <4> QED
        BY <4>1, Zenon DEF On
    <3> QED
      BY <1>11, <2>1, <2>6, <3>2, <3>3, Zenon
  <2> QED
    BY <2>5, <2>6, Zenon
<1>14. /\ acc'[p] = none /\ pending'[p] = none /\ wrote'[p] = {} /\ flushing'[p] = FALSE
       /\ \A i \in Pod : i # p => /\ acc'[i] = acc[i] /\ pending'[i] = pending[i]
                                  /\ wrote'[i] = wrote[i] /\ flushing'[i] = flushing[i]
  BY <1>1, <1>2, Zenon DEF TrafficTypes
<1>15. TrafficTypes'
  BY <1>1, <1>2, <1>3, Zenon DEF TrafficTypes
<1>16. PodOK(p)'
  BY <1>3, <1>14, ZenonT(40) DEF PodOK, none
<1> HIDE DEF none
<1>17. \A k \in Key : traffic'[k] + Unwritten(p, k)' <= traffic[k] + Unwritten(p, k)
  <2> SUFFICES ASSUME NEW k \in Key
               PROVE  traffic'[k] + Unwritten(p, k)' <= traffic[k] + Unwritten(p, k)
    BY Zenon
  <2>1. traffic[k] \in Nat /\ acc[p][k] \in Nat /\ pending[p][k] \in Nat
    BY <1>2, Zenon DEF TrafficTypes
  <2>2. Unwritten(p, k)' = 0 + 0
    BY <1>3, <1>14, Zenon DEF Unwritten
  <2> QED
    BY <1>1, <2>1, <2>2, SMTT(30) DEF Unwritten
<1>18. TrafficIsExact' /\ \A i \in Pod : PodOK(i)'
  BY <1>1, <1>9, <1>14, <1>15, <1>16, <1>17, PodStep, Zenon
<1> QED
  BY <1>7, <1>10, <1>12, <1>13, <1>15, <1>18, Zenon DEF ProxyBase

(* An edited setting reaches a pod, or time passes.                        *)
LEMMA EnvironmentBase ==
  ASSUME ProxyBase, (\E p \in Pod : Reload(p)) \/ Tick
  PROVE  /\ ProxyBase' /\ UNCHANGED <<req, counters>>
         /\ now' \in 0 .. MaxTime /\ now <= now'
<1>1. /\ UNCHANGED <<req, active, conns, counters, acc, pending, wrote, flushing, traffic, partly, short>>
      /\ cfg' = cfg \/ \E p \in Pod, c \in Config : cfg' = [cfg EXCEPT ![p] = c]
      /\ now' = now \/ (now < MaxTime /\ now' = now + 1)
  BY Zenon DEF Reload, Tick
<1>2. cfg \in [Pod -> Config] /\ now \in 0 .. MaxTime /\ MaxTime \in Nat
  BY BoundsAssumption, Zenon DEF ProxyBase, ReqTypes
<1>3. cfg' \in [Pod -> Config]
  BY <1>1, <1>2, Zenon
<1>4. now' \in 0 .. MaxTime /\ now <= now'
  BY <1>1, <1>2, SMT
<1>5. ReqTypes'
  BY <1>1, <1>3, <1>4, Zenon DEF ProxyBase, ReqTypes
<1>6. TrafficTypes' /\ (\A r \in Request : ReqOK(r)') /\ \A p \in Pod : PodOK(p)'
  <2>1. TrafficTypes' /\ \A r \in Request : ReqOK(r)'
    BY <1>1, Zenon DEF ProxyBase, TrafficTypes, ReqOK
  <2>2. \A p \in Pod : PodOK(p)'
    BY <1>1, ZenonT(40) DEF ProxyBase, PodOK, Keys
  <2> QED
    BY <2>1, <2>2, Zenon
<1>7. OnlyAbandonedLeak'
  BY <1>1, Zenon DEF ProxyBase, OnlyAbandonedLeak, Unfinished, On
<1>8. TrafficIsExact'
  <2>1. TrafficIsExact /\ \A r \in Request : req'[r].key = req[r].key
    BY <1>1, Zenon DEF ProxyBase
  <2> QED
    BY <1>1, <2>1, ExactKept, Zenon
<1> QED
  BY <1>1, <1>4, <1>5, <1>6, <1>7, <1>8, Zenon DEF ProxyBase

-----------------------------------------------------------------------------
(* The quota.                                                              *)

(* A judgement names a window; a request without one names none.           *)
LEMMA JudgementIs ==
  /\ NoQuota \in Judgement /\ NoQuota.verdict = "none" /\ NoQuota.start \notin 0 .. MaxTime
  /\ \A q \in Judgement : q # NoQuota => /\ q.start \in 0 .. MaxTime /\ q.len \in Nat \ {0}
                                         /\ q.limit \in Int
                                         /\ q.verdict \in {"allowed", "denied", "open"}
<1>1. NoQuota.verdict = "none" /\ NoQuota.start = -1
  BY Zenon DEF NoQuota
<1>2. -1 \notin 0 .. MaxTime
  BY BoundsAssumption, SMT
<1> QED
  BY <1>1, <1>2, Zenon DEF Judgement

(* A step that judges no request and counts none.                          *)
LEMMA QuotaKept ==
  ASSUME ProxyBase, ProxyQuota, counters' = counters, now' \in 0 .. MaxTime, now <= now',
         \A s \in Request : /\ req'[s].quota = req[s].quota
                            /\ req'[s].user = req[s].user \/ req[s].quota = NoQuota
  PROVE  ProxyQuota'
<1>1. /\ now \in 0 .. MaxTime /\ Retention \in Nat /\ MaxTime \in Nat
      /\ \A s \in Request : req[s].quota \in Judgement
  BY BoundsAssumption, Zenon DEF ProxyBase, ReqTypes, ReqRecord
<1>2. \A u, t : t \in 0 .. MaxTime => JudgedIn(u, t)' = JudgedIn(u, t)
  <2> SUFFICES ASSUME NEW u, NEW t \in 0 .. MaxTime PROVE JudgedIn(u, t)' = JudgedIn(u, t)
    BY Zenon
  <2>1. \A s \in Request : (req'[s].user = u /\ req'[s].quota.start = t)
                             <=> (req[s].user = u /\ req[s].quota.start = t)
    BY JudgementIs, Zenon
  <2> QED
    BY <2>1, Zenon DEF JudgedIn
<1>3. \A u, t : t \in 0 .. MaxTime => AnsweredIn(u, t)' = AnsweredIn(u, t)
  <2> SUFFICES ASSUME NEW u, NEW t \in 0 .. MaxTime PROVE AnsweredIn(u, t)' = AnsweredIn(u, t)
    BY Zenon
  <2>1. JudgedIn(u, t)' = JudgedIn(u, t)
    BY <1>2, Zenon
  <2>2. \A s \in JudgedIn(u, t) : req'[s].quota = req[s].quota
    BY Zenon DEF JudgedIn
  <2> QED
    BY <2>1, <2>2, Zenon DEF AnsweredIn
<1>4. ASSUME NEW u \in User, NEW t \in 0 .. MaxTime
      PROVE  /\ counters'[u][t] <= Cardinality(JudgedIn(u, t)')
             /\ now' <= t + Retention => Cardinality(AnsweredIn(u, t)') <= counters'[u][t]
  <2>1. now' <= t + Retention => now <= t + Retention
    BY <1>1, SMT
  <2> QED
    BY <1>2, <1>3, <2>1, Zenon DEF ProxyQuota
<1>5. QuotaHolds'
  <2>0. ASSUME NEW r \in Request, req'[r].quota = NoQuota
        PROVE  req'[r].quota.verdict \notin {"allowed", "denied"}
    BY <2>0, JudgementIs, Zenon
  <2> SUFFICES ASSUME NEW r \in Request, NEW q, q = req[r].quota, q # NoQuota
               PROVE  LET mine == {s \in Request : req'[s].user = req'[r].user}
                      IN /\ q.verdict = "allowed" /\ q.len <= Retention =>
                              Cardinality({s \in mine : req'[s].quota = q}) <= q.limit
                         /\ q.verdict = "denied" =>
                              Cardinality({s \in mine \ {r} : req'[s].quota.start = q.start}) >= q.limit
    BY <2>0, ZenonT(40) DEF QuotaHolds
  <2> DEFINE mine == {s \in Request : req[s].user = req[r].user}
             Mine == {s \in Request : req'[s].user = req'[r].user}
  <2>1. req'[r].user = req[r].user /\ q.start \in 0 .. MaxTime
    BY <1>1, JudgementIs, Zenon
  <2>2. \A s \in Request : req[s].quota = NoQuota \/ (s \in Mine <=> s \in mine)
    BY <2>1, Zenon
  <2>3. {s \in Mine : req'[s].quota = q} = {s \in mine : req[s].quota = q}
    <3>1. Mine \subseteq Request /\ mine \subseteq Request
      BY Zenon
    <3> HIDE DEF Mine, mine
    <3>2. \A s \in Request : (s \in Mine /\ req'[s].quota = q) <=> (s \in mine /\ req[s].quota = q)
      <4>1. ASSUME NEW s \in Request, req[s].quota = q PROVE s \in Mine <=> s \in mine
        <5>1. req[s].quota # NoQuota
          BY <4>1, Zenon
        <5> QED
          BY <2>2, <5>1, Zenon
      <4>2. \A s \in Request : req'[s].quota = req[s].quota
        BY Zenon
      <4> QED
        BY <4>1, <4>2, Zenon
    <3> QED
      BY <3>1, <3>2, Zenon
  <2>4. {s \in Mine \ {r} : req'[s].quota.start = q.start} = {s \in mine \ {r} : req[s].quota.start = q.start}
    <3>1. Mine \subseteq Request /\ mine \subseteq Request
      BY Zenon
    <3> HIDE DEF Mine, mine
    <3>2. \A s \in Request : (s \in Mine /\ req'[s].quota.start = q.start)
                               <=> (s \in mine /\ req[s].quota.start = q.start)
      BY <2>1, <2>2, JudgementIs, Zenon
    <3> QED
      BY <3>1, <3>2, Zenon
  <2>5. /\ q.verdict = "allowed" /\ q.len <= Retention =>
              Cardinality({s \in mine : req[s].quota = q}) <= q.limit
        /\ q.verdict = "denied" =>
              Cardinality({s \in mine \ {r} : req[s].quota.start = q.start}) >= q.limit
    BY Zenon DEF ProxyQuota, QuotaHolds
  <2> QED
    BY <2>3, <2>4, <2>5, Zenon
<1> QED
  BY <1>4, <1>5, Zenon DEF ProxyQuota

(* Request r of user u gets its judgement; no other request changes.       *)
JudgedNow(r, u, q) ==
  /\ req[r].user = u /\ req[r].quota = NoQuota
  /\ req'[r].user = u /\ req'[r].quota = q
  /\ \A s \in Request : s # r => req'[s] = req[s]

(* User u is charged for window t at most once, and once when the store    *)
(* answered; nobody else is, and only rows out of retention are purged.    *)
Charged(u, t, v) ==
  /\ counters' \in [User -> [0 .. MaxTime -> Nat]]
  /\ \A x \in User, y \in 0 .. MaxTime :
       /\ counters'[x][y] <= counters[x][y] + (IF x = u /\ y = t THEN 1 ELSE 0)
       /\ now <= y + Retention =>
            counters'[x][y] >= counters[x][y] + (IF x = u /\ y = t /\ v # "open" THEN 1 ELSE 0)

(* Request r of user u is judged, by the window that starts at t, and the  *)
(* counter of that window goes up by one at most, and by one when the store *)
(* answered, unless the row is purged.                                     *)
LEMMA QuotaJudged ==
  ASSUME Counting, ProxyBase, ProxyQuota, NEW r \in Request, NEW u \in User,
         NEW t \in 0 .. MaxTime, NEW w \in Nat \ {0}, NEW l \in Int,
         NEW v \in {"allowed", "denied", "open"}, NEW q \in Judgement,
         q.start = t, q.len = w, q.limit = l, q.verdict = v,
         JudgedNow(r, u, q), Charged(u, t, v), now' = now, now < t + w,
         v = "allowed" => counters[u][t] + 1 <= l,
         v = "denied" => ~(counters[u][t] + 1 <= l)
  PROVE  ProxyQuota'
<1> SUFFICES ASSUME req[r].user = u, req[r].quota = NoQuota,
                    req'[r].user = u, req'[r].quota = q,
                    \A s \in Request : s # r => req'[s] = req[s],
                    counters' \in [User -> [0 .. MaxTime -> Nat]],
                    \A x \in User, y \in 0 .. MaxTime :
                      /\ counters'[x][y] <= counters[x][y] + (IF x = u /\ y = t THEN 1 ELSE 0)
                      /\ now <= y + Retention =>
                           counters'[x][y] >= counters[x][y]
                                                + (IF x = u /\ y = t /\ v # "open" THEN 1 ELSE 0)
             PROVE  ProxyQuota'
  BY Zenon DEF JudgedNow, Charged
<1>1. /\ now \in 0 .. MaxTime /\ Retention \in Nat /\ MaxTime \in Nat
      /\ \A s \in Request : req[s].quota \in Judgement
  BY BoundsAssumption, Zenon DEF ProxyBase, ReqTypes, ReqRecord
<1>2. \A x \in User, y \in 0 .. MaxTime : counters[x][y] \in Nat /\ counters'[x][y] \in Nat
  <2>1. \A x \in User : counters[x] \in [0 .. MaxTime -> Nat] /\ counters'[x] \in [0 .. MaxTime -> Nat]
    BY Zenon DEF ProxyQuota
  <2> QED
    BY <2>1, Zenon
<1>3. NoQuota.start \notin 0 .. MaxTime /\ q # NoQuota
  BY JudgementIs, Zenon
<1>4. ASSUME NEW x \in User, NEW y \in 0 .. MaxTime
      PROVE  /\ JudgedIn(x, y) \in SUBSET Request /\ JudgedIn(x, y)' \in SUBSET Request
             /\ AnsweredIn(x, y) \in SUBSET Request /\ AnsweredIn(x, y)' \in SUBSET Request
             /\ \A s \in Request : s # r => (s \in JudgedIn(x, y) <=> s \in JudgedIn(x, y)')
             /\ \A s \in Request : s # r => (s \in AnsweredIn(x, y) <=> s \in AnsweredIn(x, y)')
             /\ r \notin JudgedIn(x, y) /\ r \notin AnsweredIn(x, y)
             /\ r \in JudgedIn(x, y)' <=> x = u /\ y = t
             /\ r \in AnsweredIn(x, y)' <=> x = u /\ y = t /\ v # "open"
  <2>1. /\ JudgedIn(x, y) \in SUBSET Request /\ JudgedIn(x, y)' \in SUBSET Request
        /\ AnsweredIn(x, y) \in SUBSET Request /\ AnsweredIn(x, y)' \in SUBSET Request
    BY Zenon DEF JudgedIn, AnsweredIn
  <2>2. /\ \A s \in Request : s # r => (s \in JudgedIn(x, y) <=> s \in JudgedIn(x, y)')
        /\ \A s \in Request : s # r => (s \in AnsweredIn(x, y) <=> s \in AnsweredIn(x, y)')
    BY Zenon DEF JudgedIn, AnsweredIn
  <2>3. r \notin JudgedIn(x, y) /\ r \notin AnsweredIn(x, y)
    BY <1>3, Zenon DEF JudgedIn, AnsweredIn
  <2>4. r \in JudgedIn(x, y)' <=> x = u /\ y = t
    BY Zenon DEF JudgedIn
  <2>5. r \in AnsweredIn(x, y)' <=> x = u /\ y = t /\ v # "open"
    BY <2>4, Zenon DEF AnsweredIn
  <2> QED
    BY <2>1, <2>2, <2>3, <2>4, <2>5, Zenon
<1>5. ASSUME NEW x \in User, NEW y \in 0 .. MaxTime
      PROVE  /\ Cardinality(JudgedIn(x, y)) \in Nat /\ Cardinality(AnsweredIn(x, y)) \in Nat
             /\ Cardinality(JudgedIn(x, y)') = Cardinality(JudgedIn(x, y)) + (IF x = u /\ y = t THEN 1 ELSE 0)
             /\ Cardinality(AnsweredIn(x, y)') =
                  Cardinality(AnsweredIn(x, y)) + (IF x = u /\ y = t /\ v # "open" THEN 1 ELSE 0)
  <2> DEFINE A == JudgedIn(x, y)
             B == JudgedIn(x, y)'
             C == AnsweredIn(x, y)
             D == AnsweredIn(x, y)'
  <2>1. /\ A \in SUBSET Request /\ B \in SUBSET Request /\ C \in SUBSET Request /\ D \in SUBSET Request
        /\ \A s \in Request : s # r => (s \in A <=> s \in B)
        /\ \A s \in Request : s # r => (s \in C <=> s \in D)
        /\ r \notin A /\ r \notin C
        /\ r \in B <=> x = u /\ y = t
        /\ r \in D <=> x = u /\ y = t /\ v # "open"
    BY <1>4, Zenon
  <2> SUFFICES /\ Cardinality(A) \in Nat /\ Cardinality(C) \in Nat
               /\ Cardinality(B) = Cardinality(A) + (IF x = u /\ y = t THEN 1 ELSE 0)
               /\ Cardinality(D) = Cardinality(C) + (IF x = u /\ y = t /\ v # "open" THEN 1 ELSE 0)
    BY Zenon
  <2> HIDE DEF A, B, C, D
  <2>2. /\ Cardinality(A) \in Nat
        /\ Cardinality(B) = Cardinality(A) + (IF r \in B THEN 1 ELSE 0)
    BY <2>1, CountJoin, ZenonT(40)
  <2>3. /\ Cardinality(C) \in Nat
        /\ Cardinality(D) = Cardinality(C) + (IF r \in D THEN 1 ELSE 0)
    BY <2>1, CountJoin, ZenonT(40)
  <2>4. /\ x = u /\ y = t => r \in B
        /\ ~(x = u /\ y = t) => r \notin B
        /\ x = u /\ y = t /\ v # "open" => r \in D
        /\ ~(x = u /\ y = t /\ v # "open") => r \notin D
    BY <2>1, Zenon
  <2> QED
    BY <2>2, <2>3, <2>4, Zenon
<1>6. ASSUME NEW x \in User, NEW y \in 0 .. MaxTime
      PROVE  /\ counters'[x][y] <= Cardinality(JudgedIn(x, y)')
             /\ now' <= y + Retention => Cardinality(AnsweredIn(x, y)') <= counters'[x][y]
  <2>1. /\ counters[x][y] <= Cardinality(JudgedIn(x, y))
        /\ now <= y + Retention => Cardinality(AnsweredIn(x, y)) <= counters[x][y]
    BY Zenon DEF ProxyQuota
  <2>2. counters[x][y] \in Nat /\ counters'[x][y] \in Nat
    BY <1>2, Zenon
  <2>3. /\ counters'[x][y] <= counters[x][y] + (IF x = u /\ y = t THEN 1 ELSE 0)
        /\ now <= y + Retention =>
             counters'[x][y] >= counters[x][y] + (IF x = u /\ y = t /\ v # "open" THEN 1 ELSE 0)
    BY Zenon
  <2>4. /\ Cardinality(JudgedIn(x, y)) \in Nat /\ Cardinality(AnsweredIn(x, y)) \in Nat
        /\ Cardinality(JudgedIn(x, y)') = Cardinality(JudgedIn(x, y)) + (IF x = u /\ y = t THEN 1 ELSE 0)
        /\ Cardinality(AnsweredIn(x, y)') =
             Cardinality(AnsweredIn(x, y)) + (IF x = u /\ y = t /\ v # "open" THEN 1 ELSE 0)
    BY <1>5, Zenon
  <2>5. PICK d \in {0, 1} : d = IF x = u /\ y = t THEN 1 ELSE 0
    BY Zenon
  <2>6. PICK e \in {0, 1} : e = IF x = u /\ y = t /\ v # "open" THEN 1 ELSE 0
    BY Zenon
  <2>7. counters'[x][y] <= Cardinality(JudgedIn(x, y)')
    <3>1. counters'[x][y] <= counters[x][y] + d
      BY <2>3, <2>5, Zenon
    <3>2. counters'[x][y] <= Cardinality(JudgedIn(x, y)) + d
      BY <2>1, <2>2, <2>4, <3>1, RisesBelow, ZenonT(40)
    <3> QED
      BY <2>4, <2>5, <3>2, Zenon
  <2>8. ASSUME now' <= y + Retention PROVE Cardinality(AnsweredIn(x, y)') <= counters'[x][y]
    <3>1. now <= y + Retention
      BY <2>8, Zenon
    <3>2. Cardinality(AnsweredIn(x, y)) <= counters[x][y] /\ counters'[x][y] >= counters[x][y] + e
      BY <2>1, <2>3, <2>6, <3>1, Zenon
    <3>3. Cardinality(AnsweredIn(x, y)) + e <= counters'[x][y]
      BY <2>2, <2>4, <3>2, RisesAbove, ZenonT(40)
    <3> QED
      BY <2>4, <2>6, <3>3, Zenon
  <2> QED
    BY <2>7, <2>8, Zenon
<1>7. counters[u][t] \in Nat /\ counters[u][t] <= Cardinality(JudgedIn(u, t))
  <2>1. counters[u][t] <= Cardinality(JudgedIn(u, t))
    BY Zenon DEF ProxyQuota
  <2>2. counters[u][t] \in Nat /\ Cardinality(JudgedIn(u, t)) \in Nat
    BY <1>2, <1>5, Zenon
  <2> QED
    BY <2>1, <2>2, Zenon
<1>8. v = "allowed" /\ w <= Retention => Cardinality(AnsweredIn(u, t)') <= l
  <2> SUFFICES ASSUME v = "allowed", w <= Retention PROVE Cardinality(AnsweredIn(u, t)') <= l
    BY Zenon
  <2>1. now <= t + Retention
    BY <1>1, EndsWithin, ZenonT(40)
  <2>2. Cardinality(AnsweredIn(u, t)) <= counters[u][t]
    BY <2>1, Zenon DEF ProxyQuota
  <2>3. Cardinality(AnsweredIn(u, t)') = Cardinality(AnsweredIn(u, t)) + 1 /\ Cardinality(AnsweredIn(u, t)) \in Nat
    BY <1>5, Zenon
  <2>4. counters[u][t] \in Nat /\ counters[u][t] + 1 <= l /\ l \in Int
    BY <1>7, Zenon
  <2>5. Cardinality(AnsweredIn(u, t)) + 1 <= l
    BY <2>2, <2>3, <2>4, OneFits, ZenonT(40)
  <2> QED
    BY <2>3, <2>5, Zenon
<1> DEFINE Mine(i) == {s \in Request : req'[s].user = req'[i].user}
           mine(i) == {s \in Request : req[s].user = req[i].user}
           Same(i) == {s \in Mine(i) : req'[s].quota = req'[i].quota}
           Peers(i) == {s \in Mine(i) \ {i} : req'[s].quota.start = req'[i].quota.start}
           peers(i) == {s \in mine(i) \ {i} : req[s].quota.start = req[i].quota.start}
<1>9. ASSUME NEW i \in Request, req'[i].quota.verdict = "allowed", req'[i].quota.len <= Retention
      PROVE  Cardinality(Same(i)) <= req'[i].quota.limit
  <2>1. CASE req'[i].user = u /\ req'[i].quota = q
    <3>1. v = "allowed" /\ w <= Retention /\ req'[i].quota.limit = l
      BY <1>9, <2>1, Zenon
    <3>2. Same(i) \subseteq AnsweredIn(u, t)'
      BY <2>1, <3>1, Zenon DEF AnsweredIn, JudgedIn
    <3>3. AnsweredIn(u, t)' \in SUBSET Request /\ Same(i) \in SUBSET Request
      BY <1>4, ZenonT(40)
    <3> HIDE DEF Same
    <3>4. Cardinality(Same(i)) <= Cardinality(AnsweredIn(u, t)')
      BY <3>2, <3>3, RequestsFinite, SubsetCounts, Zenon
    <3>5. /\ Cardinality(Same(i)) \in Nat /\ Cardinality(AnsweredIn(u, t)') \in Nat
          /\ Cardinality(AnsweredIn(u, t)') <= l
      BY <1>8, <3>1, <3>3, RequestsFinite, Zenon
    <3> QED
      BY <3>1, <3>4, <3>5, SMTT(30)
  <2>2. CASE ~(req'[i].user = u /\ req'[i].quota = q)
    <3>1. i # r
      BY <2>2, Zenon
    <3>2. req'[i] = req[i] /\ req[i].quota # NoQuota
      BY <1>9, <3>1, JudgementIs, Zenon
    <3>3. Same(i) = {s \in mine(i) : req[s].quota = req[i].quota}
      <4>1. \A s \in Request : s # r =>
              ((req'[s].user = req'[i].user /\ req'[s].quota = req'[i].quota)
                 <=> (req[s].user = req[i].user /\ req[s].quota = req[i].quota))
        BY <3>2, Zenon
      <4>2. /\ ~(req'[r].user = req'[i].user /\ req'[r].quota = req'[i].quota)
            /\ ~(req[r].user = req[i].user /\ req[r].quota = req[i].quota)
        BY <2>2, <3>2, Zenon
      <4>3. \A s \in Request :
              (req'[s].user = req'[i].user /\ req'[s].quota = req'[i].quota)
                 <=> (req[s].user = req[i].user /\ req[s].quota = req[i].quota)
        BY <4>1, <4>2, Zenon
      <4> QED
        BY <4>3, Zenon
    <3>4. Cardinality({s \in mine(i) : req[s].quota = req[i].quota}) <= req[i].quota.limit
      <4>1. req[i].quota.verdict = "allowed" /\ req[i].quota.len <= Retention
        BY <1>9, <3>2, Zenon
      <4> QED
        BY <4>1, Zenon DEF ProxyQuota, QuotaHolds
    <3> QED
      BY <3>2, <3>3, <3>4, Zenon
  <2> QED
    BY <2>1, <2>2, ZenonT(40)
<1>10. ASSUME NEW i \in Request, req'[i].quota.verdict = "denied"
       PROVE  Cardinality(Peers(i)) >= req'[i].quota.limit
  <2>1. CASE i = r
    <3>1. v = "denied" /\ req'[i].quota.limit = l
      BY <1>10, <2>1, Zenon
    <3>2. Peers(i) = JudgedIn(u, t)
      <4>1. \A s \in Request : s # r =>
              ((req'[s].user = u /\ req'[s].quota.start = t) <=> (req[s].user = u /\ req[s].quota.start = t))
        BY Zenon
      <4>2. ~(req[r].user = u /\ req[r].quota.start = t)
        BY <1>3, Zenon
      <4>3. \A s \in Request : s \in Peers(i) <=> (s # r /\ req'[s].user = u /\ req'[s].quota.start = t)
        BY <2>1, Zenon
      <4>4. \A s \in Request : s \in JudgedIn(u, t) <=> (req[s].user = u /\ req[s].quota.start = t)
        BY Zenon DEF JudgedIn
      <4>5. \A s \in Request : s \in Peers(i) <=> s \in JudgedIn(u, t)
        BY <4>1, <4>2, <4>3, <4>4, Zenon
      <4>6. Peers(i) \subseteq Request /\ JudgedIn(u, t) \subseteq Request
        BY <1>4, ZenonT(40)
      <4> HIDE DEF Peers
      <4> QED
        BY <4>5, <4>6, Zenon
    <3>3. ~(counters[u][t] + 1 <= l) /\ Cardinality(JudgedIn(u, t)) \in Nat
      BY <1>5, <3>1, Zenon
    <3>4. Cardinality(JudgedIn(u, t)) >= l
      BY <1>7, <3>3, IsFull, ZenonT(40)
    <3> QED
      BY <3>1, <3>2, <3>4, Zenon
  <2>2. CASE i # r
    <3>1. req'[i] = req[i] /\ req[i].quota # NoQuota /\ req[i].quota \in Judgement
      BY <1>1, <1>10, <2>2, JudgementIs, Zenon
    <3>2. req[i].quota.start \in 0 .. MaxTime /\ req[i].quota.limit \in Int
      BY <3>1, JudgementIs, Zenon
    <3>3. \A s \in Request : s \in peers(i) => s \in Peers(i)
      <4> SUFFICES ASSUME NEW s \in Request, s # i, req[s].user = req[i].user,
                          req[s].quota.start = req[i].quota.start
                   PROVE  req'[s].user = req'[i].user /\ req'[s].quota.start = req'[i].quota.start
        BY Zenon
      <4>1. s # r
        BY <1>3, <3>2, Zenon
      <4> QED
        BY <3>1, <4>1, Zenon
    <3>4. peers(i) \subseteq Request /\ Peers(i) \subseteq Request
      BY Zenon
    <3>5. Cardinality(peers(i)) >= req[i].quota.limit
      <4>1. req[i].quota.verdict = "denied"
        BY <1>10, <3>1, Zenon
      <4> QED
        BY <4>1, Zenon DEF ProxyQuota, QuotaHolds
    <3> HIDE DEF peers, Peers
    <3>6. /\ Cardinality(peers(i)) <= Cardinality(Peers(i))
          /\ Cardinality(peers(i)) \in Nat /\ Cardinality(Peers(i)) \in Nat
      BY <3>3, <3>4, RequestsFinite, SubsetCounts, Zenon
    <3>7. Cardinality(Peers(i)) >= req[i].quota.limit
      BY <3>2, <3>5, <3>6, IsAbove, ZenonT(40)
    <3> QED
      BY <3>1, <3>7, Zenon
  <2> QED
    BY <2>1, <2>2, Zenon
<1>11. QuotaHolds'
  BY <1>9, <1>10, Zenon DEF QuotaHolds
<1> QED
  BY <1>6, <1>11, Zenon DEF ProxyQuota

(* The rows are the counters with one more for u in the window t.          *)
OneMore(rows, u, t) ==
  /\ rows \in [User -> [0 .. MaxTime -> Nat]]
  /\ \A x \in User, y \in 0 .. MaxTime :
       rows[x][y] = counters[x][y] + (IF x = u /\ y = t THEN 1 ELSE 0)

(* One UPSERT on the row of a user and a window.                           *)
LEMMA IncrementedIs ==
  ASSUME counters \in [User -> [0 .. MaxTime -> Nat]], NEW u \in User, NEW t \in 0 .. MaxTime
  PROVE  OneMore(Incremented(u, t), u, t)
<1>1. counters[u] \in [0 .. MaxTime -> Nat] /\ counters[u][t] \in Nat
  BY Zenon
<1>2. counters[u][t] + 1 \in Nat
  BY <1>1, SMT
<1> DEFINE row1 == [counters[u] EXCEPT ![t] = counters[u][t] + 1]
<1>3. /\ row1 \in [0 .. MaxTime -> Nat] /\ row1[t] = counters[u][t] + 1
      /\ \A y \in 0 .. MaxTime : y # t => row1[y] = counters[u][y]
  BY <1>1, <1>2, Zenon
<1>4. Incremented(u, t) = [counters EXCEPT ![u] = row1]
  BY Zenon DEF Incremented
<1> HIDE DEF row1
<1>5. /\ Incremented(u, t) \in [User -> [0 .. MaxTime -> Nat]] /\ Incremented(u, t)[u] = row1
      /\ \A x \in User : x # u => Incremented(u, t)[x] = counters[x]
  BY <1>3, <1>4, Zenon
<1>6. ASSUME NEW x \in User, NEW y \in 0 .. MaxTime
      PROVE  Incremented(u, t)[x][y] = counters[x][y] + (IF x = u /\ y = t THEN 1 ELSE 0)
  <2>1. counters[x][y] \in Nat
    BY Zenon
  <2>2. counters[x][y] + 0 = counters[x][y]
    BY <2>1, SMT
  <2>3. CASE x = u /\ y = t
    BY <1>3, <1>5, <2>3, Zenon
  <2>4. CASE ~(x = u /\ y = t)
    <3>1. Incremented(u, t)[x][y] = counters[x][y]
      BY <1>3, <1>5, <2>4, Zenon
    <3> QED
      BY <2>2, <2>4, <3>1, Zenon
  <2> QED
    BY <2>3, <2>4, Zenon
<1> QED
  BY <1>5, <1>6, Zenon DEF OneMore

(* What the purge keeps is not older than its retention.                   *)
LEMMA PurgedIs ==
  ASSUME NEW rows \in [User -> [0 .. MaxTime -> Nat]], now \in 0 .. MaxTime
  PROVE  /\ Purged(rows) \in [User -> [0 .. MaxTime -> Nat]]
         /\ \A x \in User, y \in 0 .. MaxTime :
              /\ Purged(rows)[x][y] <= rows[x][y]
              /\ now <= y + Retention => Purged(rows)[x][y] = rows[x][y]
<1>1. \A x \in User, y \in 0 .. MaxTime : rows[x][y] \in Nat
  <2>1. \A x \in User : rows[x] \in [0 .. MaxTime -> Nat]
    BY Zenon
  <2> QED
    BY <2>1, Zenon
<1>2. \A x \in User, y \in 0 .. MaxTime :
        Purged(rows)[x][y] = IF y < now - Retention THEN 0 ELSE rows[x][y]
  BY Zenon DEF Purged
<1>3. Purged(rows) \in [User -> [0 .. MaxTime -> Nat]]
  <2>1. 0 \in Nat
    BY SMT
  <2>2. \A x \in User, y \in 0 .. MaxTime : (IF y < now - Retention THEN 0 ELSE rows[x][y]) \in Nat
    BY <1>1, <2>1, Zenon
  <2> QED
    BY <2>2, Zenon DEF Purged
<1>4. ASSUME NEW x \in User, NEW y \in 0 .. MaxTime
      PROVE  /\ Purged(rows)[x][y] <= rows[x][y]
             /\ now <= y + Retention => Purged(rows)[x][y] = rows[x][y]
  <2>1. /\ rows[x][y] \in Nat
        /\ Purged(rows)[x][y] = IF y < now - Retention THEN 0 ELSE rows[x][y]
    BY <1>1, <1>2, Zenon
  <2> QED
    BY <2>1, BoundsAssumption, SMTT(30)
<1> QED
  BY <1>3, <1>4, Zenon

(* The throttle, whether its store answers or fails.                       *)
LEMMA ThrottleQuota ==
  ASSUME Counting, ProxyBase, ProxyQuota, NEW r \in Request, Throttle(r) \/ ThrottleFails(r)
  PROVE  ProxyBase' /\ ProxyQuota'
<1>1. /\ req[r].phase = "throttle" /\ req[r].quota = NoQuota
      /\ \E t \in 0 .. MaxTime, w \in Nat \ {0}, l \in Int, v \in {"allowed", "denied", "open"} :
           /\ t = WindowStart(w) /\ w = req[r].window /\ l = req[r].limit
           /\ Advances(r, [start |-> t, len |-> w, limit |-> l, verdict |-> v])
           /\ Throttle(r) =>
                v = IF counters[req[r].user][t] + 1 <= l THEN "allowed" ELSE "denied"
           /\ ~Throttle(r) => v = "open"
  BY ThrottleAdvances, Zenon
<1>2. PICK t \in 0 .. MaxTime, w \in Nat \ {0}, l \in Int, v \in {"allowed", "denied", "open"} :
        /\ t = WindowStart(w) /\ w = req[r].window /\ l = req[r].limit
        /\ Advances(r, [start |-> t, len |-> w, limit |-> l, verdict |-> v])
        /\ Throttle(r) =>
             v = IF counters[req[r].user][t] + 1 <= l THEN "allowed" ELSE "denied"
        /\ ~Throttle(r) => v = "open"
  BY <1>1, Zenon
<1>3. PICK q \in Judgement :
        /\ q = [start |-> t, len |-> w, limit |-> l, verdict |-> v]
        /\ q.start = t /\ q.len = w /\ q.limit = l /\ q.verdict = v
  <2> DEFINE j == [start |-> t, len |-> w, limit |-> l, verdict |-> v]
  <2>1. j \in Judgement
    BY Zenon DEF Judgement
  <2>2. j.start = t /\ j.len = w /\ j.limit = l /\ j.verdict = v
    BY Zenon
  <2> HIDE DEF j
  <2>3. \E q \in Judgement : q = j /\ q.start = t /\ q.len = w /\ q.limit = l /\ q.verdict = v
    BY <2>1, <2>2, Zenon
  <2> QED
    BY <2>3, Zenon DEF j
<1>4. PICK u \in User : u = req[r].user
  BY Zenon DEF ProxyBase, ReqTypes, ReqRecord
<1>5. /\ ProxyBase' /\ \A s \in Request : s # r => req'[s] = req[s]
      /\ req'[r].user = u /\ req'[r].quota = q
  BY <1>2, <1>3, <1>4, Zenon DEF Advances
<1>6. now' = now /\ now \in 0 .. MaxTime
  BY Zenon DEF Throttle, ThrottleFails, Rest, ProxyBase, ReqTypes
<1>7. now < t + w
  BY <1>2, <1>6, WindowIsCurrent, Zenon
<1>8. counters \in [User -> [0 .. MaxTime -> Nat]]
  BY Zenon DEF ProxyQuota
<1>9. \A x \in User, y \in 0 .. MaxTime : counters[x][y] \in Nat
  <2>1. \A x \in User : counters[x] \in [0 .. MaxTime -> Nat]
    BY <1>8, Zenon
  <2> QED
    BY <2>1, Zenon
<1> DEFINE rows == Incremented(u, t)
<1>10. /\ rows \in [User -> [0 .. MaxTime -> Nat]]
       /\ \A x \in User, y \in 0 .. MaxTime :
            rows[x][y] = counters[x][y] + (IF x = u /\ y = t THEN 1 ELSE 0)
  <2>1. OneMore(rows, u, t)
    BY <1>8, IncrementedIs, Zenon
  <2> QED
    BY <2>1, Zenon DEF OneMore
<1>11. counters' = rows \/ counters' = Purged(rows) \/ (counters' = counters /\ v = "open")
  <2>1. CASE Throttle(r)
    BY <1>2, <1>4, <2>1, Zenon DEF Throttle
  <2>2. CASE ~Throttle(r)
    BY <1>2, <1>4, <2>2, Zenon DEF ThrottleFails
  <2> QED
    BY <2>1, <2>2, Zenon
<1> HIDE DEF rows
<1>12. /\ counters' \in [User -> [0 .. MaxTime -> Nat]]
       /\ \A x \in User, y \in 0 .. MaxTime :
            /\ counters'[x][y] <= counters[x][y] + (IF x = u /\ y = t THEN 1 ELSE 0)
            /\ now <= y + Retention =>
                 counters'[x][y] >= counters[x][y] + (IF x = u /\ y = t /\ v # "open" THEN 1 ELSE 0)
  <2>1. CASE counters' = rows
    BY <1>9, <1>10, <2>1, SMTT(30)
  <2>2. CASE counters' = Purged(rows)
    <3>1. /\ Purged(rows) \in [User -> [0 .. MaxTime -> Nat]]
          /\ \A x \in User, y \in 0 .. MaxTime :
               /\ Purged(rows)[x][y] <= rows[x][y]
               /\ now <= y + Retention => Purged(rows)[x][y] = rows[x][y]
      BY <1>6, <1>10, PurgedIs, Zenon
    <3>2. \A x \in User, y \in 0 .. MaxTime : Purged(rows)[x][y] \in Nat
      <4>1. \A x \in User : Purged(rows)[x] \in [0 .. MaxTime -> Nat]
        BY <3>1, Zenon
      <4> QED
        BY <4>1, Zenon
    <3> QED
      BY <1>9, <1>10, <2>2, <3>1, <3>2, SMTT(30)
  <2>3. CASE counters' = counters /\ v = "open"
    BY <1>8, <1>9, <2>3, SMTT(30)
  <2> QED
    BY <1>11, <2>1, <2>2, <2>3, ZenonT(40)
<1>13. /\ v = "allowed" => counters[u][t] + 1 <= l
       /\ v = "denied" => ~(counters[u][t] + 1 <= l)
  BY <1>2, <1>4, Zenon
<1>14. ProxyQuota'
  <2>1. JudgedNow(r, u, q)
    BY <1>1, <1>4, <1>5, Zenon DEF JudgedNow
  <2>2. Charged(u, t, v)
    BY <1>12, Zenon DEF Charged
  <2>3. now' = now
    BY <1>6, Zenon
  <2> QED
    BY <1>3, <1>7, <1>13, <2>1, <2>2, <2>3, QuotaJudged, Zenon
<1> QED
  BY <1>5, <1>14, Zenon

-----------------------------------------------------------------------------
(* The proxy: what holds of it.                                            *)

(* Before the first request nothing runs and nothing is counted.           *)
LEMMA ProxyStarts ==
  ASSUME Counting
  PROVE  Init => ProxyIInv
<1> SUFFICES ASSUME Init PROVE ProxyIInv
  BY Zenon
<1> DEFINE none == [k \in Key |-> 0]
<1>1. /\ none \in [Key -> Nat] /\ Keys(none) = {} /\ Cardinality({}) = 0
      /\ Cardinality({}) <= MaxPendingKeys /\ \A k \in Key : none[k] = 0
  BY NoneIs, Zenon
<1>2. /\ now = 0 /\ cfg = [p \in Pod |-> FirstConfig]
      /\ active = [p \in Pod |-> 0] /\ conns = [p \in Pod |-> 0]
      /\ acc = [p \in Pod |-> none] /\ pending = [p \in Pod |-> none]
      /\ wrote = [p \in Pod |-> {}] /\ flushing = [p \in Pod |-> FALSE] /\ traffic = none
      /\ partly = FALSE /\ short = FALSE /\ upsets = 0
  BY Zenon DEF Init
<1> HIDE DEF none
<1>3. /\ \A r \in Request : req[r] = Blank
      /\ req \in [Request -> ReqRecord]
  BY BlankIs, Zenon DEF Init
<1>4. 0 \in 0 .. MaxTime /\ 0 \in Int /\ 0 \in Nat /\ 0 <= MaxConns /\ 0 \in 0 .. MaxUpsets
  BY BoundsAssumption, SMT
<1>5. ReqTypes
  <2>1. cfg \in [Pod -> Config] /\ active \in [Pod -> Int] /\ conns \in [Pod -> Int]
    BY <1>2, <1>4, SettingsAssumption, Zenon
  <2>2. \A p \in Pod : conns[p] = 0
    BY <1>2, Zenon
  <2> QED
    BY <1>2, <1>3, <1>4, <2>1, <2>2, Zenon DEF ReqTypes
<1>6. TrafficTypes
  BY <1>1, <1>2, Zenon DEF TrafficTypes
<1>7. \A r \in Request : ReqOK(r)
  BY <1>3, BlankIs, Zenon DEF ReqOK
<1>8. \A p \in Pod : PodOK(p)
  <2> SUFFICES ASSUME NEW p \in Pod PROVE PodOK(p)
    BY Zenon
  <2>1. acc[p] = none /\ pending[p] = none /\ wrote[p] = {}
    BY <1>2, Zenon
  <2> QED
    BY <1>1, <2>1, Zenon DEF PodOK, none
<1>9. OnlyAbandonedLeak
  <2> SUFFICES ASSUME NEW p \in Pod
               PROVE  active[p] = Cardinality(Unfinished(p)) /\ conns[p] = Cardinality(On(p, Pooled))
    BY Zenon DEF OnlyAbandonedLeak, Pooled
  <2>1. Unfinished(p) = {} /\ On(p, Pooled) = {}
    BY <1>3, BlankIs, Zenon DEF Unfinished, On, Pooled
  <2>2. active[p] = 0 /\ conns[p] = 0
    BY <1>2, Zenon
  <2> QED
    BY <1>1, <2>1, <2>2, Zenon
<1>10. TrafficIsExact
  <2> SUFFICES ASSUME NEW k \in Key PROVE Counted(k) = 0 /\ Ended(k) = 0
    <3>1. 0 >= 0 /\ 0 <= 0
      BY SMT
    <3> QED
      BY <3>1, Zenon DEF TrafficIsExact
  <2>1. k # NoKey
    BY KeysFinite, SMT DEF NoKey
  <2>2. {r \in Request : req[r].key = k} = {}
    BY <1>3, <2>1, BlankIs, Zenon
  <2>3. Outstanding(k) = {}
    <3>1. ASSUME NEW p \in Pod PROVE Unwritten(p, k) = 0
      <4>1. acc[p] = none /\ pending[p] = none /\ wrote[p] = {}
        BY <1>2, Zenon
      <4>2. Unwritten(p, k) = 0 + 0
        BY <1>1, <4>1, Zenon DEF Unwritten
      <4> QED
        BY <4>2, SMT
    <3>2. \A p \in Pod : {p} \X (1 .. Unwritten(p, k)) = {}
      BY <3>1, SMT
    <3> QED
      BY <3>2, SMT DEF Outstanding
  <2>4. Counted(k) = 0 + 0 /\ Ended(k) = 0
    BY <1>1, <1>2, <2>2, <2>3, Zenon DEF Counted, Ended
  <2> QED
    BY <2>4, SMT
<1>11. ProxyQuota
  <2>1. /\ counters \in [User -> [0 .. MaxTime -> Nat]]
        /\ \A u \in User, t \in 0 .. MaxTime : counters[u][t] = 0
    BY <1>4, Zenon DEF Init
  <2>2. \A u \in User, t \in 0 .. MaxTime : JudgedIn(u, t) = {} /\ AnsweredIn(u, t) = {}
    <3>1. \A r \in Request : req[r].quota.start \notin 0 .. MaxTime
      BY <1>3, BlankIs, JudgementIs, Zenon
    <3> QED
      BY <3>1, Zenon DEF JudgedIn, AnsweredIn
  <2>3. QuotaHolds
    BY <1>3, BlankIs, JudgementIs, Zenon DEF QuotaHolds
  <2>4. 0 <= 0
    BY SMT
  <2> QED
    BY <1>1, <2>1, <2>2, <2>3, <2>4, Zenon DEF ProxyQuota
<1> QED
  BY <1>2, <1>4, <1>5, <1>6, <1>7, <1>8, <1>9, <1>10, <1>11, ZenonT(40) DEF ProxyIInv, ProxyBase

(* A step that judges nobody keeps the quota's part.                       *)
LEMMA AdvancesQuota ==
  ASSUME ProxyBase, ProxyQuota, NEW r \in Request, Advances(r, req[r].quota),
         counters' = counters, now' = now
  PROVE  ProxyBase' /\ ProxyQuota'
<1>1. /\ ProxyBase' /\ \A s \in Request : s # r => req'[s] = req[s]
      /\ req'[r].user = req[r].user /\ req'[r].quota = req[r].quota
  BY Zenon DEF Advances
<1>2. \A s \in Request : /\ req'[s].quota = req[s].quota
                         /\ req'[s].user = req[s].user \/ req[s].quota = NoQuota
  BY <1>1, Zenon
<1>3. now' \in 0 .. MaxTime /\ now <= now'
  <2>1. now \in 0 .. MaxTime
    BY Zenon DEF ProxyBase, ReqTypes
  <2> QED
    BY <2>1, SMT
<1> QED
  BY <1>1, <1>2, <1>3, QuotaKept, Zenon

(* Every step of a request keeps the invariant.                            *)
LEMMA RequestKeeps ==
  ASSUME Counting, ProxyIInv, NEW r \in Request, Arrive(r) \/ Step(r) \/ ThrottleFails(r) \/ Abandon(r)
  PROVE  ProxyIInv'
<1>1. ProxyBase /\ ProxyQuota
  BY Zenon DEF ProxyIInv
<1>2. upsets' \in 0 .. MaxUpsets
  <2>1. \/ upsets' = upsets
        \/ upsets < MaxUpsets /\ upsets' = upsets + 1
    BY ZenonT(40) DEF Step, Arrive, Authenticate, ReadBody, Throttle, Send, PoolTimeout, Upstream,
                 StreamStart, StreamEnd, ThrottleFails, Abandon
  <2>2. upsets \in 0 .. MaxUpsets
    BY Zenon DEF ProxyIInv
  <2> QED
    BY <2>1, <2>2, BoundsAssumption, SMTT(30)
<1>3. CASE Throttle(r) \/ ThrottleFails(r)
  BY <1>1, <1>2, <1>3, ThrottleQuota, Zenon DEF ProxyIInv
<1>4. CASE Arrive(r)
  <2>1. /\ ProxyBase' /\ \A s \in Request : s # r => req'[s] = req[s]
        /\ req[r].quota = NoQuota /\ req'[r].quota = NoQuota
    BY <1>1, <1>4, ArriveBase, Zenon
  <2>2. \A s \in Request : /\ req'[s].quota = req[s].quota
                           /\ req'[s].user = req[s].user \/ req[s].quota = NoQuota
    BY <2>1, Zenon
  <2>3. counters' = counters /\ now' = now /\ now \in 0 .. MaxTime
    BY <1>1, <1>4, Zenon DEF Arrive, Rest, ProxyBase, ReqTypes
  <2>4. now' \in 0 .. MaxTime /\ now <= now'
    BY <2>3, SMT
  <2>5. ProxyQuota'
    BY <1>1, <2>2, <2>3, <2>4, QuotaKept, Zenon
  <2> QED
    BY <1>2, <2>1, <2>5, Zenon DEF ProxyIInv
<1>5. CASE Authenticate(r) \/ ReadBody(r) \/ Send(r) \/ PoolTimeout(r) \/ Upstream(r)
           \/ StreamStart(r) \/ StreamEnd(r) \/ Abandon(r)
  <2>1. Advances(r, req[r].quota)
    BY <1>1, <1>5, AuthenticateAdvances, ReadBodyAdvances, SendAdvances, AnswerAdvances, Zenon
  <2>2. counters' = counters /\ now' = now
    BY <1>5, ZenonT(40) DEF Authenticate, ReadBody, Send, PoolTimeout, Upstream, StreamStart,
                       StreamEnd, Abandon, Rest
  <2> QED
    BY <1>1, <1>2, <2>1, <2>2, AdvancesQuota, Zenon DEF ProxyIInv
<1> QED
  BY <1>3, <1>4, <1>5, Zenon DEF Step

(* Every step of a pod or of the environment keeps the invariant.          *)
LEMMA PodKeeps ==
  ASSUME Counting, ProxyIInv,
         (\E p \in Pod : Flush(p) \/ FlushFails(p) \/ Reload(p) \/ Restart(p)) \/ Tick
  PROVE  ProxyIInv'
<1>1. ProxyBase /\ ProxyQuota /\ now \in 0 .. MaxTime
  BY Zenon DEF ProxyIInv, ProxyBase, ReqTypes
<1>2. upsets' \in 0 .. MaxUpsets
  <2>1. \/ upsets' = upsets
        \/ upsets < MaxUpsets /\ upsets' = upsets + 1
    BY Zenon DEF Flush, FlushBegin, FlushRow, FlushDone, FlushFails, Reload, Restart, Tick
  <2>2. upsets \in 0 .. MaxUpsets
    BY Zenon DEF ProxyIInv
  <2> QED
    BY <2>1, <2>2, BoundsAssumption, SMTT(30)
<1>3. now <= now
  BY <1>1, SMT
<1>4. CASE \E p \in Pod : Flush(p) \/ FlushFails(p)
  <2>1. ProxyBase'
    BY <1>1, <1>4, FlushBeginBase, FlushRowBase, FlushDoneBase, FlushFailsBase, Zenon DEF Flush
  <2>2. UNCHANGED <<req, counters, now>>
    BY <1>4, Zenon DEF Flush, FlushBegin, FlushRow, FlushDone, FlushFails, Still
  <2>3. /\ counters' = counters /\ now' \in 0 .. MaxTime /\ now <= now'
        /\ \A s \in Request : /\ req'[s].quota = req[s].quota
                              /\ req'[s].user = req[s].user \/ req[s].quota = NoQuota
    BY <1>1, <1>3, <2>2, Zenon
  <2> QED
    BY <1>1, <1>2, <2>1, <2>3, QuotaKept, Zenon DEF ProxyIInv
<1>5. CASE \E p \in Pod : Restart(p)
  <2>1. /\ ProxyBase'
        /\ \A r \in Request : req'[r].user = req[r].user /\ req'[r].quota = req[r].quota
    BY <1>1, <1>5, RestartBase, Zenon
  <2>2. counters' = counters /\ now' = now
    BY <1>5, Zenon DEF Restart
  <2>3. now' \in 0 .. MaxTime /\ now <= now'
    BY <1>1, <1>3, <2>2, Zenon
  <2> QED
    BY <1>1, <1>2, <2>1, <2>2, <2>3, QuotaKept, Zenon DEF ProxyIInv
<1>6. CASE (\E p \in Pod : Reload(p)) \/ Tick
  <2>1. /\ ProxyBase' /\ UNCHANGED <<req, counters>>
        /\ now' \in 0 .. MaxTime /\ now <= now'
    BY <1>1, <1>6, EnvironmentBase, Zenon
  <2>2. \A s \in Request : /\ req'[s].quota = req[s].quota
                           /\ req'[s].user = req[s].user \/ req[s].quota = NoQuota
    BY <2>1, Zenon
  <2> QED
    BY <1>1, <1>2, <2>1, <2>2, QuotaKept, Zenon DEF ProxyIInv
<1> QED
  BY <1>4, <1>5, <1>6, Zenon

(* A step of the proxy preserves the invariant.                            *)
LEMMA ProxyKeeps ==
  ASSUME Counting, ProxyIInv, [Next]_vars
  PROVE  ProxyIInv'
<1>1. CASE \E r \in Request : Arrive(r) \/ Step(r) \/ ThrottleFails(r) \/ Abandon(r)
  BY <1>1, RequestKeeps, Zenon
<1>2. CASE (\E p \in Pod : Flush(p) \/ FlushFails(p) \/ Reload(p) \/ Restart(p)) \/ Tick
  BY <1>2, PodKeeps, Zenon
<1>3. CASE UNCHANGED vars
  <2>1. UNCHANGED <<now, cfg, req, active, conns, counters, acc, pending, wrote, flushing,
                    traffic, partly, short, upsets>>
    BY <1>3, Zenon DEF vars
  <2>2. ReqTypes' /\ TrafficTypes' /\ (\A r \in Request : ReqOK(r)') /\ \A p \in Pod : PodOK(p)'
    <3>1. ReqTypes' /\ TrafficTypes'
      BY <2>1, Zenon DEF ProxyIInv, ProxyBase, ReqTypes, TrafficTypes
    <3>2. \A r \in Request : ReqOK(r)'
      BY <2>1, Zenon DEF ProxyIInv, ProxyBase, ReqOK
    <3>3. \A p \in Pod : PodOK(p)'
      BY <2>1, Zenon DEF ProxyIInv, ProxyBase, PodOK, Keys
    <3> QED
      BY <3>1, <3>2, <3>3, Zenon
  <2>3. OnlyAbandonedLeak'
    BY <2>1, Zenon DEF ProxyIInv, ProxyBase, OnlyAbandonedLeak, Unfinished, On
  <2>4. TrafficIsExact'
    BY <2>1, Zenon DEF ProxyIInv, ProxyBase, TrafficIsExact, Counted, Ended, Outstanding, Unwritten
  <2>5. ProxyQuota'
    BY <2>1, ZenonT(40) DEF ProxyIInv, ProxyQuota, JudgedIn, AnsweredIn, QuotaHolds
  <2> QED
    BY <2>1, <2>2, <2>3, <2>4, <2>5, Zenon DEF ProxyIInv, ProxyBase
<1> QED
  BY <1>1, <1>2, <1>3, Zenon DEF Next

(* No step changes a judgement once it is made.                            *)
LEMMA JudgedOnce ==
  ASSUME Counting, ProxyIInv, Next, NEW i \in Request, req[i].quota # NoQuota
  PROVE  req'[i].quota = req[i].quota
<1>1. ProxyBase /\ ReqOK(i)
  BY Zenon DEF ProxyIInv, ProxyBase
<1>2. ASSUME NEW r \in Request, Throttle(r) \/ ThrottleFails(r)
      PROVE  req'[i].quota = req[i].quota
  <2>1. r # i
    BY <1>1, <1>2, Zenon DEF Throttle, ThrottleFails, ReqOK
  <2>2. PICK q : Advances(r, q)
    BY <1>1, <1>2, ThrottleAdvances, Zenon
  <2> QED
    BY <2>1, <2>2, Zenon DEF Advances
<1>3. ASSUME NEW r \in Request, Arrive(r) \/ Step(r) \/ Abandon(r), ~Throttle(r)
      PROVE  req'[i].quota = req[i].quota
  <2>1. CASE Arrive(r)
    BY <1>1, <2>1, ArriveBase, Zenon
  <2>2. CASE ~Arrive(r)
    <3>1. Advances(r, req[r].quota)
      BY <1>1, <1>3, <2>2, AuthenticateAdvances, ReadBodyAdvances, SendAdvances, AnswerAdvances,
         ZenonT(40) DEF Step
    <3> QED
      BY <3>1, Zenon DEF Advances
  <2> QED
    BY <2>1, <2>2, Zenon
<1>4. ASSUME (\E p \in Pod : Flush(p) \/ FlushFails(p) \/ Reload(p) \/ Restart(p)) \/ Tick
      PROVE  req'[i].quota = req[i].quota
  <2>1. CASE \E p \in Pod : Restart(p)
    BY <1>1, <2>1, RestartBase, Zenon
  <2>2. CASE (\E p \in Pod : Reload(p)) \/ Tick
    BY <1>1, <2>2, EnvironmentBase, Zenon
  <2>3. CASE \E p \in Pod : Flush(p) \/ FlushFails(p)
    BY <2>3, Zenon DEF Flush, FlushBegin, FlushRow, FlushDone, FlushFails, Still
  <2> QED
    BY <1>4, <2>1, <2>2, <2>3, Zenon
<1> QED
  BY <1>2, <1>3, <1>4, Zenon DEF Next, Step

(* The invariant bounds what the types bound.                              *)
LEMMA ProxyTypes ==
  ASSUME Counting, ProxyIInv
  PROVE  TypeOK
<1>1. ReqTypes /\ TrafficTypes /\ OnlyAbandonedLeak /\ (\A p \in Pod : PodOK(p)) /\ upsets \in 0 .. MaxUpsets
  BY Zenon DEF ProxyIInv, ProxyBase
<1>2. \A r \in Request : req[r].phase \in Phase /\ req[r].pod \in Pod
  BY <1>1, Zenon DEF ReqTypes, ReqRecord
<1>3. ASSUME NEW p \in Pod
      PROVE  active[p] \in 0 .. Cardinality(Request) /\ conns[p] \in 0 .. MaxConns
  <2>1. /\ active[p] = Cardinality(Unfinished(p)) /\ conns[p] = Cardinality(On(p, Pooled))
        /\ conns[p] <= MaxConns
    BY <1>1, Zenon DEF OnlyAbandonedLeak, Pooled, ReqTypes
  <2>2. Unfinished(p) \in SUBSET Request /\ On(p, Pooled) \in SUBSET Request /\ Request \in SUBSET Request
    BY Zenon DEF Unfinished, On
  <2>3. /\ Cardinality(Unfinished(p)) \in Nat /\ Cardinality(On(p, Pooled)) \in Nat
        /\ Cardinality(Unfinished(p)) <= Cardinality(Request) /\ Cardinality(Request) \in Nat
    BY <2>2, RequestsFinite, Zenon
  <2> QED
    BY <2>1, <2>3, BoundsAssumption, SMT
<1>4. \A p \in Pod : /\ acc[p] \in [Key -> Nat] /\ Cardinality(Keys(acc[p])) <= MaxPendingKeys
                     /\ pending[p] \in [Key -> Nat] /\ wrote[p] \subseteq Keys(pending[p])
  BY <1>1, Zenon DEF TrafficTypes, PodOK
<1> QED
  BY <1>1, <1>2, <1>3, <1>4, Zenon DEF TypeOK, ReqTypes, TrafficTypes

-----------------------------------------------------------------------------
(* The laws of counting, from the library of finite sets.                  *)

FST == INSTANCE FiniteSetTheorems

(* The library counts as the model does.                                   *)
LEMMA SameCount ==
  ASSUME NEW S
  PROVE  (FST!IsFiniteSet(S) <=> IsFiniteSet(S)) /\ FST!Cardinality(S) = Cardinality(S)
  BY Zenon DEF FST!IsFiniteSet, IsFiniteSet, FST!Cardinality, Cardinality

(* Two finite sets have a finite union.                                    *)
LEMMA UnionLaw ==
  ASSUME NEW S, IsFiniteSet(S), NEW T, IsFiniteSet(T)
  PROVE  /\ IsFiniteSet(S \cup T)
         /\ Cardinality(S \cup T) = Cardinality(S) + Cardinality(T) - Cardinality(S \cap T)
<1>1. FST!IsFiniteSet(S) /\ FST!IsFiniteSet(T)
  BY SameCount, Zenon
<1>2. /\ FST!IsFiniteSet(S \cup T)
      /\ FST!Cardinality(S \cup T) =
           FST!Cardinality(S) + FST!Cardinality(T) - FST!Cardinality(S \cap T)
  BY <1>1, FST!FS_Union, ZenonT(40)
<1>3. IsFiniteSet(S \cup T)
  BY <1>2, SameCount, ZenonT(40)
<1>4. /\ FST!Cardinality(S \cup T) = Cardinality(S \cup T) /\ FST!Cardinality(S) = Cardinality(S)
      /\ FST!Cardinality(T) = Cardinality(T) /\ FST!Cardinality(S \cap T) = Cardinality(S \cap T)
  BY SameCount, Zenon
<1> QED
  BY <1>2, <1>3, <1>4, ZenonT(40)

(* The slots are finite, and a change of one pod's share changes their     *)
(* number by as much: their number is the sum of the shares.               *)
LEMMA SlotsCount ==
  ASSUME NEW f \in [Pod -> Nat], NEW g \in [Pod -> Nat], NEW p \in Pod,
         \A q \in Pod : q # p => g[q] = f[q]
  PROVE  /\ Cardinality(Slots(f)) \in Nat /\ Cardinality(Slots(g)) \in Nat
         /\ Cardinality(Slots(g)) = Cardinality(Slots(f)) - f[p] + g[p]
<1>1. ASSUME NEW h \in [Pod -> Nat], NEW q \in Pod
      PROVE  IsFiniteSet(Row(h, q)) /\ Cardinality(Row(h, q)) = h[q]
  <2>1. h[q] \in Nat /\ 1 \in Int /\ h[q] \in Int
    BY FromOne, Zenon
  <2>2. IsFiniteSet(1 .. h[q]) /\ Cardinality(1 .. h[q]) = IF 1 > h[q] THEN 0 ELSE h[q] - 1 + 1
    BY <2>1, FST!FS_Interval, SameCount, ZenonT(40)
  <2>3. Cardinality(1 .. h[q]) = h[q]
    BY <2>1, <2>2, FromOne, ZenonT(40)
  <2>4. IsFiniteSet({q}) /\ Cardinality({q}) = 1
    BY FST!FS_Singleton, SameCount, ZenonT(40)
  <2>5. /\ IsFiniteSet(Row(h, q))
        /\ Cardinality(Row(h, q)) = Cardinality({q}) * Cardinality(1 .. h[q])
    <3> DEFINE S == {q}
               T == 1 .. h[q]
    <3>1. IsFiniteSet(S) /\ IsFiniteSet(T)
      BY <2>2, <2>4, ZenonT(40)
    <3> HIDE DEF S, T
    <3>2. IsFiniteSet(S \X T) /\ Cardinality(S \X T) = Cardinality(S) * Cardinality(T)
      <4>1. FST!IsFiniteSet(S) /\ FST!IsFiniteSet(T)
        BY <3>1, SameCount, ZenonT(40)
      <4>2. FST!IsFiniteSet(S \X T) /\ FST!Cardinality(S \X T) = FST!Cardinality(S) * FST!Cardinality(T)
        BY <4>1, FST!FS_Product, ZenonT(40)
      <4> QED
        BY <4>2, SameCount, ZenonT(40)
    <3> QED
      BY <3>2, Zenon DEF S, T, Row
  <2>6. Cardinality(Row(h, q)) = 1 * h[q]
    BY <2>3, <2>4, <2>5, ZenonT(40)
  <2>7. 1 * h[q] = h[q]
    BY <2>1, FromOne, Zenon
  <2> QED
    BY <2>5, <2>6, <2>7, ZenonT(40)
<1>2. IsFiniteSet(Others(f, p))
  <2> DEFINE D == Pod \ {p}
             R == {Row(f, q) : q \in D}
             F == [q \in D |-> Row(f, q)]
  <2>1. IsFiniteSet(D)
    BY FleetAssumption, FST!FS_RemoveElement, SameCount, ZenonT(40)
  <2>2. F \in FST!Surjection(D, R)
    BY Zenon DEF FST!Surjection
  <2>3. IsFiniteSet(R)
    BY <2>1, <2>2, FST!FS_Surjection, SameCount, ZenonT(40)
  <2>4. \A T \in R : IsFiniteSet(T)
    BY <1>1, Zenon
  <2> HIDE DEF R
  <2>5. IsFiniteSet(UNION R)
    BY <2>3, <2>4, FST!FS_UNION, SameCount, ZenonT(40)
  <2> QED
    BY <2>5, Zenon DEF R, Others
<1>3. ASSUME NEW h \in [Pod -> Nat], \A q \in Pod : q # p => h[q] = f[q]
      PROVE  Cardinality(Slots(h)) \in Nat
             /\ Cardinality(Slots(h)) = Cardinality(Others(f, p)) + h[p]
  <2>1. Slots(h) = Others(f, p) \cup Row(h, p) /\ Others(f, p) \cap Row(h, p) = {}
    BY <1>3, SlotsSplit, Zenon
  <2>2. IsFiniteSet(Row(h, p)) /\ Cardinality(Row(h, p)) = h[p]
    BY <1>1, Zenon
  <2>3. IsFiniteSet(Slots(h)) /\ Cardinality(Slots(h)) = Cardinality(Others(f, p)) + h[p] - Cardinality({})
    <3>1. /\ IsFiniteSet(Others(f, p) \cup Row(h, p))
          /\ Cardinality(Others(f, p) \cup Row(h, p)) =
               Cardinality(Others(f, p)) + Cardinality(Row(h, p)) - Cardinality(Others(f, p) \cap Row(h, p))
      BY <1>2, <2>2, UnionLaw, ZenonT(40)
    <3> QED
      BY <2>1, <2>2, <3>1, ZenonT(40)
  <2>4. Cardinality(Slots(h)) \in Nat /\ Cardinality(Others(f, p)) \in Nat /\ Cardinality({}) = 0
    <3>1. FST!IsFiniteSet(Slots(h)) /\ FST!IsFiniteSet(Others(f, p))
      BY <1>2, <2>3, SameCount, ZenonT(40)
    <3>2. FST!Cardinality(Slots(h)) \in Nat /\ FST!Cardinality(Others(f, p)) \in Nat
      BY <3>1, FST!FS_CardinalityType, Zenon
    <3>3. Cardinality({}) = 0
      BY FST!FS_EmptySet, SameCount, Zenon
    <3> QED
      BY <3>2, <3>3, SameCount, Zenon
  <2> QED
    BY <2>3, <2>4, Disjoint, ZenonT(40)
<1>4. /\ Cardinality(Slots(f)) \in Nat /\ Cardinality(Slots(f)) = Cardinality(Others(f, p)) + f[p]
      /\ Cardinality(Slots(g)) \in Nat /\ Cardinality(Slots(g)) = Cardinality(Others(f, p)) + g[p]
  BY <1>3, Zenon
<1>5. f[p] \in Nat /\ g[p] \in Nat /\ Cardinality(Others(f, p)) \in Nat
  BY <1>2, FST!FS_CardinalityType, SameCount, Zenon
<1>6. Cardinality(Slots(g)) = Cardinality(Slots(f)) - f[p] + g[p]
  <2>1. Cardinality(Others(f, p)) + g[p] = (Cardinality(Others(f, p)) + f[p]) - f[p] + g[p]
    BY <1>5, ShareReplaced, ZenonT(40)
  <2> QED
    BY <1>4, <2>1, ZenonT(40)
<1> QED
  BY <1>4, <1>6, ZenonT(40)

(* The laws hold.                                                          *)
LEMMA CountingHolds == Counting
<1>1. IsFiniteSet({}) /\ Cardinality({}) = 0
  BY FST!FS_EmptySet, SameCount, Zenon
<1>2. ASSUME NEW S, IsFiniteSet(S) PROVE Cardinality(S) \in Nat
  BY <1>2, FST!FS_CardinalityType, SameCount, Zenon
<1>3. ASSUME NEW m \in Int, NEW n \in Int PROVE IsFiniteSet(m .. n)
  BY FST!FS_Interval, SameCount, Zenon
<1>4. ASSUME NEW S, IsFiniteSet(S), NEW T, T \subseteq S
      PROVE  IsFiniteSet(T) /\ Cardinality(T) <= Cardinality(S)
  <2>1. FST!IsFiniteSet(S)
    BY <1>4, SameCount, Zenon
  <2>2. T \in SUBSET S
    BY <1>4, Zenon
  <2>3. FST!IsFiniteSet(T) /\ FST!Cardinality(T) <= FST!Cardinality(S)
    BY <2>1, <2>2, FST!FS_Subset, ZenonT(40)
  <2>4. FST!Cardinality(T) = Cardinality(T) /\ FST!Cardinality(S) = Cardinality(S)
    BY SameCount, Zenon
  <2> QED
    BY <2>3, <2>4, SameCount, Zenon
<1>5. ASSUME NEW S, IsFiniteSet(S), NEW x, x \notin S
      PROVE  IsFiniteSet(S \cup {x}) /\ Cardinality(S \cup {x}) = Cardinality(S) + 1
  BY <1>5, FST!FS_AddElement, SameCount, Zenon
<1>6. ASSUME NEW S, IsFiniteSet(S), NEW x, x \in S
      PROVE  IsFiniteSet(S \ {x}) /\ Cardinality(S \ {x}) = Cardinality(S) - 1
  BY <1>6, FST!FS_RemoveElement, SameCount, Zenon
<1>7. ASSUME NEW S, IsFiniteSet(S), NEW T, IsFiniteSet(T)
      PROVE  /\ IsFiniteSet(S \cup T)
             /\ Cardinality(S \cup T) = Cardinality(S) + Cardinality(T) - Cardinality(S \cap T)
  BY <1>7, UnionLaw, Zenon
<1>8. ASSUME NEW S \in SUBSET Nat, S # {} PROVE \E x \in S : \A y \in S : x <= y
  <2>1. PICK x \in S : \A y \in S : ~(<<y, x>> \in FST!OpToRel(<, Nat))
    BY <1>8, FST!NatLessThanWellFounded, FST!WFMin, Zenon
  <2>2. \A y \in S : ~(y < x)
    <3> SUFFICES ASSUME NEW y \in S, y < x PROVE FALSE
      OBVIOUS
    <3>1. <<y, x>> \in Nat \X Nat /\ <<y, x>>[1] = y /\ <<y, x>>[2] = x
      BY SMT
    <3>2. <<y, x>> \in FST!OpToRel(<, Nat)
      BY <3>1, Zenon DEF FST!OpToRel
    <3> QED
      BY <2>1, <3>2, Zenon
  <2> QED
    BY <2>2, SMTT(30)
<1> QED
  <2>1. SlotsLaw
    BY SlotsCount, Zenon DEF SlotsLaw
  <2> QED
    BY <1>1, <1>2, <1>3, <1>4, <1>5, <1>6, <1>7, <1>8, <2>1, ZenonT(40) DEF Counting

-----------------------------------------------------------------------------
(* What holds of every behaviour of the proxy.                             *)

(* The invariant holds of every state the fleet can reach, whatever the    *)
(* number of pods, users and requests, the settings and the bounds.        *)
THEOREM ProxyInvariant == Spec => []ProxyIInv
<1>1. Init => ProxyIInv
  BY CountingHolds, ProxyStarts, Zenon
<1>2. ProxyIInv /\ [Next]_vars => ProxyIInv'
  BY CountingHolds, ProxyKeeps, Zenon
<1> QED
  BY <1>1, <1>2, PTL DEF Spec

(* Every variable has its type: an accumulator never holds more than       *)
(* MAX_PENDING_KEYS keys, eviction and failed flushes included, and a pod  *)
(* never more connections than its pool.                                   *)
THEOREM ProxyTyped == Spec => []TypeOK
<1>1. ProxyIInv => TypeOK
  BY CountingHolds, ProxyTypes, ZenonT(40)
<1> QED
  BY <1>1, ProxyInvariant, PTL

(* The gauge of a pod and the connections it holds are those of the        *)
(* requests it runs and of streams abandoned before their first step: on   *)
(* every path of every route the gauge is lowered and the connection given *)
(* back exactly once.                                                      *)
THEOREM GaugeIsExact == Spec => []OnlyAbandonedLeak
<1>1. ProxyIInv => OnlyAbandonedLeak
  BY Zenon DEF ProxyIInv, ProxyBase
<1> QED
  BY <1>1, ProxyInvariant, PTL

(* The shared counter neither lets more requests of a user through in a    *)
(* window than the limit, for windows no longer than what the purge keeps, *)
(* nor refuses one before that many others were counted.                   *)
THEOREM QuotaIsExact == Spec => []QuotaHolds
<1>1. ProxyIInv => QuotaHolds
  BY Zenon DEF ProxyIInv, ProxyQuota
<1> QED
  BY <1>1, ProxyInvariant, PTL

(* A finalized request is counted once, in llm_traffic or on its way there; *)
(* it is lost only by an overflow or with its pod, and repeated only by a  *)
(* flush that failed after it had written a row.                           *)
THEOREM TrafficCounted == Spec => []TrafficIsExact
<1>1. ProxyIInv => TrafficIsExact
  BY Zenon DEF ProxyIInv, ProxyBase
<1> QED
  BY <1>1, ProxyInvariant, PTL

(* The throttle judges a request once: neither a later step of its handler, *)
(* nor a restart, a reload or another request, changes what it was told    *)
(* or charges it again.                                                    *)
THEOREM JudgementIsFinal ==
  Spec => [][\A r \in Request : req[r].quota # NoQuota => req'[r].quota = req[r].quota]_vars
<1>1. ProxyIInv /\ [Next]_vars =>
        [\A r \in Request : req[r].quota # NoQuota => req'[r].quota = req[r].quota]_vars
  BY CountingHolds, JudgedOnce, Zenon
<1> QED
  BY <1>1, ProxyInvariant, PTL DEF Spec

=============================================================================
