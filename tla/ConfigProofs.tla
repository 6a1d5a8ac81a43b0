---------------------------- MODULE ConfigProofs ----------------------------
(***************************************************************************)
(* Proofs about how the configuration reaches the clients, in two parts    *)
(* that share nothing but this module.                                     *)
(*                                                                         *)
(* RuntimeConfigSync, for any fleet, any division into admin and other     *)
(* pods and any bounds: the inductive invariant IInv, its preservation by  *)
(* process starts, admin requests, the steps of reload_overrides, its ways *)
(* out and the sync loop, and what follows.                                *)
(*                                                                         *)
(* ConfigCache, for any number of pods, keys, requests and edits: the      *)
(* inductive invariant CacheIInv. A request that began after the last      *)
(* clear of its pod holds what it would read now: that is what its entry   *)
(* inherits.                                                               *)
(***************************************************************************)
EXTENDS RuntimeConfigSync, ConfigCache, TLAPS

HasRows == {"meta", "apply", "mark"}

(* The locals of a thread in reload_overrides: the generation was read     *)
(* before the rows, so the rows are at least as new.                       *)
ThreadOK(p, t) ==
    /\ pc[p][t] \in HasRows \cup {"rows"} => gen[p][t] # Baseline
    /\ pc[p][t] \in HasRows => gen[p][t] <= fetched[p][t]
    /\ gen[p][t] <= generation
    /\ fetched[p][t] <= generation
    /\ pc[p][t] = "mark" => env[p] # Baseline

LifeOK(p) ==
    /\ life[p] = "down" => /\ pc[p]["main"] = "idle" /\ pc[p]["sync"] = "idle"
                           /\ env[p] = Baseline /\ meta[p] = Baseline
    /\ life[p] = "importing" => pc[p]["main"] # "idle" /\ pc[p]["sync"] = "idle"
    /\ life[p] # "up" => /\ applied_generation[p] = Unapplied
                         /\ ~ready[p] /\ ~enrolled[p]
    /\ ready[p] => env[p] # Baseline /\ applied_generation[p] # Unapplied

(* A pod that reloads from one thread at a time. *)
SoleOK(p) ==
    /\ life[p] = "up" => pc[p]["main"] = "idle"
    /\ applied_generation[p] <= env[p]
    /\ env[p] <= meta[p]
    /\ meta[p] <= generation
    /\ \A t \in Thread : /\ pc[p][t] \in HasRows => meta[p] <= fetched[p][t]
                         /\ pc[p][t] \in {"apply", "mark"} => meta[p] = fetched[p][t]
                         /\ pc[p][t] = "mark" => env[p] = fetched[p][t]
    /\ enrolled[p] => row_generation[p] <= env[p]

IInv == /\ TypeOK
        /\ rows = generation
        /\ \A p \in Pod : LifeOK(p) /\ \A t \in Thread : ThreadOK(p, t)
        /\ \A p \in SolePod : SoleOK(p)

(* A pod whose process and row a step leaves alone. *)
Same(p) == /\ life'[p] = life[p] /\ enrolled'[p] = enrolled[p]
           /\ env'[p] = env[p] /\ meta'[p] = meta[p]
           /\ applied_generation'[p] = applied_generation[p] /\ ready'[p] = ready[p]
           /\ pc'[p] = pc[p] /\ gen'[p] = gen[p] /\ fetched'[p] = fetched[p]
           /\ row_generation'[p] = row_generation[p]

PodOK(p) == /\ LifeOK(p)
            /\ \A t \in Thread : ThreadOK(p, t)
            /\ p \in SolePod => SoleOK(p)

(* The threads of a pod whose import has ended.                            *)
LEMMA AfterImport == [main |-> "idle", sync |-> "check"] \in [Thread -> Label]
<1>1. "idle" \in Label /\ "check" \in Label
  BY Zenon DEF Label
<1> QED
  BY <1>1, SMT DEF Thread

(* Generations are ordered.                                                *)
LEMMA Ordered ==
  ASSUME NEW a \in Int
  PROVE  a <= a /\ \A b, c \in Int : a <= b /\ b <= c => a <= c
  BY SMT

-----------------------------------------------------------------------------
(* Before any pod starts, nothing is loaded and nothing is claimed. *)
LEMMA InitIInv == Init => IInv
<1> SUFFICES ASSUME Init PROVE IInv
  BY Zenon
<1> USE SyncAssumption DEF Init, Generation, Baseline, Unapplied, Thread
<1>1. TypeOK
  BY DEF TypeOK, Label
<1>2. ASSUME NEW p \in Pod PROVE LifeOK(p) /\ SoleOK(p)
  BY DEF LifeOK, SoleOK, HasRows
<1>3. ASSUME NEW p \in Pod, NEW t \in Thread PROVE ThreadOK(p, t)
  BY DEF ThreadOK, HasRows
<1> QED
  BY <1>1, <1>2, <1>3, Zenon DEF IInv, SolePod

(* A step of one pod does not disturb the others: the counter only grows.  *)
LEMMA OnePodStep ==
  ASSUME IInv, NEW p \in Pod, TypeOK', rows' = generation', generation <= generation',
         \A q \in Pod \ {p} : Same(q), PodOK(p)'
  PROVE  IInv'
<1>1. ASSUME NEW q \in Pod, q # p PROVE PodOK(q)'
  <2>1. Same(q) /\ PodOK(q)
    BY <1>1, Zenon DEF IInv, PodOK
  <2>2. /\ generation \in Int /\ generation' \in Int /\ meta[q] \in Int
        /\ \A t \in Thread : gen[q][t] \in Int /\ fetched[q][t] \in Int
    BY SyncAssumption DEF IInv, TypeOK, Generation, Baseline
  <2>3. LifeOK(q)'
    BY <2>1, Zenon DEF PodOK, LifeOK, Same
  <2>4. ASSUME NEW t \in Thread PROVE ThreadOK(q, t)'
    BY <2>1, <2>2, SMTT(30) DEF PodOK, ThreadOK, Same
  <2>5. q \in SolePod => SoleOK(q)'
    BY <2>1, <2>2 DEF PodOK, SoleOK, Same
  <2> QED
    BY <2>3, <2>4, <2>5, Zenon DEF PodOK
<1>2. \A q \in Pod : PodOK(q)'
  BY <1>1, Zenon
<1> QED
  BY <1>2, Zenon DEF IInv, PodOK, SolePod

(* Starting a process sends its main thread into the import-time reload.   *)
LEMMA StartStep == ASSUME IInv, NEW p \in Pod, Start(p) PROVE IInv'
<1> USE SyncAssumption
<1>1. TypeOK'
  BY DEF IInv, TypeOK, Start, Goto, Label, Reloading, Thread,
         dbVars, fleetVars, podVars
<1>2. /\ life' = [life EXCEPT ![p] = "importing"]
      /\ pc' = [pc EXCEPT ![p]["main"] = "gen"]
      /\ life[p] = "down"
      /\ UNCHANGED <<generation, rows, row_generation, env, meta, applied_generation,
                     ready, enrolled, gen, fetched>>
  BY Zenon DEF Start, Goto, dbVars, fleetVars, podVars
<1>3. \A q \in Pod \ {p} : Same(q)
  BY <1>2, Zenon DEF IInv, TypeOK, Same
<1>4. life'[p] = "importing" /\ pc'[p]["main"] = "gen" /\ pc'[p]["sync"] = "idle"
  BY <1>2 DEF IInv, TypeOK, LifeOK, Thread
<1>5. PodOK(p)'
  BY <1>2, <1>4, Zenon DEF IInv, PodOK, LifeOK, ThreadOK, SoleOK, HasRows, Thread
<1>6. rows' = generation' /\ generation <= generation'
  BY <1>2 DEF IInv, TypeOK, Generation
<1> QED
  BY <1>1, <1>3, <1>5, <1>6, OnePodStep, Zenon

(* A process that ends forgets everything it loaded; its row stays.        *)
LEMMA CrashStep == ASSUME IInv, NEW p \in Pod, Crash(p) PROVE IInv'
<1> USE SyncAssumption
<1>1. /\ life' = [life EXCEPT ![p] = "down"]
      /\ env' = [env EXCEPT ![p] = Baseline]
      /\ meta' = [meta EXCEPT ![p] = Baseline]
      /\ applied_generation' = [applied_generation EXCEPT ![p] = Unapplied]
      /\ ready' = [ready EXCEPT ![p] = FALSE]
      /\ enrolled' = [enrolled EXCEPT ![p] = FALSE]
      /\ pc' = [pc EXCEPT ![p] = [t \in Thread |-> "idle"]]
      /\ gen' = [gen EXCEPT ![p] = [t \in Thread |-> Baseline]]
      /\ fetched' = [fetched EXCEPT ![p] = [t \in Thread |-> Baseline]]
      /\ UNCHANGED <<generation, rows, fleet, row_generation, restart_count, expired,
                     starts, failures>>
  BY Zenon DEF Crash, dbVars, fleetVars
<1>2. TypeOK'
  BY <1>1, Zenon DEF IInv, TypeOK, Label, Thread
<1>3. \A q \in Pod \ {p} : Same(q)
  BY <1>1, ZenonT(40) DEF IInv, TypeOK, Same
<1>4. /\ life'[p] = "down" /\ env'[p] = Baseline /\ meta'[p] = Baseline
      /\ applied_generation'[p] = Unapplied /\ ~ready'[p] /\ ~enrolled'[p]
      /\ \A t \in Thread : /\ pc'[p][t] = "idle" /\ gen'[p][t] = Baseline
                           /\ fetched'[p][t] = Baseline
  BY <1>1, Zenon DEF IInv, TypeOK
<1>5. generation' \in Nat
  BY <1>1 DEF IInv, TypeOK, Generation
<1>6. PodOK(p)'
  BY <1>4, <1>5 DEF PodOK, LifeOK, ThreadOK, SoleOK, HasRows, Thread, Baseline, Unapplied
<1>7. rows' = generation' /\ generation <= generation'
  BY <1>1 DEF IInv, TypeOK, Generation
<1> QED
  BY <1>2, <1>3, <1>6, <1>7, OnePodStep, Zenon

(* A request of an admin pod sends its main thread into a reload, after an *)
(* edit or without one.                                                    *)
LEMMA AdminStep ==
  ASSUME IInv, NEW p \in Pod, ConfigWrite(p) \/ ConfigList(p) PROVE IInv'
<1> USE SyncAssumption
<1>1. /\ p \in AdminPod /\ life[p] = "up"
      /\ pc[p]["main"] = "idle"
      /\ pc' = [pc EXCEPT ![p]["main"] = "gen"]
      /\ UNCHANGED <<fleet, row_generation, restart_count, expired, life, env, meta,
                     applied_generation, ready, enrolled, gen, fetched, starts, failures>>
  BY Zenon DEF ConfigWrite, ConfigList, AdminRequest, Serving, Goto, fleetVars, podVars
<1>2. rows' = generation' /\ generation <= generation' /\ generation' \in Generation
  BY DEF IInv, TypeOK, Generation, ConfigWrite, ConfigList, dbVars
<1>3. TypeOK'
  <2>1. pc' \in [Pod -> [Thread -> Label]]
    BY <1>1, Zenon DEF IInv, TypeOK, Thread, Label, Reloading
  <2> QED
    BY <1>1, <1>2, <2>1, Zenon DEF IInv, TypeOK
<1>4. \A q \in Pod \ {p} : Same(q)
  BY <1>1, Zenon DEF IInv, TypeOK, Same
<1>5. pc'[p]["main"] = "gen" /\ pc'[p]["sync"] = pc[p]["sync"]
  BY <1>1 DEF IInv, TypeOK, Thread
<1>6. PodOK(p)'
  <2>1. LifeOK(p)'
    BY <1>1, Zenon DEF IInv, LifeOK
  <2>2. ASSUME NEW t \in Thread PROVE ThreadOK(p, t)'
    <3>1. /\ ThreadOK(p, t) /\ generation \in Int /\ generation' \in Int
          /\ gen[p][t] \in Int /\ fetched[p][t] \in Int
      BY <1>2 DEF IInv, TypeOK, Generation, Baseline
    <3>2. pc'[p][t] \in {pc[p][t], "gen"}
      BY <1>5, Zenon DEF Thread
    <3> QED
      BY <1>1, <1>2, <3>1, <3>2 DEF ThreadOK, HasRows
  <2>3. p \notin SolePod
    BY <1>1, Zenon DEF SolePod
  <2> QED
    BY <2>1, <2>2, <2>3, Zenon DEF PodOK
<1> QED
  BY <1>2, <1>3, <1>4, <1>6, OnePodStep, Zenon

(* Two threads of a pod that has one reloading thread are never both in a  *)
(* reload: main only reloads at import, before sync exists.                *)
LEMMA OneReloader ==
  ASSUME IInv, NEW p \in SolePod, NEW t \in Thread, NEW u \in Thread, u # t,
         pc[p][t] # "idle"
  PROVE  pc[p][u] = "idle"
<1>1. p \in Pod /\ LifeOK(p) /\ SoleOK(p) /\ life[p] \in {"down", "importing", "up"}
  BY Zenon DEF IInv, SolePod, TypeOK
<1> QED
  BY <1>1, Zenon DEF LifeOK, SoleOK, Thread

(* reload_overrides reads the counter. *)
LEMMA ReadGenerationStep ==
  ASSUME IInv, NEW p \in Pod, NEW t \in Thread, ReadGeneration(p, t) PROVE IInv'
<1> USE SyncAssumption
<1>1. /\ pc[p][t] = "gen"
      /\ gen' = [gen EXCEPT ![p][t] = generation]
      /\ pc' = [pc EXCEPT ![p][t] = "rows"]
      /\ UNCHANGED <<generation, rows, fleet, row_generation, restart_count, expired, life,
                     env, meta, applied_generation, ready, enrolled, fetched, starts,
                     failures>>
  BY Zenon DEF ReadGeneration, Goto, dbVars, fleetVars, podVars
<1>2. TypeOK'
  <2>1. pc' \in [Pod -> [Thread -> Label]]
    BY <1>1, Zenon DEF IInv, TypeOK, Label, Reloading
  <2>2. gen' \in [Pod -> [Thread -> Generation \cup {Baseline}]]
    BY <1>1, Zenon DEF IInv, TypeOK
  <2> QED
    BY <1>1, <2>1, <2>2, Zenon DEF IInv, TypeOK
<1>3. \A q \in Pod \ {p} : Same(q)
  BY <1>1, Zenon DEF IInv, TypeOK, Same
<1>4. /\ pc'[p][t] = "rows" /\ gen'[p][t] = generation
      /\ \A u \in Thread \ {t} : pc'[p][u] = pc[p][u] /\ gen'[p][u] = gen[p][u]
  BY <1>1, Zenon DEF IInv, TypeOK
<1>5. LifeOK(p)'
  BY <1>1, <1>4, ZenonT(40) DEF IInv, LifeOK, Thread
<1>6. ASSUME NEW u \in Thread PROVE ThreadOK(p, u)'
  BY <1>1, <1>4, SMTT(30) DEF IInv, ThreadOK, HasRows, TypeOK, Generation, Baseline
<1>7. p \in SolePod => SoleOK(p)'
  BY <1>1, <1>4, SMTT(30) DEF IInv, SoleOK, HasRows, Thread
<1>8. rows' = generation' /\ generation <= generation'
  BY <1>1 DEF IInv, TypeOK, Generation
<1> QED
  BY <1>2, <1>3, <1>5, <1>6, <1>7, <1>8, OnePodStep, Zenon DEF PodOK

(* reload_overrides reads the rows: at least as new as the counter it read *)
(* and as what the pod has applied.                                        *)
LEMMA ReadRowsStep ==
  ASSUME IInv, NEW p \in Pod, NEW t \in Thread, ReadRows(p, t) PROVE IInv'
<1> USE SyncAssumption
<1>1. /\ pc[p][t] = "rows"
      /\ fetched' = [fetched EXCEPT ![p][t] = rows]
      /\ pc' = [pc EXCEPT ![p][t] = "meta"]
      /\ UNCHANGED <<generation, rows, fleet, row_generation, restart_count, expired, life,
                     env, meta, applied_generation, ready, enrolled, gen, starts,
                     failures>>
  BY Zenon DEF ReadRows, Goto, dbVars, fleetVars, podVars
<1>2. TypeOK'
  <2>1. pc' \in [Pod -> [Thread -> Label]]
    BY <1>1, Zenon DEF IInv, TypeOK, Label, Reloading
  <2>2. fetched' \in [Pod -> [Thread -> Generation \cup {Baseline}]]
    BY <1>1, Zenon DEF IInv, TypeOK
  <2> QED
    BY <1>1, <2>1, <2>2, Zenon DEF IInv, TypeOK
<1>3. \A q \in Pod \ {p} : Same(q)
  BY <1>1, Zenon DEF IInv, TypeOK, Same
<1>4. /\ pc'[p][t] = "meta" /\ fetched'[p][t] = generation
      /\ \A u \in Thread \ {t} : pc'[p][u] = pc[p][u] /\ fetched'[p][u] = fetched[p][u]
  BY <1>1, Zenon DEF IInv, TypeOK
<1>5. LifeOK(p)'
  BY <1>1, <1>4, ZenonT(40) DEF IInv, LifeOK, Thread
<1>6. ASSUME NEW u \in Thread PROVE ThreadOK(p, u)'
  BY <1>1, <1>4, SMTT(30) DEF IInv, ThreadOK, HasRows, TypeOK, Generation, Baseline
<1>7. p \in SolePod => SoleOK(p)'
  BY <1>1, <1>4 DEF IInv, SoleOK, HasRows, Thread
<1>8. rows' = generation' /\ generation <= generation'
  BY <1>1 DEF IInv, TypeOK, Generation
<1> QED
  BY <1>2, <1>3, <1>5, <1>6, <1>7, <1>8, OnePodStep, Zenon DEF PodOK

(* _OVERRIDES_META and then os.environ take the rows that were read.       *)
LEMMA ApplyStep ==
  ASSUME IInv, NEW p \in Pod, NEW t \in Thread, SetMeta(p, t) \/ ApplyState(p, t)
  PROVE  IInv'
<1> USE SyncAssumption
<1>1. /\ \/ /\ pc[p][t] = "meta" /\ pc' = [pc EXCEPT ![p][t] = "apply"]
            /\ meta' = [meta EXCEPT ![p] = fetched[p][t]] /\ env' = env
         \/ /\ pc[p][t] = "apply" /\ pc' = [pc EXCEPT ![p][t] = "mark"]
            /\ env' = [env EXCEPT ![p] = fetched[p][t]] /\ meta' = meta
      /\ UNCHANGED <<generation, rows, fleet, row_generation, restart_count, expired, life,
                     applied_generation, ready, enrolled, gen, fetched, starts, failures>>
  BY Zenon DEF SetMeta, ApplyState, Goto, dbVars, fleetVars
<1>2. TypeOK'
  <2>1. pc' \in [Pod -> [Thread -> Label]]
    <3>1. pc \in [Pod -> [Thread -> Label]] /\ "apply" \in Label /\ "mark" \in Label
      BY Zenon DEF IInv, TypeOK, Label, Reloading
    <3> QED
      BY <1>1, <3>1
  <2>2. /\ env' \in [Pod -> Generation \cup {Baseline}]
        /\ meta' \in [Pod -> Generation \cup {Baseline}]
    <3>1. /\ env \in [Pod -> Generation \cup {Baseline}]
          /\ meta \in [Pod -> Generation \cup {Baseline}]
          /\ fetched[p][t] \in Generation \cup {Baseline}
      BY ZenonT(40) DEF IInv, TypeOK
    <3> QED
      BY <1>1, <3>1, Zenon
  <2> QED
    BY <1>1, <2>1, <2>2, Zenon DEF IInv, TypeOK
<1>3. \A q \in Pod \ {p} : Same(q)
  BY <1>1, ZenonT(40) DEF IInv, TypeOK, Same
<1>4. /\ \/ /\ pc[p][t] = "meta" /\ pc'[p][t] = "apply"
            /\ meta'[p] = fetched[p][t] /\ env'[p] = env[p]
         \/ /\ pc[p][t] = "apply" /\ pc'[p][t] = "mark"
            /\ env'[p] = fetched[p][t] /\ meta'[p] = meta[p]
      /\ \A u \in Thread \ {t} : pc'[p][u] = pc[p][u]
  BY <1>1, SMTT(30) DEF IInv, TypeOK
<1>5. fetched[p][t] \in Generation /\ fetched[p][t] # Baseline
  BY <1>4 DEF IInv, TypeOK, ThreadOK, HasRows, Generation, Baseline
<1>6. LifeOK(p)'
  BY <1>1, <1>4, <1>5, Zenon DEF IInv, LifeOK, Thread
<1>7. ASSUME NEW u \in Thread PROVE ThreadOK(p, u)'
  BY <1>1, <1>4, <1>5, ZenonT(40) DEF IInv, ThreadOK, HasRows
<1>8. ASSUME p \in SolePod PROVE SoleOK(p)'
  <2>1. \A u \in Thread \ {t} : pc'[p][u] = "idle"
    BY <1>4, <1>8, OneReloader, Zenon
  <2>2. SoleOK(p) /\ fetched[p][t] <= generation
    BY <1>8, Zenon DEF IInv, ThreadOK
  <2>3. /\ env[p] \in Int /\ meta[p] \in Int /\ fetched[p][t] \in Int
        /\ generation \in Int /\ applied_generation[p] \in Int
        /\ row_generation[p] \in Int
    BY <1>5, SMTT(30) DEF IInv, TypeOK, Generation, Baseline, Unapplied
  <2>4. /\ env[p] <= env'[p] /\ env'[p] <= meta'[p] /\ meta'[p] <= generation
        /\ meta'[p] = fetched[p][t] /\ env'[p] \in Int
        /\ pc'[p][t] = "mark" => env'[p] = fetched[p][t]
    <3>1. /\ env[p] <= meta[p] /\ meta[p] <= generation
          /\ pc[p][t] = "meta" => meta[p] <= fetched[p][t]
          /\ pc[p][t] = "apply" => meta[p] = fetched[p][t]
      BY <2>2, Zenon DEF SoleOK, HasRows
    <3>2. CASE /\ pc[p][t] = "meta" /\ pc'[p][t] = "apply"
               /\ meta'[p] = fetched[p][t] /\ env'[p] = env[p]
      <4>1. env[p] <= meta[p] /\ meta[p] <= fetched[p][t]
        BY <3>1, <3>2, ZenonT(40)
      <4>2. env[p] <= env[p] /\ env[p] <= fetched[p][t]
        BY <2>3, <4>1, Ordered, Zenon
      <4> QED
        BY <2>2, <2>3, <3>2, <4>2, Zenon
    <3>3. CASE /\ pc[p][t] = "apply" /\ pc'[p][t] = "mark"
               /\ env'[p] = fetched[p][t] /\ meta'[p] = meta[p]
      <4>1. env[p] <= fetched[p][t] /\ meta[p] = fetched[p][t]
        BY <3>1, <3>3, Zenon
      <4>2. fetched[p][t] <= fetched[p][t]
        BY <2>3, Ordered, Zenon
      <4> QED
        BY <2>2, <2>3, <3>3, <4>1, <4>2, Zenon
    <3> QED
      BY <1>4, <3>2, <3>3, Zenon
  <2>5. life[p] = "up" => pc'[p]["main"] = "idle"
    BY <1>4, <2>1, <2>2, Zenon DEF SoleOK, Thread
  <2>6. applied_generation[p] <= env'[p] /\ (enrolled[p] => row_generation[p] <= env'[p])
    <3>1. applied_generation[p] <= env[p] /\ (enrolled[p] => row_generation[p] <= env[p])
      BY <2>2, Zenon DEF SoleOK
    <3> QED
      BY <2>3, <2>4, <3>1, Ordered, ZenonT(40)
  <2>7. \A u \in Thread : /\ pc'[p][u] \in HasRows => meta'[p] <= fetched[p][u]
                          /\ pc'[p][u] \in {"apply", "mark"} => meta'[p] = fetched[p][u]
                          /\ pc'[p][u] = "mark" => env'[p] = fetched[p][u]
    <3>1. fetched[p][t] <= fetched[p][t]
      BY <2>3, Ordered, Zenon
    <3> QED
      BY <2>1, <2>4, <3>1, ZenonT(40) DEF HasRows
  <2>8. UNCHANGED <<generation, life, fetched, applied_generation, enrolled, row_generation>>
    BY <1>1, Zenon
  <2> QED
    BY <2>4, <2>5, <2>6, <2>7, <2>8, Zenon DEF SoleOK
<1>9. rows' = generation' /\ generation <= generation'
  BY <1>1 DEF IInv, TypeOK, Generation
<1> QED
  BY <1>2, <1>3, <1>6, <1>7, <1>8, <1>9, OnePodStep, Zenon DEF PodOK

-----------------------------------------------------------------------------
(* What Resume leaves behind in its pod: the thread has forgotten its      *)
(* locals and is out of the reload, the process is up.                     *)
Resumed(p, t) ==
    /\ life'[p] = "up"
    /\ pc'[p][t] \notin Reloading
    /\ gen'[p][t] = Baseline /\ fetched'[p][t] = Baseline
    /\ \A u \in Thread \ {t} : /\ gen'[p][u] = gen[p][u]
                               /\ fetched'[p][u] = fetched[p][u]
                               /\ pc'[p][u] \in Reloading => pc'[p][u] = pc[p][u]
    /\ p \in SolePod => pc'[p]["main"] = "idle"

(* And in the others, with the types it keeps. *)
OthersKept(p) ==
    \A q \in Pod \ {p} : /\ life'[q] = life[q] /\ pc'[q] = pc[q]
                         /\ gen'[q] = gen[q] /\ fetched'[q] = fetched[q]

LocalTypes == /\ life \in [Pod -> {"down", "importing", "up"}]
              /\ pc \in [Pod -> [Thread -> Label]]
              /\ gen \in [Pod -> [Thread -> Generation \cup {Baseline}]]
              /\ fetched \in [Pod -> [Thread -> Generation \cup {Baseline}]]

(* The way out of reload_overrides, by its end or by its except clause.    *)
LEMMA ResumeFacts ==
  ASSUME IInv, NEW p \in Pod, NEW t \in Thread, NEW next \in Label \ Reloading,
         t = "main" => next = "idle", Resume(p, t, next)
  PROVE  LocalTypes' /\ OthersKept(p) /\ Resumed(p, t)
<1>1. LocalTypes
  BY Zenon DEF IInv, TypeOK, LocalTypes
<1>2. LifeOK(p) /\ (p \in SolePod => SoleOK(p))
  BY Zenon DEF IInv
<1>3. /\ life' \in [Pod -> {"down", "importing", "up"}] /\ life'[p] = "up"
      /\ \A q \in Pod \ {p} : life'[q] = life[q]
  BY <1>1, Zenon DEF Resume, LocalTypes
<1>4. /\ gen' \in [Pod -> [Thread -> Generation \cup {Baseline}]]
      /\ gen'[p][t] = Baseline /\ \A u \in Thread \ {t} : gen'[p][u] = gen[p][u]
      /\ \A q \in Pod \ {p} : gen'[q] = gen[q]
  BY <1>1, Zenon DEF Resume, LocalTypes
<1>5. /\ fetched' \in [Pod -> [Thread -> Generation \cup {Baseline}]]
      /\ fetched'[p][t] = Baseline
      /\ \A u \in Thread \ {t} : fetched'[p][u] = fetched[p][u]
      /\ \A q \in Pod \ {p} : fetched'[q] = fetched[q]
  BY <1>1, Zenon DEF Resume, LocalTypes
<1>6. /\ pc' \in [Pod -> [Thread -> Label]] /\ \A q \in Pod \ {p} : pc'[q] = pc[q]
      /\ pc'[p][t] \notin Reloading
      /\ \A u \in Thread \ {t} : pc'[p][u] \in Reloading => pc'[p][u] = pc[p][u]
      /\ p \in SolePod => pc'[p]["main"] = "idle"
  <2>1. CASE life[p] = "importing"
    <3>1. pc' = [pc EXCEPT ![p] = [main |-> "idle", sync |-> "check"]]
      BY <2>1, Zenon DEF Resume
    <3>2. [main |-> "idle", sync |-> "check"] \in [Thread -> Label]
      BY AfterImport, Zenon
    <3>3. pc' \in [Pod -> [Thread -> Label]] /\ \A q \in Pod \ {p} : pc'[q] = pc[q]
      BY <1>1, <3>1, <3>2, Zenon DEF LocalTypes
    <3>4. pc'[p]["main"] = "idle" /\ pc'[p]["sync"] = "check"
      BY <1>1, <3>1, Zenon DEF LocalTypes
    <3> QED
      BY <3>3, <3>4, Zenon DEF Thread, Reloading
  <2>2. CASE life[p] # "importing"
    <3>1. pc' = [pc EXCEPT ![p][t] = next]
      BY <2>2, Zenon DEF Resume
    <3>2. /\ pc' \in [Pod -> [Thread -> Label]] /\ \A q \in Pod \ {p} : pc'[q] = pc[q]
          /\ pc'[p][t] = next /\ \A u \in Thread \ {t} : pc'[p][u] = pc[p][u]
      BY <1>1, <3>1, Zenon DEF LocalTypes
    <3>3. p \in SolePod => pc'[p]["main"] = "idle"
      BY <1>1, <1>2, <2>2, <3>2, Zenon DEF SoleOK, LifeOK, Thread, LocalTypes
    <3> QED
      BY <3>2, <3>3, Zenon
  <2> QED
    BY <2>1, <2>2, Zenon
<1> QED
  BY <1>3, <1>4, <1>5, <1>6, Zenon DEF LocalTypes, OthersKept, Resumed

(* The threads of a pod that leaves reload_overrides: the one that leaves  *)
(* holds no locals, the others hold theirs.                                *)
LEMMA ResumedThreads ==
  ASSUME IInv, NEW p \in Pod, NEW t \in Thread, Resumed(p, t),
         env'[p] = env[p], generation' = generation, NEW u \in Thread
  PROVE  ThreadOK(p, u)'
<1>1. ThreadOK(p, u) /\ generation \in Nat
  BY SyncAssumption DEF IInv, TypeOK, Generation
<1>2. CASE u = t
  <2>1. pc'[p][u] \notin HasRows \cup {"rows"}
    BY <1>2, ZenonT(40) DEF Resumed, HasRows, Reloading
  <2>2. gen'[p][u] <= generation' /\ fetched'[p][u] <= generation'
    BY <1>1, <1>2 DEF Resumed, Baseline
  <2> QED
    BY <2>1, <2>2, Zenon DEF ThreadOK, HasRows
<1>3. CASE u # t
  <2>1. gen'[p][u] = gen[p][u] /\ fetched'[p][u] = fetched[p][u]
    BY <1>3, Zenon DEF Resumed
  <2>2. \A x \in HasRows \cup {"rows"} : pc'[p][u] = x => pc[p][u] = x
    BY <1>3, Zenon DEF Resumed, HasRows, Reloading
  <2> QED
    BY <1>1, <2>1, <2>2, Zenon DEF ThreadOK, HasRows
<1> QED
  BY <1>2, <1>3, Zenon

(* On a pod with one reloading thread nobody is left in reload_overrides,  *)
(* and what the pod holds still covers what it claims.                     *)
LEMMA ResumedSole ==
  ASSUME IInv, NEW p \in SolePod, NEW t \in Thread, Resumed(p, t), pc[p][t] # "idle",
         UNCHANGED <<generation, env, meta, row_generation>>,
         enrolled'[p] => enrolled[p], applied_generation'[p] <= env[p]
  PROVE  SoleOK(p)'
<1>1. SoleOK(p) /\ p \in Pod
  BY Zenon DEF IInv, SolePod
<1>2. ASSUME NEW u \in Thread PROVE pc'[p][u] \notin Reloading
  <2>1. CASE u = t
    BY <2>1, Zenon DEF Resumed
  <2>2. CASE u # t
    <3>1. pc[p][u] = "idle"
      BY <2>2, OneReloader, Zenon
    <3> QED
      BY <2>2, <3>1, Zenon DEF Resumed, Reloading
  <2> QED
    BY <2>1, <2>2, Zenon
<1>3. \A u \in Thread : pc'[p][u] \notin HasRows /\ pc'[p][u] \notin {"apply", "mark"}
  BY <1>2, Zenon DEF HasRows, Reloading
<1>4. pc'[p]["main"] = "idle"
  BY Zenon DEF Resumed
<1> QED
  BY <1>1, <1>3, <1>4, Zenon DEF SoleOK

(* The end of reload_overrides: the counter that was read before the rows  *)
(* is recorded.                                                            *)
LEMMA MarkAppliedStep ==
  ASSUME IInv, NEW p \in Pod, NEW t \in Thread, MarkApplied(p, t) PROVE IInv'
<1> DEFINE next == IF t = "sync" THEN "beat" ELSE "idle"
<1> USE SyncAssumption
<1>1. /\ pc[p][t] = "mark"
      /\ applied_generation' = [applied_generation EXCEPT ![p] = gen[p][t]]
      /\ ready' = [ready EXCEPT ![p] = TRUE]
      /\ Resume(p, t, next)
      /\ UNCHANGED <<generation, rows, fleet, row_generation, restart_count, expired,
                     env, meta, enrolled, starts, failures>>
  BY Zenon DEF MarkApplied, dbVars, fleetVars
<1>2. LocalTypes' /\ OthersKept(p) /\ Resumed(p, t)
  <2>1. next \in Label \ Reloading /\ (t = "main" => next = "idle")
    BY Zenon DEF Label, Reloading
  <2> HIDE DEF next
  <2> QED
    BY <1>1, <2>1, ResumeFacts, Zenon
<1>3. /\ gen[p][t] \in Generation /\ gen[p][t] <= fetched[p][t] /\ env[p] # Baseline
      /\ gen[p][t] # Unapplied
  BY <1>1 DEF IInv, TypeOK, ThreadOK, HasRows, Generation, Baseline, Unapplied
<1>4. TypeOK'
  <2>1. /\ applied_generation' \in [Pod -> Generation \cup {Unapplied}]
        /\ ready' \in [Pod -> BOOLEAN]
    BY <1>1, <1>3, Zenon DEF IInv, TypeOK
  <2> QED
    BY <1>1, <1>2, <2>1, Zenon DEF IInv, TypeOK, LocalTypes
<1>5. ASSUME NEW q \in Pod \ {p} PROVE Same(q)
  <2>1. applied_generation'[q] = applied_generation[q] /\ ready'[q] = ready[q]
    BY <1>1, Zenon DEF IInv, TypeOK
  <2> QED
    BY <1>1, <1>2, <2>1, Zenon DEF Same, OthersKept
<1>6. applied_generation'[p] = gen[p][t] /\ ready'[p]
  BY <1>1, Zenon DEF IInv, TypeOK
<1>7. LifeOK(p)'
  <2>1. life'[p] = "up"
    BY <1>2, Zenon DEF Resumed
  <2> QED
    BY <1>1, <1>3, <1>6, <2>1, Zenon DEF LifeOK
<1>8. ASSUME NEW u \in Thread PROVE ThreadOK(p, u)'
  BY <1>1, <1>2, ResumedThreads, Zenon
<1>9. ASSUME p \in SolePod PROVE SoleOK(p)'
  <2>1. gen[p][t] <= env[p]
    BY <1>1, <1>3, <1>9, Zenon DEF IInv, SoleOK
  <2> QED
    BY <1>1, <1>2, <1>6, <1>9, <2>1, ResumedSole, Zenon
<1>10. rows' = generation' /\ generation <= generation'
  BY <1>1 DEF IInv, TypeOK, Generation
<1> QED
  BY <1>4, <1>5, <1>7, <1>8, <1>9, <1>10, OnePodStep, Zenon DEF PodOK

(* A failed reload or iteration changes nothing the pod has applied.       *)
LEMMA FailureStep ==
  ASSUME IInv, NEW p \in Pod, MainReloadFails(p) \/ SyncFails(p) PROVE IInv'
<1> USE SyncAssumption
<1>1. PICK t \in Thread, next \in Label \ Reloading :
         /\ pc[p][t] # "idle" /\ (t = "main" => next = "idle")
         /\ Resume(p, t, next)
  BY Zenon DEF MainReloadFails, SyncFails, Thread, Label, Reloading
<1>2. /\ enrolled' = enrolled \/ enrolled' = [enrolled EXCEPT ![p] = FALSE]
      /\ failures' \in Nat
      /\ UNCHANGED <<generation, rows, fleet, row_generation, restart_count, expired,
                     env, meta, applied_generation, ready, starts>>
  BY DEF MainReloadFails, SyncFails, dbVars, fleetVars, podVars, IInv, TypeOK
<1>3. LocalTypes' /\ OthersKept(p) /\ Resumed(p, t)
  BY <1>1, ResumeFacts, Zenon
<1>4. TypeOK'
  <2>1. enrolled' \in [Pod -> BOOLEAN]
    BY <1>2, Zenon DEF IInv, TypeOK
  <2> QED
    BY <1>2, <1>3, <2>1, Zenon DEF IInv, TypeOK, LocalTypes
<1>5. ASSUME NEW q \in Pod \ {p} PROVE Same(q)
  <2>1. enrolled'[q] = enrolled[q]
    BY <1>2, Zenon DEF IInv, TypeOK
  <2> QED
    BY <1>2, <1>3, <2>1, Zenon DEF Same, OthersKept
<1>6. LifeOK(p)'
  <2>1. life'[p] = "up"
    BY <1>3, Zenon DEF Resumed
  <2> QED
    BY <1>2, <2>1, Zenon DEF IInv, LifeOK
<1>7. ASSUME NEW u \in Thread PROVE ThreadOK(p, u)'
  BY <1>2, <1>3, ResumedThreads, Zenon
<1>8. ASSUME p \in SolePod PROVE SoleOK(p)'
  <2>1. (enrolled'[p] => enrolled[p]) /\ applied_generation'[p] <= env[p]
    BY <1>2, <1>8, Zenon DEF IInv, TypeOK, SoleOK
  <2> QED
    BY <1>1, <1>2, <1>3, <1>8, <2>1, ResumedSole, Zenon
<1>9. rows' = generation' /\ generation <= generation'
  BY <1>2 DEF IInv, TypeOK, Generation
<1> QED
  BY <1>4, <1>5, <1>6, <1>7, <1>8, <1>9, OnePodStep, Zenon DEF PodOK

(* The poll and the reaper move the loop of an up pod between labels       *)
(* outside a reload, and the passing of time moves nothing of a process.   *)
LEMMA PollStep ==
  ASSUME IInv, NEW p \in Pod,
         SyncCheck(p) \/ Reap(p) \/ ReapNotYet(p) \/ HeartbeatAges(p)
  PROVE  IInv'
<1> USE SyncAssumption
<1>1. /\ UNCHANGED <<generation, rows, row_generation, restart_count, life, env, meta,
                     applied_generation, ready, enrolled, gen, fetched, starts, failures>>
      /\ fleet' \in SUBSET Pod /\ expired' \in SUBSET Pod
  BY Zenon DEF SyncCheck, Reap, ReapNotYet, HeartbeatAges, dbVars, fleetVars, podVars,
         threadVars, IInv, TypeOK
<1>2. \/ pc' = pc
      \/ /\ pc[p]["sync"] \in {"check", "reap"}
         /\ \E x \in {"gen", "beat", "check"} : pc' = [pc EXCEPT ![p]["sync"] = x]
  BY Zenon DEF SyncCheck, Reap, ReapNotYet, HeartbeatAges, threadVars, Goto
<1>3. TypeOK'
  <2>1. pc' \in [Pod -> [Thread -> Label]]
    <3>1. /\ pc \in [Pod -> [Thread -> Label]] /\ "sync" \in Thread
          /\ {"gen", "beat", "check"} \subseteq Label
      BY Zenon DEF IInv, TypeOK, Label, Reloading, Thread
    <3> QED
      BY <1>2, <3>1
  <2> QED
    BY <1>1, <2>1, Zenon DEF IInv, TypeOK
<1>4. \A q \in Pod \ {p} : Same(q)
  BY <1>1, <1>2, Zenon DEF IInv, TypeOK, Same
<1>5. /\ pc'[p]["main"] = pc[p]["main"]
      /\ \/ pc'[p]["sync"] = pc[p]["sync"]
         \/ pc[p]["sync"] # "idle" /\ pc'[p]["sync"] \in {"gen", "beat", "check"}
  BY <1>2 DEF IInv, TypeOK, Thread
<1>6. LifeOK(p)'
  <2>1. LifeOK(p) /\ life[p] \in {"down", "importing", "up"}
    BY Zenon DEF IInv, TypeOK
  <2> QED
    BY <1>1, <1>5, <2>1, Zenon DEF LifeOK
<1>7. ASSUME NEW t \in Thread PROVE ThreadOK(p, t)'
  <2>1. ThreadOK(p, t)
    BY Zenon DEF IInv
  <2>2. pc'[p][t] \in HasRows \cup {"rows"} => pc'[p][t] = pc[p][t]
    BY <1>5, Zenon DEF Thread, HasRows
  <2> QED
    BY <1>1, <2>1, <2>2, Zenon DEF ThreadOK, HasRows
<1>8. ASSUME p \in SolePod PROVE SoleOK(p)'
  <2>1. SoleOK(p)
    BY <1>8, Zenon DEF IInv
  <2>2. \A t \in Thread : pc'[p][t] \in HasRows => pc'[p][t] = pc[p][t]
    BY <1>5, Zenon DEF Thread, HasRows
  <2> QED
    BY <1>1, <1>5, <2>1, <2>2, Zenon DEF SoleOK, HasRows
<1>9. rows' = generation' /\ generation <= generation'
  BY <1>1 DEF IInv, TypeOK, Generation
<1> QED
  BY <1>3, <1>4, <1>6, <1>7, <1>8, <1>9, OnePodStep, Zenon DEF PodOK

(* enroll and heartbeat publish what the pod has applied.                  *)
LEMMA BeatStep == ASSUME IInv, NEW p \in Pod, Beat(p) PROVE IInv'
<1> USE SyncAssumption
<1>1. /\ pc[p]["sync"] = "beat"
      /\ row_generation' = [row_generation EXCEPT ![p] = applied_generation[p]]
      /\ enrolled' = [enrolled EXCEPT ![p] = TRUE]
      /\ fleet' = fleet \cup {p} /\ expired' = expired \ {p}
      /\ UNCHANGED <<generation, rows, life, env, meta, applied_generation, ready, gen,
                     fetched, starts, failures>>
  BY Zenon DEF Beat, dbVars, podVars
<1>2. \E x \in {"reap", "check"} : pc' = [pc EXCEPT ![p]["sync"] = x]
  BY Zenon DEF Beat, Goto
<1>3. TypeOK'
  <2>1. pc' \in [Pod -> [Thread -> Label]]
    <3>1. /\ pc \in [Pod -> [Thread -> Label]] /\ "sync" \in Thread
          /\ {"reap", "check"} \subseteq Label
      BY Zenon DEF IInv, TypeOK, Label, Thread
    <3> QED
      BY <1>2, <3>1
  <2>2. restart_count' \in [Pod -> Nat]
    <3>1. restart_count \in [Pod -> Nat]
      BY Zenon DEF IInv, TypeOK
    <3>2. \E n \in {0, restart_count[p], restart_count[p] + 1} :
              restart_count' = [restart_count EXCEPT ![p] = n]
      BY Zenon DEF Beat
    <3> QED
      BY <3>1, <3>2
  <2>3. /\ row_generation' \in [Pod -> Generation \cup {Unapplied}]
        /\ enrolled' \in [Pod -> BOOLEAN] /\ fleet' \in SUBSET Pod /\ expired' \in SUBSET Pod
    BY <1>1, Zenon DEF IInv, TypeOK
  <2> QED
    BY <1>1, <2>1, <2>2, <2>3, Zenon DEF IInv, TypeOK
<1>4. \A q \in Pod \ {p} : Same(q)
  BY <1>1, <1>2, Zenon DEF IInv, TypeOK, Same
<1>5. /\ pc'[p]["main"] = pc[p]["main"] /\ pc'[p]["sync"] \in {"reap", "check"}
      /\ row_generation'[p] = applied_generation[p]
  BY <1>1, <1>2 DEF IInv, TypeOK, Thread
<1>6. LifeOK(p)'
  <2>1. LifeOK(p) /\ life[p] \in {"down", "importing", "up"}
    BY Zenon DEF IInv, TypeOK
  <2>2. life[p] = "up"
    BY <1>1, <2>1, Zenon DEF LifeOK
  <2> QED
    BY <1>1, <2>1, <2>2, Zenon DEF LifeOK
<1>7. ASSUME NEW t \in Thread PROVE ThreadOK(p, t)'
  <2>1. ThreadOK(p, t)
    BY Zenon DEF IInv
  <2>2. pc'[p][t] \in HasRows \cup {"rows"} => pc'[p][t] = pc[p][t]
    BY <1>5, Zenon DEF Thread, HasRows
  <2> QED
    BY <1>1, <2>1, <2>2, Zenon DEF ThreadOK, HasRows
<1>8. ASSUME p \in SolePod PROVE SoleOK(p)'
  <2>1. SoleOK(p)
    BY <1>8, Zenon DEF IInv
  <2>2. \A t \in Thread : pc'[p][t] \in HasRows => pc'[p][t] = pc[p][t]
    BY <1>5, Zenon DEF Thread, HasRows
  <2> QED
    BY <1>1, <1>5, <2>1, <2>2, Zenon DEF SoleOK, HasRows
<1>9. rows' = generation' /\ generation <= generation'
  BY <1>1 DEF IInv, TypeOK, Generation
<1> QED
  BY <1>3, <1>4, <1>6, <1>7, <1>8, <1>9, OnePodStep, Zenon DEF PodOK

(* Every step of an admin, of a pod or of time keeps the invariant. *)
LEMMA NextIInv == IInv /\ [Next]_vars => IInv'
<1> SUFFICES ASSUME IInv, [Next]_vars PROVE IInv'
  BY Zenon
<1>1. CASE UNCHANGED vars
  <2>1. /\ UNCHANGED <<generation, rows, fleet, row_generation, restart_count, expired>>
        /\ UNCHANGED <<life, env, meta, applied_generation, ready, enrolled>>
        /\ UNCHANGED <<pc, gen, fetched, starts, failures>>
    BY <1>1, Zenon DEF vars, dbVars, fleetVars, podVars, threadVars
  <2>2. TypeOK' /\ rows' = generation'
    BY <2>1, Zenon DEF IInv, TypeOK
  <2>3. ASSUME NEW p \in Pod
        PROVE  /\ LifeOK(p)' /\ \A t \in Thread : ThreadOK(p, t)'
               /\ p \in SolePod => SoleOK(p)'
    BY <2>1, Zenon DEF IInv, LifeOK, ThreadOK, SoleOK
  <2> QED
    BY <2>2, <2>3, Zenon DEF IInv, SolePod
<1>2. ASSUME NEW p \in Pod, NEW t \in Thread, ReloadStep(p, t) PROVE IInv'
  BY <1>2, ReadGenerationStep, ReadRowsStep, ApplyStep, MarkAppliedStep, Zenon DEF ReloadStep
<1>3. ASSUME NEW p \in Pod, SyncStep(p) PROVE IInv'
  BY <1>2, <1>3, PollStep, BeatStep, Zenon DEF SyncStep, Thread
<1> QED
  BY <1>1, <1>2, <1>3, StartStep, CrashStep, AdminStep, FailureStep, PollStep, Zenon
     DEF Next, Thread

-----------------------------------------------------------------------------
(* The inductive invariant holds in every reachable state of the fleet.    *)
THEOREM Invariance == Spec => []IInv
  BY InitIInv, NextIInv, PTL DEF Spec

(* Counters, rows and thread locals keep their types.                      *)
THEOREM TypeCorrect == Spec => []TypeOK
<1>1. IInv => TypeOK
  BY Zenon DEF IInv
<1> QED
  BY <1>1, Invariance, PTL

(* should_gate_requests: a pod whose gate is open has applied its          *)
(* overrides, whatever failed or restarted before.                         *)
THEOREM GateIsSound == Spec => []ServesLoadedConfig
<1>1. IInv => ServesLoadedConfig
  BY Zenon DEF IInv, LifeOK, ServesLoadedConfig
<1> QED
  BY <1>1, Invariance, PTL

(* reload_overrides reads the counter before the rows: on a pod with one   *)
(* reloading thread _applied_generation and the row in config_pod_state    *)
(* never claim more than os.environ holds.                                 *)
THEOREM HonestFleet == Spec => []FleetIsHonest
<1>1. IInv => FleetIsHonest
  BY Zenon DEF IInv, SoleOK, FleetIsHonest
<1> QED
  BY <1>1, Invariance, PTL

(* On such a pod no reload puts older overrides back.                      *)
THEOREM NoGoingBack == Spec => EnvNeverGoesBack
<1> DEFINE A == \A p \in SolePod :
                   life[p] # "down" /\ life'[p] # "down" =>
                       env[p] <= env'[p] /\ env'[p] <= meta'[p]
<1>1. ASSUME IInv, IInv', [Next]_vars PROVE A
  <2> SUFFICES ASSUME NEW p \in SolePod, life'[p] # "down"
               PROVE  env[p] <= env'[p] /\ env'[p] <= meta'[p]
    BY Zenon
  <2>1. p \in Pod /\ SoleOK(p) /\ SoleOK(p)' /\ env \in [Pod -> Generation \cup {Baseline}]
    BY <1>1, Zenon DEF IInv, SolePod, TypeOK
  <2>2. env'[p] = env[p] \/ \E t \in Thread : ApplyState(p, t)
    <3>1. ASSUME NEW q \in Pod, Crash(q) PROVE env'[p] = env[p]
      <4>1. q # p
        BY <1>1, <2>1, <3>1, Zenon DEF Crash, IInv, TypeOK
      <4> QED
        BY <2>1, <3>1, <4>1, Zenon DEF Crash
    <3>2. ASSUME NEW q \in Pod, NEW t \in Thread, ReloadStep(q, t)
          PROVE  env'[p] = env[p] \/ \E u \in Thread : ApplyState(p, u)
      BY <2>1, <3>2, Zenon DEF ReloadStep, ReadGeneration, ReadRows, SetMeta, ApplyState,
                        MarkApplied, podVars
    <3>3. ASSUME NEW q \in Pod,
                 \/ Start(q) \/ ConfigWrite(q) \/ ConfigList(q) \/ MainReloadFails(q)
                 \/ SyncFails(q) \/ HeartbeatAges(q) \/ SyncCheck(q) \/ Beat(q)
                 \/ Reap(q) \/ ReapNotYet(q)
          PROVE  env' = env
      BY <3>3, Zenon DEF Start, ConfigWrite, ConfigList, AdminRequest, MainReloadFails, SyncFails,
                  HeartbeatAges, SyncCheck, Beat, Reap, ReapNotYet, podVars
    <3>4. CASE UNCHANGED vars
      BY <3>4, Zenon DEF vars, podVars
    <3> QED
      BY <1>1, <3>1, <3>2, <3>3, <3>4, Zenon DEF Next, SyncStep, Thread
  <2>3. env[p] <= env'[p]
    <3>1. CASE env'[p] = env[p]
      BY <2>1, <3>1, SyncAssumption DEF Generation, Baseline
    <3>2. ASSUME NEW t \in Thread, ApplyState(p, t) PROVE env[p] <= env'[p]
      <4>1. env'[p] = fetched[p][t] /\ pc[p][t] = "apply"
        BY <2>1, <3>2, Zenon DEF ApplyState
      <4>2. env[p] <= meta[p] /\ meta[p] = fetched[p][t]
        BY <2>1, <4>1, Zenon DEF SoleOK
      <4> QED
        BY <4>1, <4>2, Zenon
    <3> QED
      BY <2>2, <3>1, <3>2, Zenon
  <2>4. env'[p] <= meta'[p]
    BY <2>1, Zenon DEF SoleOK
  <2> QED
    BY <2>3, <2>4, Zenon
<1> QED
  BY <1>1, Invariance, PTL DEF Spec, EnvNeverGoesBack

-----------------------------------------------------------------------------
(* What restart_count is owed: one start is the first one, and a live      *)
(* process that is not enrolled has a start or a failed iteration to go    *)
(* with the enroll to come.                                                *)
CountOK(p) ==
    /\ life[p] # "down" => starts[p] > 0
    /\ p \in fleet => restart_count[p] < starts[p] + failures
    /\ p \in fleet /\ life[p] # "down" /\ ~enrolled[p] =>
           restart_count[p] + 1 < starts[p] + failures

CInv == \A p \in Pod : CountOK(p)

(* Requests, reloads, polls and the reaper enroll nobody: they add no row  *)
(* and start no process.                                                   *)
LEMMA NobodyEnrolls ==
  ASSUME IInv, CInv, NEW p \in Pod,
         \/ ConfigWrite(p) \/ ConfigList(p) \/ MainReloadFails(p)
         \/ \E t \in Thread : ReloadStep(p, t)
         \/ SyncCheck(p) \/ Reap(p) \/ ReapNotYet(p) \/ HeartbeatAges(p)
  PROVE  CInv'
<1>1. fleet' \subseteq fleet /\ UNCHANGED <<restart_count, enrolled, starts, failures>>
  BY Zenon DEF ConfigWrite, ConfigList, AdminRequest, MainReloadFails, ReloadStep, ReadGeneration,
         ReadRows, SetMeta, ApplyState, MarkApplied, SyncCheck, Reap, ReapNotYet,
         HeartbeatAges, fleetVars
<1>2. life' = life \/ (life[p] # "down" /\ life' = [life EXCEPT ![p] = "up"])
  <2>1. ASSUME NEW t \in Thread, pc[p][t] # "idle" PROVE life[p] # "down"
    BY <2>1, Zenon DEF IInv, LifeOK, Thread
  <2>2. ASSUME MainReloadFails(p)
        PROVE  pc[p]["main"] # "idle" /\ life' = [life EXCEPT ![p] = "up"]
    BY <2>2, Zenon DEF MainReloadFails, Resume
  <2>3. ASSUME NEW t \in Thread, MarkApplied(p, t)
        PROVE  pc[p][t] # "idle" /\ life' = [life EXCEPT ![p] = "up"]
    BY <2>3, Zenon DEF MarkApplied, Resume
  <2>4. ASSUME NEW t \in Thread,
               ReadGeneration(p, t) \/ ReadRows(p, t) \/ SetMeta(p, t) \/ ApplyState(p, t)
        PROVE  life' = life
    BY <2>4, Zenon DEF ReadGeneration, ReadRows, SetMeta, ApplyState
  <2>5. ASSUME \/ ConfigWrite(p) \/ ConfigList(p) \/ SyncCheck(p) \/ Reap(p)
               \/ ReapNotYet(p) \/ HeartbeatAges(p)
        PROVE  life' = life
    BY <2>5, Zenon DEF ConfigWrite, ConfigList, AdminRequest, SyncCheck, Reap, ReapNotYet,
                HeartbeatAges
  <2> QED
    BY <2>1, <2>2, <2>3, <2>4, <2>5, Zenon DEF ReloadStep, Thread
<1>3. \A q \in Pod : life'[q] # "down" => life[q] # "down"
  BY <1>2, Zenon DEF IInv, TypeOK
<1> QED
  BY <1>1, <1>3, Zenon DEF CInv, CountOK

(* A process that starts owes an enroll and has one more start; one that   *)
(* ends owes nothing.                                                      *)
LEMMA ProcessCounts ==
  ASSUME IInv, CInv, NEW p \in Pod, Start(p) \/ Crash(p) PROVE CInv'
<1> SUFFICES ASSUME NEW q \in Pod PROVE CountOK(q)'
  BY Zenon DEF CInv
<1>1. /\ CountOK(q) /\ starts \in [Pod -> Nat] /\ failures \in Nat
      /\ restart_count \in [Pod -> Nat]
      /\ life \in [Pod -> {"down", "importing", "up"}] /\ enrolled \in [Pod -> BOOLEAN]
  BY Zenon DEF CInv, IInv, TypeOK
<1>2. fleet' = fleet /\ restart_count' = restart_count /\ failures' = failures
  BY Zenon DEF Start, Crash, fleetVars
<1>3. CASE q # p
  <2>1. life'[q] = life[q] /\ starts'[q] = starts[q] /\ enrolled'[q] = enrolled[q]
    BY <1>1, <1>3, Zenon DEF Start, Crash
  <2> QED
    BY <1>1, <1>2, <2>1, Zenon DEF CountOK
<1>4. CASE q = p /\ Start(p)
  <2>1. life[p] = "down" /\ starts'[p] = starts[p] + 1
    BY <1>1, <1>4, Zenon DEF Start
  <2> QED
    BY SMTT(20), <1>1, <1>2, <1>4, <2>1 DEF CountOK
<1>5. CASE q = p /\ Crash(p)
  <2>1. life'[p] = "down" /\ starts'[p] = starts[p]
    BY <1>1, <1>5, Zenon DEF Crash
  <2> QED
    BY <1>1, <1>2, <1>5, <2>1, Zenon DEF CountOK
<1> QED
  BY <1>3, <1>4, <1>5, Zenon

(* enroll adds one where an enroll is owed, and heartbeat none.            *)
LEMMA BeatCounts == ASSUME IInv, CInv, NEW p \in Pod, Beat(p) PROVE CInv'
<1> SUFFICES ASSUME NEW q \in Pod PROVE CountOK(q)'
  BY Zenon DEF CInv
<1>1. /\ CountOK(q) /\ starts \in [Pod -> Nat] /\ failures \in Nat
      /\ restart_count \in [Pod -> Nat] /\ enrolled \in [Pod -> BOOLEAN]
  BY Zenon DEF CInv, IInv, TypeOK
<1>2. /\ fleet' = fleet \cup {p} /\ UNCHANGED <<life, starts, failures>>
      /\ enrolled' = [enrolled EXCEPT ![p] = TRUE]
      /\ restart_count' = [restart_count EXCEPT ![p] =
                              IF p \notin fleet THEN 0
                              ELSE IF enrolled[p] THEN restart_count[p]
                              ELSE restart_count[p] + 1]
  BY Zenon DEF Beat
<1>3. CASE q # p
  <2>1. restart_count'[q] = restart_count[q] /\ enrolled'[q] = enrolled[q]
    BY <1>1, <1>2, <1>3, Zenon
  <2> QED
    BY <1>1, <1>2, <1>3, <2>1, Zenon DEF CountOK
<1>4. CASE q = p
  <2>1. life[p] # "down"
    BY Zenon DEF Beat, IInv, LifeOK
  <2>2. /\ enrolled'[p]
        /\ p \notin fleet => restart_count'[p] = 0
        /\ p \in fleet /\ enrolled[p] => restart_count'[p] = restart_count[p]
        /\ p \in fleet /\ ~enrolled[p] => restart_count'[p] = restart_count[p] + 1
    BY <1>1, <1>2, Zenon
  <2>3. restart_count'[p] < starts[p] + failures
    BY <1>1, <1>4, <2>1, <2>2 DEF CountOK
  <2> QED
    BY <1>1, <1>2, <1>4, <2>1, <2>2, <2>3, Zenon DEF CountOK
<1> QED
  BY <1>3, <1>4, Zenon

(* A failed iteration forgets the enrolment and is counted.                *)
LEMMA FailureCounts == ASSUME IInv, CInv, NEW p \in Pod, SyncFails(p) PROVE CInv'
<1> SUFFICES ASSUME NEW q \in Pod PROVE CountOK(q)'
  BY Zenon DEF CInv
<1>1. /\ CountOK(q) /\ starts \in [Pod -> Nat] /\ failures \in Nat
      /\ restart_count \in [Pod -> Nat] /\ enrolled \in [Pod -> BOOLEAN]
      /\ life \in [Pod -> {"down", "importing", "up"}]
  BY Zenon DEF CInv, IInv, TypeOK
<1>2. /\ failures' = failures + 1 /\ UNCHANGED <<fleet, restart_count, starts>>
      /\ enrolled' = [enrolled EXCEPT ![p] = FALSE]
      /\ life' = [life EXCEPT ![p] = "up"] /\ life[p] # "down"
  BY Zenon DEF SyncFails, Resume, fleetVars, IInv, LifeOK
<1>3. life'[q] # "down" => life[q] # "down"
  <2>1. q # p => life'[q] = life[q]
    BY <1>1, <1>2, Zenon
  <2> QED
    BY <1>2, <2>1, Zenon
<1>4. starts[q] \in Nat /\ restart_count[q] \in Nat
  BY <1>1, Zenon
<1>5. q \in fleet' => restart_count'[q] < starts'[q] + failures'
  BY <1>1, <1>2, <1>4 DEF CountOK
<1>6. q \in fleet' => restart_count'[q] + 1 < starts'[q] + failures'
  BY <1>1, <1>2, <1>4 DEF CountOK
<1> QED
  BY <1>1, <1>2, <1>3, <1>5, <1>6, Zenon DEF CountOK

(* config_pod_state.restart_count counts the starts of the process after   *)
(* the first and, at most, the failed iterations of the sync loops, for    *)
(* any fleet and any number of restarts.                                   *)
THEOREM RestartsCounted == Spec => []RestartsExplained
<1>1. ASSUME Init PROVE CInv
  <2> SUFFICES ASSUME NEW p \in Pod PROVE CountOK(p)
    BY Zenon DEF CInv
  <2>1. fleet = {} /\ life[p] = "down"
    BY <1>1, Zenon DEF Init
  <2>2. p \notin fleet
    BY <2>1, Zenon
  <2>3. life[p] = "down"
    BY <2>1, Zenon
  <2> QED
    BY <2>2, <2>3, Zenon DEF CountOK
<1>2. ASSUME IInv, CInv, [Next]_vars PROVE CInv'
  <2>1. CASE UNCHANGED vars
    BY <1>2, <2>1, Zenon DEF vars, fleetVars, CInv, CountOK
  <2>2. ASSUME NEW p \in Pod, SyncStep(p) PROVE CInv'
    BY <1>2, <2>2, NobodyEnrolls, BeatCounts, Zenon DEF SyncStep, Thread
  <2> QED
    BY <1>2, <2>1, <2>2, NobodyEnrolls, ProcessCounts, FailureCounts, Zenon DEF Next, Thread
<1>3. IInv /\ CInv => RestartsExplained
  <2> SUFFICES ASSUME IInv, CInv, NEW p \in fleet
               PROVE  restart_count[p] < starts[p] + failures
    BY Zenon DEF RestartsExplained
  <2>1. /\ p \in Pod /\ CountOK(p) /\ starts \in [Pod -> Nat] /\ failures \in Nat
        /\ restart_count \in [Pod -> Nat]
    BY Zenon DEF IInv, TypeOK, CInv
  <2> QED
    BY <2>1, Zenon DEF CountOK
<1> QED
  BY <1>1, <1>2, <1>3, Invariance, PTL DEF Spec

-----------------------------------------------------------------------------
(* The response cache of /config. *)

Personal == {"identity", "relay"}

(* What a running request has read so far. *)
RequestOK(r) ==
    /\ stage[r] \notin {"idle", "answered"} => doc[r].kind = kind[r]
    /\ stage[r] = "answered" /\ kind[r] \in Personal => doc[r].kind = kind[r]
    /\ r \notin early /\ reload[pod[r]] = 0 =>
         /\ stage[r] \in {"plugin", "llm", "flags", "store"} => doc[r].base = environ[pod[r]]["base"]
         /\ stage[r] \in {"flags", "store"} => doc[r].llm = environ[pod[r]]["llm"]
    /\ r \notin early /\ ~doc[r].degraded =>
         /\ stage[r] \in {"base", "plugin", "llm", "flags", "store"} =>
                doc[r].template >= seen[pod[r]]
         /\ stage[r] \in {"llm", "flags", "store"} => doc[r].plugin >= seen[pod[r]]
         /\ stage[r] = "store" => doc[r].flags >= seen[pod[r]]

(* An entry of pod p that a request left there. *)
EntryOK(p, x) ==
    /\ x.doc.kind \notin Personal
    /\ ~x.early =>
         /\ reload[p] = 0 => x.doc.base = environ[p]["base"] /\ x.doc.llm = environ[p]["llm"]
         /\ ~x.doc.degraded => /\ x.doc.template >= seen[p]
                               /\ x.doc.plugin >= seen[p]
                               /\ x.doc.flags >= seen[p]

CacheOK == \A p \in ApiPod, k \in Key : cache[p][k] # NoEntry => EntryOK(p, cache[p][k])

CacheIInv == /\ CacheTypeOK
             /\ \A p \in ApiPod : seen[p] <= catalog
             /\ \A r \in Request : RequestOK(r)
             /\ CacheOK

-----------------------------------------------------------------------------
(* Every pod starts with an empty cache and no request. *)
LEMMA CacheStarts == CacheInit => CacheIInv
<1> SUFFICES ASSUME CacheInit PROVE CacheIInv
  BY Zenon
<1> USE CacheAssumption DEF CacheInit
<1>1. BlankDoc("generic") \in Doc
  BY DEF BlankDoc, Doc, Version, Kind
<1>2. CacheTypeOK
  BY <1>1 DEF CacheTypeOK, Version, EnvKey, Stage, Kind
<1>3. \A r \in Request : RequestOK(r)
  BY Zenon DEF RequestOK, Personal
<1>4. CacheOK
  BY Zenon DEF CacheOK
<1>5. ASSUME NEW p \in ApiPod PROVE seen[p] <= catalog
  <2>1. seen[p] = 0
    BY Zenon
  <2>2. catalog = 0
    BY Zenon
  <2> HIDE DEF CacheInit
  <2> QED
    BY <2>1, <2>2
<1> QED
  BY <1>2, <1>3, <1>4, <1>5, Zenon DEF CacheIInv

(* A step of one request that leaves pods and tables alone has only that   *)
(* request to answer for.                                                  *)
LEMMA OneRequest ==
  ASSUME CacheIInv, NEW r \in Request, NEW d \in Doc, NEW l \in Stage,
         UNCHANGED <<catalog, overrides, cachedVars, answering, pod, key, kind, clears, seen>>,
         stage' = [stage EXCEPT ![r] = l], doc' = [doc EXCEPT ![r] = d],
         early' = early \/ early' = early \ {r},
         errors' \in 0 .. MaxErrors,
         RequestOK(r)'
  PROVE  CacheIInv'
<1>1. UNCHANGED <<environ, loaded, reload, cache>>
  BY Zenon DEF cachedVars
<1>2. CacheTypeOK'
  BY <1>1, Zenon DEF CacheIInv, CacheTypeOK
<1>3. CacheOK'
  BY <1>1, ZenonT(40) DEF CacheIInv, CacheOK, EntryOK
<1>4. ASSUME NEW q \in Request PROVE RequestOK(q)'
  <2>1. CASE q = r
    BY <2>1, Zenon
  <2>2. CASE q # r
    <3>1. stage'[q] = stage[q] /\ doc'[q] = doc[q] /\ (q \in early' <=> q \in early)
      BY <2>2, Zenon DEF CacheIInv, CacheTypeOK
    <3> QED
      BY <1>1, <2>2, <3>1, ZenonT(40) DEF CacheIInv, RequestOK
  <2> QED
    BY <2>1, <2>2, Zenon
<1>5. \A p \in ApiPod : (seen[p] <= catalog)'
  BY Zenon DEF CacheIInv
<1> QED
  BY <1>2, <1>3, <1>4, <1>5, Zenon DEF CacheIInv

(* The reads of get_config, each with its swallowed errors and early       *)
(* returns.                                                                *)
LEMMA ReadStep ==
  ASSUME CacheIInv, NEW r \in Request,
         ReadTemplate(r) \/ ReadBase(r) \/ ReadPlugin(r) \/ ReadLlm(r) \/ ReadFlags(r)
  PROVE  CacheIInv'
<1> USE CacheAssumption
<1> DEFINE p == pod[r]
           frame == UNCHANGED <<catalog, overrides, cachedVars, answering, pod, key, kind,
                                clears, seen>>
<1>0. /\ CacheTypeOK /\ RequestOK(r) /\ doc[r] \in Doc /\ pod[r] \in ApiPod
      /\ catalog \in Version /\ seen[pod[r]] \in Version /\ seen[pod[r]] <= catalog
      /\ environ[pod[r]]["base"] \in Version /\ environ[pod[r]]["llm"] \in Version
      /\ Version \subseteq Int
      /\ errors \in 0 .. MaxErrors
  BY DEF CacheIInv, CacheTypeOK, EnvKey, Version
<1>1. frame
  BY Zenon DEF ReadTemplate, ReadBase, ReadPlugin, ReadLlm, ReadFlags
<1>2. UNCHANGED <<environ, loaded, reload, cache>>
  BY <1>1, Zenon DEF cachedVars
<1>3. ASSUME Refuse(r) PROVE CacheIInv'
  <2>1. BlankDoc("generic") \in Doc /\ "idle" \in Stage
    BY DEF BlankDoc, Doc, Version, Kind, Stage
  <2>2. stage' = [stage EXCEPT ![r] = "idle"] /\ doc' = [doc EXCEPT ![r] = BlankDoc("generic")]
    BY <1>3, Zenon DEF Refuse, Forget, GoOn
  <2>3. early' = early \ {r} /\ errors' \in 0 .. MaxErrors
    BY <1>0, <1>3, Zenon DEF Refuse, Forget
  <2>4. RequestOK(r)'
    BY <1>0, <2>2, Zenon DEF RequestOK, CacheTypeOK
  <2> QED
    BY <1>1, <2>1, <2>2, <2>3, <2>4, OneRequest, Zenon
<1>4. ASSUME NEW next \in Stage, Miss(r, next),
             \/ stage[r] = "template" /\ next = "base"
             \/ stage[r] = "plugin" /\ next = "llm"
             \/ stage[r] = "flags" /\ next = "store"
      PROVE CacheIInv'
  <2> DEFINE d == [doc[r] EXCEPT !.degraded = TRUE]
  <2>1. d \in Doc /\ d.degraded
    BY <1>0, Zenon DEF Doc
  <2>2. stage' = [stage EXCEPT ![r] = next] /\ doc' = [doc EXCEPT ![r] = d] /\ early' = early
    BY <1>4, Zenon DEF Miss, GoOn
  <2>3. errors' \in 0 .. MaxErrors
    BY <1>0, <1>4 DEF Miss
  <2>4. stage'[r] = next /\ doc'[r] = d
    BY <1>0, <2>2, Zenon DEF CacheTypeOK
  <2>5. d.kind = doc[r].kind /\ d.base = doc[r].base /\ d.llm = doc[r].llm
    BY <1>0, Zenon DEF Doc
  <2>6. RequestOK(r)'
    BY <1>0, <1>1, <1>2, <1>4, <2>1, <2>2, <2>4, <2>5, Zenon DEF RequestOK
  <2> HIDE DEF d
  <2> QED
    BY <1>1, <1>4, <2>1, <2>2, <2>3, <2>6, OneRequest, Zenon
<1>5. ASSUME NEW part \in {"template", "base", "plugin", "llm", "flags"},
             NEW v \in Version, NEW next \in Stage, Take(r, part, v, next),
             \/ stage[r] = "template" /\ part = "template" /\ next = "base" /\ v = catalog
             \/ stage[r] = "base" /\ part = "base" /\ v = environ[p]["base"]
                /\ (next = "plugin" \/ (next = "llm" /\ doc[r].degraded))
             \/ stage[r] = "plugin" /\ part = "plugin" /\ next = "llm" /\ v = catalog
             \/ stage[r] = "llm" /\ part = "llm" /\ next = "flags" /\ v = environ[p]["llm"]
             \/ stage[r] = "flags" /\ part = "flags" /\ next = "store" /\ v = catalog
      PROVE CacheIInv'
  <2>1. PICK d \in Doc : d = [doc[r] EXCEPT ![part] = v]
    BY <1>0, Zenon DEF Doc
  <2>2. stage' = [stage EXCEPT ![r] = next] /\ doc' = [doc EXCEPT ![r] = d] /\ early' = early
    BY <1>5, <2>1, Zenon DEF Take, GoOn
  <2>3. errors' \in 0 .. MaxErrors
    BY <1>0, <1>5, Zenon DEF Take
  <2>4. stage'[r] = next /\ doc'[r] = d
    BY <1>0, <2>2, Zenon DEF CacheTypeOK
  <2>5. /\ d.kind = doc[r].kind /\ d.degraded = doc[r].degraded
        /\ d.template = IF part = "template" THEN v ELSE doc[r].template
        /\ d.base = IF part = "base" THEN v ELSE doc[r].base
        /\ d.plugin = IF part = "plugin" THEN v ELSE doc[r].plugin
        /\ d.llm = IF part = "llm" THEN v ELSE doc[r].llm
        /\ d.flags = IF part = "flags" THEN v ELSE doc[r].flags
    BY <1>0, <2>1, Zenon DEF Doc
  <2>6. RequestOK(r)'
    BY <1>0, <1>1, <1>2, <1>5, <2>2, <2>4, <2>5, ZenonT(40) DEF RequestOK
  <2> QED
    BY <1>1, <2>2, <2>3, <2>6, OneRequest, Zenon
<1>6. {"base", "plugin", "llm", "flags", "store"} \subseteq Stage
  BY Zenon DEF Stage
<1>7. CASE ReadTemplate(r)
  BY <1>0, <1>3, <1>4, <1>5, <1>6, <1>7, Zenon DEF ReadTemplate
<1>8. CASE ReadBase(r)
  BY <1>0, <1>5, <1>6, <1>8, Zenon DEF ReadBase
<1>9. CASE ReadPlugin(r)
  BY <1>0, <1>3, <1>4, <1>5, <1>6, <1>9, Zenon DEF ReadPlugin
<1>10. CASE ReadLlm(r)
  BY <1>0, <1>3, <1>5, <1>6, <1>10, Zenon DEF ReadLlm
<1>11. CASE ReadFlags(r)
  BY <1>0, <1>4, <1>5, <1>6, <1>11, Zenon DEF ReadFlags
<1> QED
  BY <1>7, <1>8, <1>9, <1>10, <1>11, Zenon

(* Lookup: a hit hands out an entry, which only a cacheable request does;  *)
(* a miss starts an answer with nothing read.                              *)
LEMMA LookupStep ==
  ASSUME CacheIInv, NEW r \in Request, NEW p \in ApiPod, NEW k \in Key, NEW kd \in Kinds,
         Lookup(r, p, k, kd)
  PROVE  CacheIInv'
<1> USE CacheAssumption
<1>1. UNCHANGED <<catalog, overrides, environ, loaded, reload, cache, answering, clears, errors,
                  early, seen>>
  BY Zenon DEF Lookup, cachedVars
<1>2. /\ pod' = [pod EXCEPT ![r] = p] /\ key' = [key EXCEPT ![r] = k]
      /\ kind' = [kind EXCEPT ![r] = kd] /\ kd \in Kind
  BY Zenon DEF Lookup
<1>3. CacheTypeOK
  BY Zenon DEF CacheIInv
<1>4. PICK d \in Doc, l \in {"answered", "template"} :
         /\ stage' = [stage EXCEPT ![r] = l] /\ doc' = [doc EXCEPT ![r] = d]
         /\ l = "answered" => kd \notin Personal
         /\ l = "template" => d.kind = kd
  <2>1. CASE Cacheable(kd) /\ cache[p][k] # NoEntry
    <3>1. cache[p][k].doc \in Doc
      BY <1>3, <2>1 DEF CacheTypeOK, Entry
    <3>2. stage' = [stage EXCEPT ![r] = "answered"] /\ doc' = [doc EXCEPT ![r] = cache[p][k].doc]
      BY <2>1, Zenon DEF Lookup, GoOn
    <3> QED
      BY <2>1, <3>1, <3>2, Zenon DEF Cacheable, Personal
  <2>2. CASE ~(Cacheable(kd) /\ cache[p][k] # NoEntry)
    <3>1. BlankDoc(kd) \in Doc /\ BlankDoc(kd).kind = kd
      BY <1>2 DEF BlankDoc, Doc, Version
    <3>2. stage' = [stage EXCEPT ![r] = "template"] /\ doc' = [doc EXCEPT ![r] = BlankDoc(kd)]
      BY <2>2, Zenon DEF Lookup, GoOn
    <3> QED
      BY <3>1, <3>2, Zenon
  <2> QED
    BY <2>1, <2>2, Zenon
<1>5. CacheTypeOK'
  BY <1>1, <1>2, <1>3, <1>4, Zenon DEF CacheTypeOK, Stage
<1>6. CacheOK'
  BY <1>1, ZenonT(40) DEF CacheIInv, CacheOK, EntryOK
<1>7. ASSUME NEW q \in Request PROVE RequestOK(q)'
  <2>1. CASE q = r
    <3>1. stage'[r] = l /\ doc'[r] = d /\ kind'[r] = kd
      BY <1>2, <1>3, <1>4, Zenon DEF CacheTypeOK
    <3> QED
      BY <1>4, <2>1, <3>1, Zenon DEF RequestOK
  <2>2. CASE q # r
    <3>1. /\ stage'[q] = stage[q] /\ doc'[q] = doc[q] /\ kind'[q] = kind[q]
          /\ pod'[q] = pod[q]
      BY <1>2, <1>3, <1>4, <2>2, Zenon DEF CacheTypeOK
    <3> QED
      BY <1>1, <3>1, Zenon DEF CacheIInv, RequestOK
  <2> QED
    BY <2>1, <2>2, Zenon
<1> QED
  BY <1>1, <1>5, <1>6, <1>7, Zenon DEF CacheIInv

(* Storing the answer turns what the request has read into an entry.       *)
LEMMA RespondStep ==
  ASSUME CacheIInv, NEW r \in Request, Respond(r) \/ Close(r)
  PROVE  CacheIInv'
<1> USE CacheAssumption
<1>0. CacheTypeOK /\ RequestOK(r) /\ doc[r] \in Doc /\ errors \in 0 .. MaxErrors
  BY Zenon DEF CacheIInv, CacheTypeOK
<1>1. CASE Close(r)
  <2>1. BlankDoc("generic") \in Doc /\ "idle" \in Stage
    BY DEF BlankDoc, Doc, Version, Kind, Stage
  <2>2. /\ stage' = [stage EXCEPT ![r] = "idle"]
        /\ doc' = [doc EXCEPT ![r] = BlankDoc("generic")] /\ early' = early \ {r}
        /\ UNCHANGED <<catalog, overrides, cachedVars, answering, pod, key, kind, clears,
                       errors, seen>>
    BY <1>1, Zenon DEF Close, Forget, GoOn
  <2>3. RequestOK(r)'
    BY <1>0, <2>2, Zenon DEF RequestOK, CacheTypeOK
  <2> QED
    BY <1>0, <2>1, <2>2, <2>3, OneRequest, Zenon
<1>2. CASE Respond(r)
  <2>1. /\ stage[r] = "store" /\ stage' = [stage EXCEPT ![r] = "answered"]
        /\ UNCHANGED <<catalog, overrides, environ, loaded, reload, answering, pod, key, kind, doc,
                       clears, errors, early, seen>>
    BY <1>2, Zenon DEF Respond, GoOn
  <2>2. ASSUME NEW q \in Request PROVE RequestOK(q)'
    <3>1. stage'[q] = IF q = r THEN "answered" ELSE stage[q]
      BY <1>0, <2>1, Zenon DEF CacheTypeOK
    <3>2. CASE q = r
      BY <1>0, <2>1, <3>1, <3>2, Zenon DEF RequestOK
    <3>3. CASE q # r
      BY <2>1, <3>1, <3>3, ZenonT(40) DEF CacheIInv, RequestOK
    <3> QED
      BY <3>2, <3>3, Zenon
  <2>3. CASE ~Cacheable(kind[r])
    <3>1. UNCHANGED cache
      BY <1>2, <2>3, Zenon DEF Respond
    <3>2. CacheTypeOK' /\ CacheOK'
      BY <1>0, <2>1, <3>1, ZenonT(40) DEF CacheIInv, CacheTypeOK, CacheOK, EntryOK, Stage
    <3> QED
      BY <2>1, <2>2, <3>2, Zenon DEF CacheIInv
  <2>4. CASE Cacheable(kind[r])
    <3>1. PICK x \in Entry : x.doc = doc[r] /\ x.early = (r \in early)
                              /\ cache' = [cache EXCEPT ![pod[r]][key[r]] = x]
      <4> DEFINE y == [doc |-> doc[r], left |-> TTL, early |-> r \in early]
      <4>1. TTL \in 1 .. TTL /\ (r \in early) \in BOOLEAN
        OBVIOUS
      <4>2. y \in Entry
        BY <1>0, <4>1, Zenon DEF Entry
      <4>3. cache' = [cache EXCEPT ![pod[r]][key[r]] = y]
        BY <1>2, <2>4, Zenon DEF Respond, CacheSet
      <4> QED
        BY <4>2, <4>3, Zenon
    <3>2. EntryOK(pod[r], x)
      BY <1>0, <2>1, <2>4, <3>1, Zenon DEF RequestOK, EntryOK, Cacheable, Personal
    <3>3. CacheTypeOK'
      BY <1>0, <2>1, <3>1, Zenon DEF CacheTypeOK, Stage
    <3>4. ASSUME NEW p \in ApiPod, NEW k \in Key, cache'[p][k] # NoEntry
          PROVE EntryOK(p, cache'[p][k])
      <4>1. CASE p = pod[r] /\ k = key[r]
        BY <1>0, <3>1, <3>2, <4>1, Zenon DEF CacheTypeOK
      <4>2. CASE ~(p = pod[r] /\ k = key[r])
        BY <1>0, <3>1, <3>4, <4>2, Zenon DEF CacheIInv, CacheOK, CacheTypeOK
      <4> QED
        BY <4>1, <4>2, Zenon
    <3>5. CacheOK'
      BY <2>1, <3>4, ZenonT(40) DEF CacheOK, EntryOK
    <3> QED
      BY <2>1, <2>2, <3>3, <3>5, Zenon DEF CacheIInv
  <2> QED
    BY <2>3, <2>4, Zenon
<1> QED
  BY <1>1, <1>2, Zenon

-----------------------------------------------------------------------------
(* Clearing the cache of a pod: nothing is left to be stale, and what its  *)
(* running requests will store is marked.                                  *)
LEMMA ClearStep ==
  ASSUME CacheIInv, NEW p \in ApiPod, CacheClear(p),
         UNCHANGED <<catalog, overrides, environ, loaded, requestVars, errors>>,
         reload' \in [ApiPod -> 0 .. 3], \A q \in ApiPod : q # p => reload'[q] = reload[q],
         answering' \in [ApiPod -> Nat], clears' \in 0 .. MaxClears
  PROVE  CacheIInv'
<1>0. CacheTypeOK
  BY Zenon DEF CacheIInv
<1>1. UNCHANGED <<stage, pod, key, kind, doc>>
  BY Zenon DEF requestVars
<1>2. /\ cache' = [cache EXCEPT ![p] = [k \in Key |-> NoEntry]]
      /\ early' = early \cup InFlight(p) /\ seen' = [seen EXCEPT ![p] = catalog]
  BY Zenon DEF CacheClear
<1>3. CacheTypeOK'
  <2>1. early' \in SUBSET Request
    BY <1>0, <1>2, Zenon DEF CacheTypeOK, InFlight
  <2>2. cache' \in [ApiPod -> [Key -> Entry \cup {NoEntry}]]
    BY <1>0, <1>2, Zenon DEF CacheTypeOK
  <2>3. seen' \in [ApiPod -> Version]
    BY <1>0, <1>2, Zenon DEF CacheTypeOK
  <2> QED
    BY <1>0, <1>1, <2>1, <2>2, <2>3, Zenon DEF CacheTypeOK
<1>4. \A q \in ApiPod : (seen[q] <= catalog)'
  BY <1>0, <1>2, CacheAssumption DEF CacheIInv, CacheTypeOK, Version
<1>5. ASSUME NEW r \in Request PROVE RequestOK(r)'
  <2>1. CASE pod[r] = p
    <3>1. stage[r] \in {"idle", "answered"} \/ r \in early'
      BY <1>2, <2>1, Zenon DEF InFlight
    <3> QED
      BY <1>1, <3>1, Zenon DEF CacheIInv, RequestOK
  <2>2. CASE pod[r] # p
    <3>1. /\ seen'[pod[r]] = seen[pod[r]] /\ reload'[pod[r]] = reload[pod[r]]
          /\ r \in early' <=> r \in early
      BY <1>0, <1>2, <2>2, Zenon DEF CacheTypeOK, InFlight
    <3> QED
      BY <1>1, <3>1, Zenon DEF CacheIInv, RequestOK
  <2> QED
    BY <2>1, <2>2, Zenon
<1>6. ASSUME NEW q \in ApiPod, NEW k \in Key, cache'[q][k] # NoEntry
      PROVE EntryOK(q, cache[q][k])'
  <2>1. q # p /\ cache'[q] = cache[q]
    BY <1>0, <1>2, <1>6, Zenon DEF CacheTypeOK
  <2>2. seen'[q] = seen[q] /\ reload'[q] = reload[q] /\ EntryOK(q, cache[q][k])
    BY <1>0, <1>2, <1>6, <2>1, Zenon DEF CacheTypeOK, CacheIInv, CacheOK
  <2> QED
    BY <2>1, <2>2, Zenon DEF EntryOK
<1>7. CacheOK'
  BY <1>6, Zenon DEF CacheOK
<1> QED
  BY <1>3, <1>4, <1>5, <1>7, Zenon DEF CacheIInv

(* A committed mutation of the catalog or of config_overrides is no clear; *)
(* what the caches hold is compared with what the pods have seen of it.    *)
LEMMA EditStep ==
  ASSUME CacheIInv, EditCatalog \/ EditOverrides
  PROVE  CacheIInv'
<1> USE CacheAssumption
<1>0. CacheTypeOK /\ answering \in [ApiPod -> Nat]
  BY Zenon DEF CacheIInv, CacheTypeOK
<1>1. /\ UNCHANGED <<cachedVars, requestVars, clears, errors, early, seen>>
      /\ catalog' \in Version /\ overrides' \in Version /\ catalog' >= catalog
  BY <1>0 DEF EditCatalog, EditOverrides, CacheTypeOK, Version
<1>2. answering' \in [ApiPod -> Nat]
  BY <1>0 DEF EditCatalog, EditOverrides
<1>3. UNCHANGED <<environ, loaded, reload, cache, stage, pod, key, kind, doc>>
  BY <1>1, Zenon DEF cachedVars, requestVars
<1>4. CacheTypeOK'
  BY <1>0, <1>1, <1>2, <1>3, Zenon DEF CacheTypeOK
<1>5. \A q \in ApiPod : (seen[q] <= catalog)'
  BY <1>0, <1>1 DEF CacheIInv, CacheTypeOK, Version
<1>6. early' = early /\ seen' = seen
  BY <1>1, Zenon
<1>7. (\A r \in Request : RequestOK(r))'
  BY <1>3, <1>6, Zenon DEF CacheIInv, RequestOK
<1>8. CacheOK'
  BY <1>3, <1>6, ZenonT(40) DEF CacheIInv, CacheOK, EntryOK
<1> QED
  BY <1>4, <1>5, <1>7, <1>8, Zenon DEF CacheIInv

(* The middleware, POST /config/cache/clear and the reload hook clear; the *)
(* other steps of a pod change nothing a fresh answer is compared with.    *)
LEMMA PodStep ==
  ASSUME CacheIInv, NEW p \in ApiPod,
         SecurityHeaders(p) \/ ClearConfigCache(p) \/ FetchRows(p) \/ ApplyStateStep(p)
  PROVE  CacheIInv'
<1> USE CacheAssumption
<1>0. /\ CacheTypeOK /\ reload \in [ApiPod -> 0 .. 3] /\ answering \in [ApiPod -> Nat]
      /\ clears \in 0 .. MaxClears /\ catalog \in Version
  BY Zenon DEF CacheIInv, CacheTypeOK
<1>1. CASE SecurityHeaders(p)
  <2>1. answering' \in [ApiPod -> Nat]
    BY <1>0, <1>1 DEF SecurityHeaders
  <2> QED
    BY <1>0, <1>1, <2>1, ClearStep, Zenon DEF SecurityHeaders
<1>2. CASE ClearConfigCache(p)
  <2>1. clears' \in 0 .. MaxClears
    BY <1>0, <1>2 DEF ClearConfigCache
  <2> QED
    BY <1>0, <1>2, <2>1, ClearStep, Zenon DEF ClearConfigCache
<1>3. ASSUME UNCHANGED <<catalog, overrides, cache, answering, requestVars, clears, errors,
                         early, seen>>,
             environ' \in [ApiPod -> [EnvKey -> Version]], loaded' \in [ApiPod -> Version],
             reload' \in [ApiPod -> 0 .. 3], reload'[p] # 0,
             \A q \in ApiPod : q # p => reload'[q] = reload[q] /\ environ'[q] = environ[q]
      PROVE CacheIInv'
  <2>1. UNCHANGED <<stage, pod, key, kind, doc>>
    BY <1>3, Zenon DEF requestVars
  <2>2. CacheTypeOK'
    BY <1>0, <1>3, <2>1, Zenon DEF CacheTypeOK
  <2>3. ASSUME NEW r \in Request PROVE RequestOK(r)'
    <3>1. RequestOK(r) /\ pod[r] \in ApiPod
      BY <1>0, Zenon DEF CacheIInv, CacheTypeOK
    <3>2. CASE pod[r] = p
      BY <1>3, <2>1, <3>1, <3>2, Zenon DEF RequestOK
    <3>3. CASE pod[r] # p
      BY <1>3, <2>1, <3>1, <3>3, Zenon DEF RequestOK
    <3> QED
      BY <3>2, <3>3, Zenon
  <2>4. ASSUME NEW q \in ApiPod, NEW k \in Key, cache'[q][k] # NoEntry
        PROVE EntryOK(q, cache[q][k])'
    <3>1. cache' = cache /\ seen' = seen /\ EntryOK(q, cache[q][k])
      BY <1>3, <2>4, Zenon DEF CacheIInv, CacheOK
    <3>2. CASE q = p
      BY <1>3, <3>1, <3>2, Zenon DEF EntryOK
    <3>3. CASE q # p
      BY <1>3, <3>1, <3>3, Zenon DEF EntryOK
    <3> QED
      BY <3>2, <3>3, Zenon
  <2>5. CacheOK'
    BY <2>4, Zenon DEF CacheOK
  <2>6. \A q \in ApiPod : (seen[q] <= catalog)'
    BY <1>3, Zenon DEF CacheIInv
  <2> QED
    BY <2>2, <2>3, <2>5, <2>6, Zenon DEF CacheIInv
<1>4. CASE FetchRows(p)
  <2>1. environ' = environ /\ loaded' = [loaded EXCEPT ![p] = overrides] /\ reload' = [reload EXCEPT ![p] = 1]
    BY <1>4, Zenon DEF FetchRows
  <2>2. /\ environ' \in [ApiPod -> [EnvKey -> Version]] /\ loaded' \in [ApiPod -> Version]
        /\ reload' \in [ApiPod -> 0 .. 3] /\ reload'[p] # 0
        /\ \A q \in ApiPod : q # p => reload'[q] = reload[q] /\ environ'[q] = environ[q]
    BY <1>0, <2>1 DEF CacheTypeOK
  <2> QED
    BY <1>3, <1>4, <2>2, Zenon DEF FetchRows
<1>5. CASE ApplyStateStep(p)
  <2>1. Len(ReloadOrder) = 3 /\ reload[p] \in 1 .. 3
    BY <1>0, <1>5, SMTT(30) DEF ApplyStateStep, ReloadOrder
  <2>2. reload' = [reload EXCEPT ![p] = (reload[p] + 1) % 4]
    BY <1>5, <2>1 DEF ApplyStateStep
  <2>3. /\ reload' \in [ApiPod -> 0 .. 3]
        /\ reload'[p] = (reload[p] + 1) % 4
        /\ \A q \in ApiPod : q # p => reload'[q] = reload[q]
    BY <1>0, <2>1, <2>2
  <2>4. CASE reload[p] = 3
    <3>1. ReloadOrder[reload[p]] = "hook"
      BY <2>4 DEF ReloadOrder
    <3>2. /\ CacheClear(p)
          /\ UNCHANGED <<catalog, overrides, environ, loaded, answering, requestVars, clears, errors>>
      BY <1>5, <3>1, Zenon DEF ApplyStateStep
    <3> QED
      BY <1>0, <2>3, <3>2, ClearStep, Zenon
  <2>5. CASE reload[p] \in {1, 2}
    <3>1. PICK part \in EnvKey : part = ReloadOrder[reload[p]]
      BY <2>5 DEF ReloadOrder, EnvKey
    <3>2. /\ environ' = [environ EXCEPT ![p][part] = loaded[p]]
          /\ UNCHANGED <<catalog, overrides, cache, loaded, answering, requestVars, clears,
                         errors, early, seen>>
      BY <1>5, <3>1, Zenon DEF ApplyStateStep, EnvKey
    <3>3. /\ environ' \in [ApiPod -> [EnvKey -> Version]] /\ loaded' \in [ApiPod -> Version]
          /\ \A q \in ApiPod : q # p => environ'[q] = environ[q]
      BY <1>0, <3>1, <3>2, Zenon DEF CacheTypeOK
    <3>4. reload'[p] # 0
      BY <2>3, <2>5
    <3> QED
      BY <1>3, <2>3, <3>2, <3>3, <3>4, Zenon
  <2> QED
    BY <2>1, <2>4, <2>5, SMTT(30)
<1> QED
  BY <1>1, <1>2, <1>4, <1>5, Zenon

(* Time drops entries or leaves their contents alone. *)
LEMMA TickStep ==
  ASSUME CacheIInv, Tick
  PROVE  CacheIInv'
<1>0. CacheTypeOK
  BY Zenon DEF CacheIInv
<1>1. UNCHANGED <<catalog, overrides, environ, loaded, reload, answering, stage, pod, key, kind, doc,
                  clears, errors, early, seen>>
  BY Zenon DEF Tick, requestVars
<1>2. ASSUME NEW p \in ApiPod, NEW k \in Key, cache'[p][k] # NoEntry
      PROVE /\ cache[p][k] # NoEntry /\ cache'[p][k] \in Entry
            /\ cache'[p][k].doc = cache[p][k].doc /\ cache'[p][k].early = cache[p][k].early
  <2>1. cache'[p][k] = Older(cache[p][k])
    BY Zenon DEF Tick
  <2>2. /\ cache[p][k] # NoEntry /\ cache[p][k].left # 1
        /\ cache'[p][k] = [cache[p][k] EXCEPT !.left = @ - 1]
    BY <1>2, <2>1, Zenon DEF Older
  <2>3. cache[p][k] \in Entry
    BY <1>0, <2>2 DEF CacheTypeOK
  <2> QED
    BY <2>2, <2>3, CacheAssumption DEF Entry
<1>3. cache' \in [ApiPod -> [Key -> Entry \cup {NoEntry}]]
  <2>1. cache' = [p \in ApiPod |-> [k \in Key |-> Older(cache[p][k])]]
    BY Zenon DEF Tick
  <2>2. \A p \in ApiPod, k \in Key : Older(cache[p][k]) \in Entry \cup {NoEntry}
    BY <1>2, <2>1, Zenon
  <2> QED
    BY <2>1, <2>2, Zenon
<1>4. CacheTypeOK'
  BY <1>0, <1>1, <1>3, Zenon DEF CacheTypeOK
<1>5. CacheOK'
  <2>1. ASSUME NEW p \in ApiPod, NEW k \in Key, cache'[p][k] # NoEntry
        PROVE EntryOK(p, cache[p][k])'
    <3>1. EntryOK(p, cache[p][k])
      BY <1>2, <2>1, Zenon DEF CacheIInv, CacheOK
    <3> QED
      BY <1>1, <1>2, <2>1, <3>1, Zenon DEF EntryOK
  <2> QED
    BY <2>1, Zenon DEF CacheOK
<1>6. (\A r \in Request : RequestOK(r))' /\ \A p \in ApiPod : (seen[p] <= catalog)'
  BY <1>1, Zenon DEF CacheIInv, RequestOK
<1> QED
  BY <1>4, <1>5, <1>6, Zenon DEF CacheIInv

(* No step of a request, of a pod or of the clock breaks the invariant.    *)
LEMMA CacheKeeps == CacheIInv /\ [CacheNext]_cacheVars => CacheIInv'
<1> SUFFICES ASSUME CacheIInv, [CacheNext]_cacheVars PROVE CacheIInv'
  BY Zenon
<1>1. CASE CacheNext
  <2>1. ASSUME NEW r \in Request, NEW p \in ApiPod, NEW k \in Key, NEW kd \in Kinds,
               Lookup(r, p, k, kd)
        PROVE CacheIInv'
    BY <2>1, LookupStep, Zenon
  <2>2. ASSUME NEW r \in Request, GetConfig(r) PROVE CacheIInv'
    BY <2>2, ReadStep, RespondStep, Zenon DEF GetConfig
  <2>3. ASSUME NEW p \in ApiPod,
               SecurityHeaders(p) \/ ClearConfigCache(p) \/ FetchRows(p) \/ ApplyStateStep(p)
        PROVE CacheIInv'
    BY <2>3, PodStep, Zenon
  <2> QED
    BY <1>1, <2>1, <2>2, <2>3, EditStep, TickStep, Zenon DEF CacheNext
<1>2. CASE UNCHANGED cacheVars
  <2>1. UNCHANGED <<catalog, overrides, environ, loaded, reload, cache, answering, stage, pod, key, kind,
                    doc, clears, errors, early, seen>>
    BY <1>2, Zenon DEF cacheVars, cachedVars, requestVars
  <2>2. CacheTypeOK'
    BY <2>1, Zenon DEF CacheIInv, CacheTypeOK
  <2>3. (\A r \in Request : RequestOK(r))'
    BY <2>1, Zenon DEF CacheIInv, RequestOK
  <2>4. CacheOK'
    BY <2>1, ZenonT(40) DEF CacheIInv, CacheOK, EntryOK
  <2> QED
    BY <2>1, <2>2, <2>3, <2>4, Zenon DEF CacheIInv
<1> QED
  BY <1>1, <1>2, Zenon

(* The invariant of get_config, the cache and apply_state. *)
THEOREM CacheInvariant == CacheSpec => []CacheIInv
  BY CacheStarts, CacheKeeps, PTL DEF CacheSpec

(* Cache entries, answers under construction and counters keep their       *)
(* types.                                                                  *)
THEOREM CacheTyped == CacheSpec => []CacheTypeOK
<1>1. CacheIInv => CacheTypeOK
  BY Zenon DEF CacheIInv
<1> QED
  BY <1>1, CacheInvariant, PTL

(* Every entry of _CONFIG_CACHE is what the invariant says of a fill.      *)
LEMMA EntriesOK ==
  ASSUME CacheIInv
  PROVE  \A p \in ApiPod : \A x \in Entries(p) : EntryOK(p, x)
<1> SUFFICES ASSUME NEW p \in ApiPod, NEW x \in Entries(p) PROVE EntryOK(p, x)
  BY Zenon
<1>1. PICK k \in Key : x = cache[p][k] /\ x # NoEntry
  BY Zenon DEF Entries
<1> QED
  BY <1>1, Zenon DEF CacheIInv, CacheOK

(* After a reload or a mutation a pod's cache is only stale through        *)
(* requests that were running at the time.                                 *)
THEOREM StaleOverlaps == CacheSpec => []OnlyOverlapsAreStale
<1>1. ASSUME CacheIInv PROVE OnlyOverlapsAreStale
  <2>1. \A p \in ApiPod : \A x \in Entries(p) : EntryOK(p, x)
    BY <1>1, EntriesOK, Zenon
  <2> QED
    BY <2>1, Zenon DEF EntryOK, OnlyOverlapsAreStale
<1> QED
  BY <1>1, CacheInvariant, PTL

(* Answers with values of one client neither enter the cache of /config    *)
(* nor come out of it.                                                     *)
THEOREM PersonalKeptOut == CacheSpec => []PersonalStaysOut
<1>1. ASSUME CacheIInv PROVE PersonalStaysOut
  <2>1. \A p \in ApiPod : \A x \in Entries(p) : x.doc.kind \notin Personal
    BY <1>1, EntriesOK, Zenon DEF EntryOK
  <2>2. \A r \in Request : stage[r] = "answered" /\ kind[r] \in Personal => doc[r].kind = kind[r]
    BY <1>1, Zenon DEF CacheIInv, RequestOK
  <2> QED
    BY <2>1, <2>2, Zenon DEF Personal, PersonalStaysOut
<1> QED
  BY <1>1, CacheInvariant, PTL
=============================================================================
