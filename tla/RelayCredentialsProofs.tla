----------------------- MODULE RelayCredentialsProofs -----------------------
(***************************************************************************)
(* Proofs about RelayCredentials, for any number of devices, enrolls and   *)
(* requests, any lifetimes, failures and revocations: the inductive        *)
(* invariant, its preservation by the steps of /enroll, by revocations and *)
(* by the requests that present a credential, and what follows from it.    *)
(***************************************************************************)
EXTENDS RelayCredentials, TLAPS

(* An enroll has no row before its INSERT and one ever after it; what a    *)
(* device stored is the answer to one of its own enrolls.                  *)
EnrollOK(e) ==
    /\ pc[e] \in {"new", "revoke", "insert"} => row[e] = "none"
    /\ pc[e] \in {"enqueue", "persist", "reply", "answered", "lost"} => row[e] # "none"
    /\ row[e] = "rotated" => latest[client[e]] # e

DeviceOK(c) == held[c] # NoEnroll => pc[held[c]] = "answered" /\ client[held[c]] = c

(* What was void when a check began is void when it reads the table.       *)
CheckOK(k) ==
    /\ step[k] \in {"new", "select"} => verdict[k] # "ok"
    /\ shown[k].kind = "key" => shown[k].id \in Enroll /\ pc[shown[k].id] = "answered"
    /\ shown[k].kind = "token" => shown[k].id \in Client
    /\ step[k] = "mint" => shown[k].kind = "key"
    /\ k \in barred =>
         /\ step[k] # "new"
         /\ verdict[k] # "ok"
         /\ step[k] = "select" =>
              \/ /\ shown[k].kind = "key"
                 /\ \/ row[shown[k].id] \in Void
                    \/ expires_at[shown[k].id] <= now[k]
              \/ /\ shown[k].kind = "token"
                 /\ ~Unexpired(shown[k].id, clock)

IInv == /\ TypeOK
        /\ OneActive
        /\ ClientCovered
        /\ \A e \in Enroll : EnrollOK(e)
        /\ \A c \in Client : DeviceOK(c)
        /\ \A k \in Check : CheckOK(k)

-----------------------------------------------------------------------------
(* Before the first enroll the table is empty. *)
LEMMA InitIInv == Init => IInv
<1> SUFFICES ASSUME Init PROVE IInv
  BY Zenon
<1> USE RelayAssumption DEF Init
<1>1. TypeOK
  BY DEF TypeOK, Void, EnrollLabel, Shown, Time
<1>2. OneActive /\ ClientCovered
  BY Zenon DEF OneActive, ClientCovered, ActiveRow
<1>3. \A e \in Enroll : EnrollOK(e)
  BY Zenon DEF EnrollOK
<1>4. \A c \in Client : DeviceOK(c)
  BY Zenon DEF DeviceOK
<1>5. \A k \in Check : CheckOK(k)
  BY Zenon DEF CheckOK
<1> QED
  BY <1>1, <1>2, <1>3, <1>4, <1>5, Zenon DEF IInv

(* The steps of /enroll that write no row: the table, and with it what a   *)
(* check will read, stay.                                                  *)
LEMMA RequestStep ==
  ASSUME IInv, NEW e \in Enroll,
         BeginEnroll(e) \/ InsertConflict(e) \/ MintFails(e) \/ EnqueuePayload(e) \/ Reply(e)
  PROVE  IInv'
<1> USE RelayAssumption
<1>1. /\ TypeOK /\ EnrollOK(e)
      /\ UNCHANGED <<clock, row, client, checkVars, tokens, revocations, latest, barred>>
  BY Zenon DEF IInv, BeginEnroll, InsertConflict, MintFails, EnqueuePayload, Reply, tableVars
<1>2. UNCHANGED <<step, shown, now, verdict>>
  BY <1>1, Zenon DEF checkVars
<1>3. PICK x \in EnrollLabel :
        /\ pc' = [pc EXCEPT ![e] = x] /\ x \notin {"new", "insert"}
        /\ x = "revoke" => pc[e] = "new"
        /\ x \in {"enqueue", "persist", "reply", "answered", "lost"} =>
             pc[e] \in {"enqueue", "persist", "reply"}
        /\ pc[e] # "answered"
        /\ pc[e] = "insert" => x = "failed" /\ (client[e] \in cleared' \/ ActiveRow(client[e]) # {})
  BY Zenon DEF BeginEnroll, InsertConflict, MintFails, EnqueuePayload, Reply, Goto, EnrollLabel,
         IndexAllows
<1>4. /\ cleared' \in SUBSET Client /\ cleared \subseteq cleared'
      /\ failures' \in 0 .. MaxFailures
  BY <1>1 DEF TypeOK, BeginEnroll, InsertConflict, MintFails, EnqueuePayload, Reply
<1>5. /\ expires_at' \in [Enroll -> Time]
      /\ \A f \in Enroll : pc[f] = "answered" => expires_at'[f] = expires_at[f]
      /\ \A f \in Enroll : row[f] = "active" => expires_at'[f] = expires_at[f]
  <2>1. CASE BeginEnroll(e)
    <3>1. pc[e] = "new" /\ row[e] = "none" /\ clock + KeyTTL \in Time
      BY <1>1, <2>1 DEF BeginEnroll, EnrollOK, TypeOK, Time
    <3> QED
      BY <1>1, <2>1, <3>1, Zenon DEF BeginEnroll, TypeOK
  <2>2. CASE ~BeginEnroll(e)
    BY <1>1, <2>2, Zenon DEF InsertConflict, MintFails, EnqueuePayload, Reply, tableVars, TypeOK
  <2> QED
    BY <2>1, <2>2, Zenon
<1>6. \/ held' = held
      \/ held' = [held EXCEPT ![client[e]] = e] /\ pc'[e] = "answered"
  BY <1>1, Zenon DEF TypeOK, BeginEnroll, InsertConflict, MintFails, EnqueuePayload, Reply, Goto
<1>7. TypeOK'
  <2>1. pc' \in [Enroll -> EnrollLabel]
    BY <1>1, <1>3, Zenon DEF TypeOK
  <2>2. held' \in [Client -> Enroll \cup {NoEnroll}]
    BY <1>1, <1>6, Zenon DEF TypeOK
  <2> QED
    BY <1>1, <1>2, <1>4, <1>5, <2>1, <2>2, Zenon DEF TypeOK
<1>8. \A c \in Client : ActiveRow(c)' = ActiveRow(c)
  BY <1>1, Zenon DEF ActiveRow
<1>9. OneActive'
  BY <1>8, Zenon DEF IInv, OneActive
<1>10. ClientCovered'
  <2> SUFFICES ASSUME NEW c \in Client, NEW d \in Enroll, client[d] = c, row[d] # "none",
                      ActiveRow(c) = {}, c \notin cleared'
               PROVE  \E f \in Enroll : client[f] = c /\ pc'[f] = "insert"
    BY <1>1, <1>8, Zenon DEF ClientCovered
  <2>1. PICK f \in Enroll : client[f] = c /\ pc[f] = "insert"
    BY <1>4, Zenon DEF IInv, ClientCovered
  <2>2. f # e
    BY <1>3, <2>1, Zenon
  <2> QED
    BY <1>1, <1>3, <2>1, <2>2, Zenon DEF TypeOK
<1>11. ASSUME NEW f \in Enroll PROVE EnrollOK(f)'
  <2>1. EnrollOK(f)
    BY Zenon DEF IInv
  <2>2. CASE f = e
    <3>1. pc'[e] = x
      BY <1>1, <1>3, Zenon DEF TypeOK
    <3> QED
      BY <1>1, <1>3, <2>1, <2>2, <3>1, Zenon DEF EnrollOK
  <2>3. CASE f # e
    <3>1. pc'[f] = pc[f]
      BY <1>1, <1>3, <2>3, Zenon DEF TypeOK
    <3> QED
      BY <1>1, <2>1, <3>1, Zenon DEF EnrollOK
  <2> QED
    BY <2>2, <2>3, Zenon
<1>12. \A f \in Enroll : pc[f] = "answered" => pc'[f] = "answered"
  BY <1>1, <1>3, Zenon DEF TypeOK
<1>13. ASSUME NEW c \in Client PROVE DeviceOK(c)'
  <2>1. DeviceOK(c) /\ held[c] \in Enroll \cup {NoEnroll}
    BY <1>1, Zenon DEF IInv, TypeOK
  <2>2. CASE held'[c] = held[c]
    BY <1>1, <1>12, <2>1, <2>2, Zenon DEF DeviceOK
  <2>3. CASE held'[c] # held[c]
    <3>1. held'[c] = e /\ client[e] = c /\ pc'[e] = "answered"
      BY <1>1, <1>6, <2>3, Zenon DEF TypeOK
    <3> QED
      BY <1>1, <3>1, Zenon DEF DeviceOK
  <2> QED
    BY <2>2, <2>3, Zenon
<1>14. ASSUME NEW k \in Check PROVE CheckOK(k)'
  <2>1. CheckOK(k)
    BY Zenon DEF IInv
  <2>2. ASSUME NEW c \in Client PROVE Unexpired(c, clock)' => Unexpired(c, clock)
    BY <1>1, <1>5, <1>8, Zenon DEF Unexpired, ActiveRow
  <2>3. shown[k].kind = "key" => /\ pc'[shown[k].id] = "answered"
                                 /\ expires_at'[shown[k].id] = expires_at[shown[k].id]
    BY <1>5, <1>12, <2>1, Zenon DEF CheckOK
  <2> QED
    BY <1>1, <1>2, <2>1, <2>2, <2>3, Zenon DEF CheckOK
<1> QED
  BY <1>7, <1>9, <1>10, <1>11, <1>13, <1>14, Zenon DEF IInv

(* The two UPDATEs, of a rotation and of an admin: active rows of one      *)
(* client become void, no other row changes.                               *)
LEMMA RevokeStep ==
  ASSUME IInv, NEW c \in Client, NEW why \in Void, RevokeRows(c, why),
         UNCHANGED <<clock, client, expires_at, checkVars, held, tokens, failures, barred>>,
         \/ /\ why = "rotated" /\ UNCHANGED <<revocations, cleared>>
            /\ \E e \in Enroll : /\ client[e] = c /\ pc[e] = "revoke" /\ Goto(e, "insert")
                                 /\ latest' = [latest EXCEPT ![c] = e]
         \/ /\ why = "revoked-by-admin" /\ UNCHANGED <<pc, latest>>
            /\ cleared' = cleared \cup {c} /\ revocations' \in 0 .. MaxRevocations
  PROVE  IInv'
<1> USE RelayAssumption
<1>1. TypeOK /\ why \notin {"none", "active"} /\ UNCHANGED <<step, shown, now, verdict>>
  BY Zenon DEF IInv, Void, checkVars
<1>2. /\ \A f \in Enroll : /\ row'[f] = row[f] \/ (row[f] = "active" /\ row'[f] = why)
                           /\ row'[f] = "active" <=> row[f] = "active" /\ client[f] # c
                           /\ row'[f] = "none" <=> row[f] = "none"
                           /\ row'[f] # row[f] => client[f] = c
      /\ row' \in [Enroll -> {"none", "active"} \cup Void]
  <2>1. row' = [f \in Enroll |-> IF f \in ActiveRow(c) THEN why ELSE row[f]]
    BY Zenon DEF RevokeRows
  <2>2. \A f \in Enroll : f \in ActiveRow(c) <=> row[f] = "active" /\ client[f] = c
    BY Zenon DEF ActiveRow
  <2>3. \A f \in Enroll : row'[f] = IF row[f] = "active" /\ client[f] = c THEN why ELSE row[f]
    BY <2>1, <2>2, Zenon
  <2>4. row' \in [Enroll -> {"none", "active"} \cup Void]
    <3>1. \A f \in Enroll : row[f] \in {"none", "active"} \cup Void
      BY <1>1, Zenon DEF TypeOK
    <3> QED
      BY <2>1, <3>1, Zenon
  <2>5. ASSUME NEW f \in Enroll
        PROVE  /\ row'[f] = row[f] \/ (row[f] = "active" /\ row'[f] = why)
               /\ row'[f] = "active" <=> row[f] = "active" /\ client[f] # c
               /\ row'[f] = "none" <=> row[f] = "none"
               /\ row'[f] # row[f] => client[f] = c
    <3>1. CASE row[f] = "active" /\ client[f] = c
      BY <1>1, <2>3, <3>1, Zenon
    <3>2. CASE ~(row[f] = "active" /\ client[f] = c)
      BY <2>3, <3>2, Zenon
    <3> QED
      BY <3>1, <3>2, Zenon
  <2> QED
    BY <2>4, <2>5, Zenon
<1>3. /\ pc' \in [Enroll -> EnrollLabel]
      /\ \A f \in Enroll : pc'[f] = pc[f] \/ (pc[f] = "revoke" /\ pc'[f] = "insert")
      /\ latest' \in [Client -> Enroll \cup {NoEnroll}]
      /\ cleared' \in SUBSET Client /\ cleared \subseteq cleared'
      /\ revocations' \in 0 .. MaxRevocations
  <2>1. /\ pc \in [Enroll -> EnrollLabel] /\ "insert" \in EnrollLabel
        /\ latest \in [Client -> Enroll \cup {NoEnroll}]
        /\ cleared \in SUBSET Client /\ revocations \in 0 .. MaxRevocations
    BY <1>1, Zenon DEF TypeOK, EnrollLabel
  <2>2. CASE why = "rotated"
    <3>1. PICK e \in Enroll : /\ pc[e] = "revoke" /\ pc' = [pc EXCEPT ![e] = "insert"]
                              /\ latest' = [latest EXCEPT ![c] = e]
      BY <2>2, Zenon DEF Goto
    <3>2. revocations' = revocations /\ cleared' = cleared
      BY <2>2, Zenon
    <3>3. /\ pc' \in [Enroll -> EnrollLabel]
          /\ \A f \in Enroll : pc'[f] = pc[f] \/ (pc[f] = "revoke" /\ pc'[f] = "insert")
      BY <2>1, <3>1, Zenon
    <3>4. latest' \in [Client -> Enroll \cup {NoEnroll}]
      BY <2>1, <3>1, Zenon
    <3> QED
      BY <2>1, <3>2, <3>3, <3>4, Zenon
  <2>3. CASE why # "rotated"
    <3>1. pc' = pc /\ latest' = latest
      BY <2>3, Zenon
    <3>2. cleared' = cleared \cup {c} /\ revocations' \in 0 .. MaxRevocations
      BY <2>3, Zenon
    <3> QED
      BY <2>1, <3>1, <3>2, Zenon
  <2> QED
    BY <2>2, <2>3, Zenon
<1>4. TypeOK'
  BY <1>1, <1>2, <1>3, Zenon DEF TypeOK
<1>5. \A d \in Client : ActiveRow(d)' \subseteq ActiveRow(d) /\ (d # c => ActiveRow(d)' = ActiveRow(d))
  BY <1>2, Zenon DEF ActiveRow
<1>6. OneActive'
  BY <1>5, Zenon DEF IInv, OneActive
<1>7. c \in cleared' \/ \E e \in Enroll : client[e] = c /\ pc'[e] = "insert"
  BY <1>1, Zenon DEF TypeOK, Goto
<1>8. ClientCovered'
  <2> SUFFICES ASSUME NEW d \in Client, d # c, NEW f \in Enroll, client[f] = d, row[f] # "none",
                      ActiveRow(d) = {}, d \notin cleared'
               PROVE  \E g \in Enroll : client[g] = d /\ pc'[g] = "insert"
    BY <1>2, <1>5, <1>7 DEF ClientCovered
  <2>1. PICK g \in Enroll : client[g] = d /\ pc[g] = "insert"
    BY <1>3, Zenon DEF IInv, ClientCovered
  <2> QED
    BY <1>3, <2>1, Zenon
<1>9. ASSUME NEW f \in Enroll PROVE EnrollOK(f)'
  <2>1. EnrollOK(f)
    BY Zenon DEF IInv
  <2>2. ASSUME row'[f] = "rotated" PROVE latest'[client[f]] # f
    <3>1. CASE why # "rotated"
      <4>1. latest' = latest /\ row[f] = "rotated"
        BY <1>2, <2>2, <3>1, Zenon
      <4> QED
        BY <2>1, <4>1, Zenon DEF EnrollOK
    <3>2. CASE why = "rotated"
      <4> PICK e \in Enroll : pc[e] = "revoke" /\ latest' = [latest EXCEPT ![c] = e]
        BY <3>2, Zenon
      <4>1. row[e] = "none" /\ row'[e] = "none"
        BY <1>2, Zenon DEF IInv, EnrollOK
      <4>2. f # e
        BY <2>2, <4>1, Zenon
      <4>3. client[f] # c => latest'[client[f]] = latest[client[f]] /\ row[f] = "rotated"
        BY <1>1, <1>2, <2>2, Zenon DEF TypeOK
      <4>4. client[f] = c => latest'[client[f]] = e
        BY <1>1, Zenon DEF TypeOK
      <4> QED
        BY <2>1, <4>2, <4>3, <4>4, Zenon DEF EnrollOK
    <3> QED
      BY <3>1, <3>2, Zenon
  <2> QED
    BY <1>2, <1>3, <2>1, <2>2, Zenon DEF EnrollOK
<1>10. ASSUME NEW d \in Client PROVE DeviceOK(d)'
  <2>1. DeviceOK(d) /\ held[d] \in Enroll \cup {NoEnroll}
    BY <1>1, Zenon DEF IInv, TypeOK
  <2> QED
    BY <1>3, <2>1, Zenon DEF DeviceOK
<1>11. ASSUME NEW k \in Check PROVE CheckOK(k)'
  <2>1. CheckOK(k)
    BY Zenon DEF IInv
  <2>2. ASSUME NEW d \in Client PROVE Unexpired(d, clock)' => Unexpired(d, clock)
    BY <1>5, Zenon DEF Unexpired
  <2>3. shown[k].kind = "key" => /\ pc'[shown[k].id] = "answered"
                                 /\ (row[shown[k].id] \in Void => row'[shown[k].id] \in Void)
    BY <1>2, <1>3, <2>1, Zenon DEF CheckOK
  <2> QED
    BY <1>1, <2>1, <2>2, <2>3, Zenon DEF CheckOK
<1> QED
  BY <1>4, <1>6, <1>8, <1>9, <1>10, <1>11, Zenon DEF IInv

(* The INSERT that the partial unique index lets through.                  *)
LEMMA InsertStep == ASSUME IInv, NEW e \in Enroll, InsertNew(e) PROVE IInv'
<1> USE RelayAssumption
<1> PICK c \in Client : c = client[e]
  BY Zenon DEF IInv, TypeOK
<1>1. /\ TypeOK /\ EnrollOK(e)
      /\ pc[e] = "insert" /\ ActiveRow(c) = {}
      /\ pc' = [pc EXCEPT ![e] = "enqueue"] /\ row' = [row EXCEPT ![e] = "active"]
      /\ cleared' = cleared \ {c}
      /\ barred' = {k \in barred : ~(shown[k].kind = "token" /\ shown[k].id = c)}
      /\ UNCHANGED <<clock, client, expires_at, step, shown, now, verdict, held, tokens,
                     failures, revocations, latest>>
  BY Zenon DEF IInv, TypeOK, InsertNew, IndexAllows, Goto, checkVars
<1>2. /\ row[e] = "none" /\ row'[e] = "active" /\ pc'[e] = "enqueue"
      /\ \A f \in Enroll \ {e} : row'[f] = row[f] /\ pc'[f] = pc[f]
  BY <1>1, Zenon DEF TypeOK, EnrollOK
<1>3. TypeOK'
  <2>1. row' \in [Enroll -> {"none", "active"} \cup Void] /\ pc' \in [Enroll -> EnrollLabel]
    BY <1>1, Zenon DEF TypeOK, EnrollLabel
  <2>2. cleared' \in SUBSET Client /\ barred' \in SUBSET Check
    BY <1>1, Zenon DEF TypeOK
  <2> QED
    BY <1>1, <2>1, <2>2, Zenon DEF TypeOK
<1>4. /\ ActiveRow(c)' = {e}
      /\ \A d \in Client \ {c} : ActiveRow(d)' = ActiveRow(d)
  <2>1. ASSUME NEW f \in Enroll, NEW d \in Client
        PROVE  /\ f # e \/ d # c => (row'[f] = "active" /\ client[f] = d
                                        <=> row[f] = "active" /\ client[f] = d)
               /\ row'[e] = "active" /\ client[e] = c
    BY <1>2, Zenon
  <2>2. \A d \in Client : ActiveRow(d)' = {f \in Enroll : row'[f] = "active" /\ client[f] = d}
    BY <1>1, Zenon DEF ActiveRow
  <2> QED
    BY <1>1, <2>1, <2>2 DEF ActiveRow
<1>5. OneActive'
  BY <1>4 DEF IInv, OneActive
<1>6. ClientCovered'
  <2> SUFFICES ASSUME NEW d \in Client, d # c, NEW f \in Enroll, client[f] = d, row'[f] # "none",
                      ActiveRow(d) = {}, d \notin cleared'
               PROVE  \E g \in Enroll : client[g] = d /\ pc'[g] = "insert"
    BY <1>1, <1>4 DEF ClientCovered
  <2>1. client[e] = c /\ f # e /\ row[f] # "none" /\ d \notin cleared
    BY <1>1, <1>2, Zenon
  <2>2. PICK g \in Enroll : client[g] = d /\ pc[g] = "insert"
    BY <2>1, Zenon DEF IInv, ClientCovered
  <2>3. g # e
    BY <2>1, <2>2, Zenon
  <2> QED
    BY <1>2, <2>2, <2>3, Zenon
<1>7. ASSUME NEW f \in Enroll PROVE EnrollOK(f)'
  <2>1. EnrollOK(f)
    BY Zenon DEF IInv
  <2>2. CASE f = e
    BY <1>2, <2>2, Zenon DEF EnrollOK
  <2>3. CASE f # e
    BY <1>1, <1>2, <2>1, <2>3, Zenon DEF EnrollOK
  <2> QED
    BY <2>2, <2>3, Zenon
<1>8. \A f \in Enroll : pc[f] = "answered" => pc'[f] = "answered" /\ row'[f] = row[f]
  BY <1>1, <1>2, Zenon
<1>9. ASSUME NEW d \in Client PROVE DeviceOK(d)'
  <2>1. DeviceOK(d) /\ held[d] \in Enroll \cup {NoEnroll}
    BY <1>1, Zenon DEF IInv, TypeOK
  <2> QED
    BY <1>1, <1>8, <2>1, Zenon DEF DeviceOK
<1>10. ASSUME NEW k \in Check PROVE CheckOK(k)'
  <2>1. CheckOK(k)
    BY Zenon DEF IInv
  <2>2. ASSUME NEW d \in Client, d # c PROVE Unexpired(d, clock)' => Unexpired(d, clock)
    BY <1>1, <1>4, <2>2, Zenon DEF Unexpired
  <2>3. shown[k].kind = "key" => /\ pc'[shown[k].id] = "answered"
                                 /\ row'[shown[k].id] = row[shown[k].id]
    BY <1>8, <2>1, Zenon DEF CheckOK
  <2>4. k \in barred' => k \in barred /\ ~(shown[k].kind = "token" /\ shown[k].id = c)
    BY <1>1, Zenon
  <2> QED
    BY <1>1, <2>1, <2>2, <2>3, <2>4, Zenon DEF CheckOK
<1> QED
  BY <1>3, <1>5, <1>6, <1>7, <1>9, <1>10, Zenon DEF IInv

-----------------------------------------------------------------------------

(* A step that leaves the table, the enrolls and the devices alone.        *)
LEMMA TableKept ==
  ASSUME IInv, UNCHANGED <<row, client, pc, held, latest, cleared>>, TypeOK',
         \A k \in Check : CheckOK(k)'
  PROVE  IInv'
<1>1. \A c \in Client : ActiveRow(c)' = ActiveRow(c)
  BY Zenon DEF ActiveRow
<1>2. OneActive' /\ ClientCovered'
  BY <1>1, Zenon DEF IInv, OneActive, ClientCovered
<1>3. (\A e \in Enroll : EnrollOK(e)') /\ (\A c \in Client : DeviceOK(c)')
  BY Zenon DEF IInv, EnrollOK, DeviceOK
<1> QED
  BY <1>2, <1>3, Zenon DEF IInv

(* A request begins with what it shows. *)
Begins(k, sh, st, v) ==
    /\ shown' = [shown EXCEPT ![k] = sh]
    /\ step' = [step EXCEPT ![k] = st]
    /\ verdict' = [verdict EXCEPT ![k] = v]
    /\ barred' = barred \/ barred' = barred \cup {k}
    /\ \/ /\ sh.kind = "key" /\ sh.id \in Enroll /\ pc[sh.id] = "answered"
          /\ k \in barred' => row[sh.id] # "active" \/ expires_at[sh.id] <= clock
       \/ /\ sh.kind = "token" /\ sh.id \in Client
          /\ k \in barred' => ~Unexpired(sh.id, clock)

(* It is judged by the table as it is. *)
Judged(k, st, v) ==
    /\ step' = [step EXCEPT ![k] = st]
    /\ verdict' = [verdict EXCEPT ![k] = v]
    /\ st = "mint" => shown[k].kind = "key"
    /\ v = "ok" => \/ verdict[k] = "ok"
                   \/ /\ step[k] = "select" /\ shown[k].kind = "key"
                      /\ row[shown[k].id] = "active" /\ expires_at[shown[k].id] > now[k]
                   \/ /\ step[k] = "select" /\ shown[k].kind = "token"
                      /\ Unexpired(shown[k].id, clock)

(* The first step of a request reads the clock; barred notes what was void *)
(* at that moment.                                                         *)
LEMMA PresentStep ==
  ASSUME IInv, NEW k \in Check,
         \/ \E e \in Enroll, t \in Target : PresentKey(k, e, t)
         \/ \E tok \in tokens : PresentToken(k, tok)
  PROVE  IInv'
<1> USE RelayAssumption
<1>1. /\ TypeOK /\ CheckOK(k) /\ step[k] = "new" /\ k \notin barred
      /\ UNCHANGED <<clock, row, client, expires_at, pc, held, tokens, failures,
                     revocations, latest, cleared>>
      /\ now' = [now EXCEPT ![k] = clock]
  BY Zenon DEF IInv, CheckOK, PresentKey, PresentToken, tableVars
<1>2. PICK sh \in Shown, st \in {"select", "done"}, v \in {verdict[k], "refused"} :
         Begins(k, sh, st, v)
  <2>1. verdict = [verdict EXCEPT ![k] = verdict[k]]
    BY <1>1, Zenon DEF TypeOK
  <2>2. ASSUME NEW e \in Enroll, NEW t \in Target, PresentKey(k, e, t)
        PROVE  \E sh \in Shown : Begins(k, sh, "select", verdict[k])
    <3> DEFINE sh == [kind |-> "key", id |-> e, target |-> t]
    <3>1. sh \in Shown /\ sh.kind = "key" /\ sh.id = e
      BY Zenon DEF Shown
    <3>2. shown' = [shown EXCEPT ![k] = sh] /\ pc[e] = "answered"
      BY <2>2, Zenon DEF PresentKey
    <3> HIDE DEF sh
    <3>3. /\ step' = [step EXCEPT ![k] = "select"]
          /\ verdict' = [verdict EXCEPT ![k] = verdict[k]]
      BY <2>1, <2>2, Zenon DEF PresentKey
    <3>4. /\ barred' = barred \/ barred' = barred \cup {k}
          /\ k \in barred' => row[e] # "active" \/ expires_at[e] <= clock
      BY <1>1, <2>2, Zenon DEF PresentKey
    <3>5. Begins(k, sh, "select", verdict[k])
      BY <3>1, <3>2, <3>3, <3>4, Zenon DEF Begins
    <3> QED
      BY <3>1, <3>5, Zenon
  <2>3. ASSUME NEW tok \in tokens, PresentToken(k, tok)
        PROVE  \E sh \in Shown, st \in {"select", "done"}, v \in {verdict[k], "refused"} :
                  Begins(k, sh, st, v)
    <3> DEFINE sh == [kind |-> "token", id |-> tok[1], exp |-> tok[2]]
    <3>1. tok[1] \in Client /\ tok[2] \in Time
      BY <1>1, Zenon DEF TypeOK
    <3>2. sh \in Shown /\ sh.kind = "token" /\ sh.id = tok[1]
      BY <3>1, Zenon DEF Shown
    <3>3. shown' = [shown EXCEPT ![k] = sh]
      BY <2>3, Zenon DEF PresentToken
    <3> HIDE DEF sh
    <3>4. PICK st \in {"select", "done"}, v \in {verdict[k], "refused"} :
             /\ step' = [step EXCEPT ![k] = st] /\ verdict' = [verdict EXCEPT ![k] = v]
      BY <2>1, <2>3, Zenon DEF PresentToken
    <3>5. /\ barred' = barred \/ barred' = barred \cup {k}
          /\ k \in barred' => ~Unexpired(tok[1], clock)
      BY <1>1, <2>3, Zenon DEF PresentToken
    <3>6. Begins(k, sh, st, v)
      BY <3>1, <3>2, <3>3, <3>4, <3>5, Zenon DEF Begins
    <3> QED
      BY <3>2, <3>6, Zenon
  <2> QED
    BY <2>2, <2>3, Zenon
<1>3. /\ shown'[k] = sh /\ step'[k] = st /\ verdict'[k] = v /\ now'[k] = clock /\ v # "ok"
      /\ \A j \in Check \ {k} : /\ shown'[j] = shown[j] /\ step'[j] = step[j]
                                /\ verdict'[j] = verdict[j] /\ now'[j] = now[j]
                                /\ j \in barred' <=> j \in barred
  BY <1>1, <1>2, Zenon DEF TypeOK, CheckOK, Begins
<1>4. TypeOK'
  <2>1. /\ shown' \in [Check -> Shown] /\ step' \in [Check -> {"new", "select", "mint", "done"}]
        /\ verdict' \in [Check -> {"none", "ok", "refused"}] /\ now' \in [Check -> 0 .. MaxTime]
        /\ barred' \in SUBSET Check
    BY <1>1, <1>2, Zenon DEF TypeOK, Begins
  <2> QED
    BY <1>1, <2>1, Zenon DEF TypeOK
<1>5. ASSUME NEW c \in Client PROVE Unexpired(c, clock)' <=> Unexpired(c, clock)
  BY <1>1, Zenon DEF Unexpired, ActiveRow
<1>6. ASSUME NEW j \in Check PROVE CheckOK(j)'
  <2>1. CASE j = k
    <3>1. \A e \in Enroll : pc[e] = "answered" /\ row[e] # "active" => row[e] \in Void
      BY <1>1, Zenon DEF IInv, EnrollOK, TypeOK
    <3> QED
      BY <1>1, <1>2, <1>3, <1>5, <2>1, <3>1 DEF CheckOK, Begins
  <2>2. CASE j # k
    <3>1. CheckOK(j)
      BY Zenon DEF IInv
    <3> QED
      BY <1>1, <1>3, <1>5, <2>2, <3>1, Zenon DEF CheckOK
  <2> QED
    BY <2>1, <2>2, Zenon
<1> QED
  BY <1>1, <1>4, <1>6, TableKept, Zenon

(* The later steps of a request: the SELECT and its verdict, the token.    *)
LEMMA VerifyStep ==
  ASSUME IInv, NEW k \in Check,
         VerifyKey(k) \/ VerifyToken(k) \/ VerifyFails(k) \/ MintToken(k)
  PROVE  IInv'
<1> USE RelayAssumption
<1>1. /\ TypeOK /\ CheckOK(k)
      /\ UNCHANGED <<clock, row, client, expires_at, pc, shown, now, held, revocations,
                     latest, cleared, barred>>
  BY Zenon DEF IInv, VerifyKey, VerifyToken, VerifyFails, MintToken, tableVars
<1>2. PICK st \in {"mint", "done"}, v \in {"none", "ok", "refused"} : Judged(k, st, v)
  <2>1. verdict = [verdict EXCEPT ![k] = verdict[k]] /\ verdict[k] \in {"none", "ok", "refused"}
    BY <1>1, Zenon DEF TypeOK
  <2>2. CASE VerifyKey(k)
    <3>1. PICK ok \in BOOLEAN :
            /\ step[k] = "select" /\ shown[k].kind = "key"
            /\ ok => row[shown[k].id] = "active" /\ expires_at[shown[k].id] > now[k]
            /\ verdict' = [verdict EXCEPT ![k] = IF ok THEN "ok" ELSE "refused"]
            /\ step' = [step EXCEPT ![k] =
                           IF ok /\ shown[k].target = "config" THEN "mint" ELSE "done"]
      BY <2>2, Zenon DEF VerifyKey
    <3>2. CASE ok
      BY <3>1, <3>2, Zenon DEF Judged
    <3>3. CASE ~ok
      BY <3>1, <3>3, Zenon DEF Judged
    <3> QED
      BY <3>2, <3>3, Zenon
  <2>3. CASE VerifyToken(k)
    <3>1. CASE Unexpired(shown[k].id, clock)
      <4>1. Judged(k, "done", "ok")
        BY <2>3, <3>1, Zenon DEF VerifyToken, Judged
      <4> QED
        BY <4>1, Zenon
    <3>2. CASE ~Unexpired(shown[k].id, clock)
      <4>1. Judged(k, "done", "refused")
        BY <2>3, <3>2, Zenon DEF VerifyToken, Judged
      <4> QED
        BY <4>1, Zenon
    <3> QED
      BY <3>1, <3>2, Zenon
  <2>4. CASE VerifyFails(k) \/ MintToken(k)
    <3>1. Judged(k, "done", verdict[k])
      BY <2>1, <2>4, Zenon DEF VerifyFails, MintToken, Judged
    <3> QED
      BY <2>1, <3>1, Zenon
  <2> QED
    BY <2>2, <2>3, <2>4, Zenon
<1>3. /\ step'[k] = st /\ verdict'[k] = v
      /\ \A j \in Check \ {k} : step'[j] = step[j] /\ verdict'[j] = verdict[j]
  BY <1>1, <1>2, Zenon DEF TypeOK, Judged
<1>4. TypeOK'
  <2>1. /\ step' \in [Check -> {"new", "select", "mint", "done"}]
        /\ verdict' \in [Check -> {"none", "ok", "refused"}]
    BY <1>1, <1>2, Zenon DEF TypeOK, Judged
  <2>2. failures' \in 0 .. MaxFailures
    BY <1>1 DEF TypeOK, VerifyKey, VerifyToken, VerifyFails, MintToken
  <2>3. tokens' \in SUBSET (Client \X Time)
    <3>1. CASE MintToken(k)
      <4>1. client[shown[k].id] \in Client /\ clock + TokenTTL \in Time
        BY <1>1, <3>1 DEF MintToken, CheckOK, TypeOK, Time
      <4> QED
        BY <1>1, <3>1, <4>1 DEF MintToken, TypeOK
    <3>2. CASE ~MintToken(k)
      BY <1>1, <3>2, Zenon DEF TypeOK, VerifyKey, VerifyToken, VerifyFails
    <3> QED
      BY <3>1, <3>2, Zenon
  <2> QED
    BY <1>1, <2>1, <2>2, <2>3, Zenon DEF TypeOK
<1>5. ASSUME NEW c \in Client PROVE Unexpired(c, clock)' <=> Unexpired(c, clock)
  BY <1>1, Zenon DEF Unexpired, ActiveRow
<1>6. ASSUME NEW j \in Check PROVE CheckOK(j)'
  <2>1. CASE j = k
    <3>1. k \in barred => v # "ok" /\ step[k] # "new"
      <4> SUFFICES ASSUME k \in barred, v = "ok" PROVE FALSE
        BY <1>1, Zenon DEF CheckOK
      <4>1. CASE step[k] = "select" /\ shown[k].kind = "key"
        <5>1. /\ expires_at[shown[k].id] \in Int /\ now[k] \in Int
              /\ row[shown[k].id] = "active" /\ expires_at[shown[k].id] > now[k]
          <6>1. row[shown[k].id] = "active" /\ expires_at[shown[k].id] > now[k]
            BY <1>1, <1>2, <4>1, Zenon DEF CheckOK, Judged
          <6>2. expires_at[shown[k].id] \in Int /\ now[k] \in Int
            BY <1>1, <4>1 DEF CheckOK, TypeOK, Time
          <6> QED
            BY <6>1, <6>2, Zenon
        <5> QED
          BY <1>1, <4>1, <5>1 DEF CheckOK, Void
      <4>2. CASE ~(step[k] = "select" /\ shown[k].kind = "key")
        BY <1>1, <1>2, <4>2, Zenon DEF CheckOK, Judged
      <4> QED
        BY <4>1, <4>2, Zenon
    <3> QED
      BY <1>1, <1>2, <1>3, <2>1, <3>1, Zenon DEF CheckOK, Judged
  <2>2. CASE j # k
    <3>1. CheckOK(j)
      BY Zenon DEF IInv
    <3> QED
      BY <1>1, <1>3, <1>5, <2>2, <3>1, Zenon DEF CheckOK
  <2> QED
    BY <2>1, <2>2, Zenon
<1> QED
  BY <1>1, <1>4, <1>6, TableKept, Zenon

(* Time only takes credentials away. *)
LEMMA TickStep == ASSUME IInv, Tick PROVE IInv'
<1> USE RelayAssumption
<1>1. /\ TypeOK /\ clock \in 0 .. MaxTime /\ clock < MaxTime /\ clock' = clock + 1
      /\ UNCHANGED <<row, client, expires_at, pc, held, tokens, failures, revocations,
                     latest, cleared, barred>>
      /\ UNCHANGED <<step, shown, now, verdict>>
  BY Zenon DEF IInv, TypeOK, Tick, tableVars, checkVars
<1>2. TypeOK'
  <2>1. clock' \in 0 .. MaxTime
    BY <1>1
  <2> QED
    BY <1>1, <2>1, Zenon DEF TypeOK
<1>3. ASSUME NEW c \in Client PROVE Unexpired(c, clock)' => Unexpired(c, clock)
  <2>1. \A e \in Enroll : expires_at[e] \in Int
    BY <1>1 DEF TypeOK, Time
  <2> QED
    BY <1>1, <2>1 DEF Unexpired, ActiveRow
<1>4. ASSUME NEW k \in Check PROVE CheckOK(k)'
  <2>1. CheckOK(k)
    BY Zenon DEF IInv
  <2> QED
    BY <1>1, <1>3, <2>1, Zenon DEF CheckOK
<1> QED
  BY <1>1, <1>2, <1>4, TableKept, Zenon

(* Every step of a request, of an admin or of time keeps the invariant.    *)
LEMMA NextIInv == IInv /\ [Next]_vars => IInv'
<1> SUFFICES ASSUME IInv, [Next]_vars PROVE IInv'
  BY Zenon
<1>1. CASE UNCHANGED vars
  <2>1. /\ UNCHANGED <<clock, row, client, expires_at, pc, held, tokens>>
        /\ UNCHANGED <<failures, revocations, latest, cleared, barred>>
        /\ UNCHANGED <<step, shown, now, verdict>>
    BY <1>1, Zenon DEF vars, tableVars, checkVars
  <2>2. TypeOK'
    BY <2>1, Zenon DEF IInv, TypeOK
  <2>3. \A k \in Check : CheckOK(k)'
    BY <2>1, Zenon DEF IInv, CheckOK, Unexpired, ActiveRow
  <2> QED
    BY <2>1, <2>2, <2>3, TableKept, Zenon
<1>2. ASSUME NEW e \in Enroll, RotateOld(e) PROVE IInv'
  <2>1. client[e] \in Client /\ "rotated" \in Void
    BY Zenon DEF IInv, TypeOK, Void
  <2>2. /\ RevokeRows(client[e], "rotated") /\ UNCHANGED <<revocations, cleared>>
        /\ UNCHANGED <<clock, client, expires_at, checkVars, held, tokens, failures, barred>>
        /\ pc[e] = "revoke" /\ Goto(e, "insert")
        /\ latest' = [latest EXCEPT ![client[e]] = e]
    BY <1>2, Zenon DEF RotateOld
  <2> QED
    BY <2>1, <2>2, RevokeStep, Zenon
<1>3. ASSUME NEW c \in Client, DeviceRevokeRelay(c) PROVE IInv'
  <2>1. revocations' \in 0 .. MaxRevocations /\ "revoked-by-admin" \in Void
    BY <1>3, RelayAssumption DEF IInv, TypeOK, DeviceRevokeRelay, Void
  <2> QED
    BY <1>3, <2>1, RevokeStep, Zenon DEF DeviceRevokeRelay
<1> QED
  BY <1>1, <1>2, <1>3, RequestStep, InsertStep, PresentStep, VerifyStep, TickStep, Zenon DEF Next

-----------------------------------------------------------------------------
(* The inductive invariant holds in every reachable state.                 *)
THEOREM Invariance == Spec => []IInv
  BY InitIInv, NextIInv, PTL DEF Spec

(* The rows of relay_clients and the locals of requests keep their types.  *)
THEOREM TypeCorrect == Spec => []TypeOK
<1>1. IInv => TypeOK
  BY Zenon DEF IInv
<1> QED
  BY <1>1, Invariance, PTL

(* However enrolls of a device interleave, it has one active credential at *)
(* most.                                                                   *)
THEOREM AtMostOneActive == Spec => []OneActive
<1>1. IInv => OneActive
  BY Zenon DEF IInv
<1> QED
  BY <1>1, Invariance, PTL

(* Racing enrolls never leave a device without a credential: the rotation  *)
(* that takes one away puts one back, or fails because another has.        *)
THEOREM Covered == Spec => []ClientCovered
<1>1. IInv => ClientCovered
  BY Zenon DEF IInv
<1> QED
  BY <1>1, Invariance, PTL

(* The answer to the last enroll to rotate is a credential that works      *)
(* until an admin revokes it.                                              *)
THEOREM LastOneWins == Spec => []LastEnrollWins
<1>1. IInv => LastEnrollWins
  <2> SUFFICES ASSUME IInv, NEW c \in Client, held[c] # NoEnroll, held[c] = latest[c]
               PROVE  row[held[c]] \in {"active", "revoked-by-admin"}
    BY Zenon DEF LastEnrollWins
  <2>1. held[c] \in Enroll /\ row[held[c]] \in {"none", "active"} \cup Void
    BY Zenon DEF IInv, TypeOK
  <2>2. pc[held[c]] = "answered" /\ client[held[c]] = c /\ EnrollOK(held[c])
    BY <2>1, Zenon DEF IInv, DeviceOK
  <2> QED
    BY <2>1, <2>2, Zenon DEF EnrollOK, Void
<1> QED
  BY <1>1, Invariance, PTL

(* A revocation holds for every request that begins after it, whatever     *)
(* happens between the steps of the request.                               *)
THEOREM RevocationHolds == Spec => []RefusedWhenVoid
<1>1. IInv => RefusedWhenVoid
  BY Zenon DEF IInv, TypeOK, CheckOK, RefusedWhenVoid
<1> QED
  BY <1>1, Invariance, PTL
=============================================================================
