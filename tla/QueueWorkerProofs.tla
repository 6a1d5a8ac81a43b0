------------------------- MODULE QueueWorkerProofs -------------------------
(***************************************************************************)
(* The inductive invariant of QueueWorker, and its preservation: first by  *)
(* the statements that write a single row (enqueue, ack, retry and         *)
(* move_to_dead_letter) and by the steps of a loop inside its batch, then  *)
(* by the claim, by loops that end and by time.  The safety invariants of  *)
(* QueueWorker follow, and, by looking at single steps, that claims never  *)
(* overlap, that a key has one job, and that the queue with its loops      *)
(* implements JobContract.  For any number of jobs, workers and keys, any  *)
(* batch size and attempt limit, with and without the dead-letter key.     *)
(***************************************************************************)
EXTENDS QueueWorker, FiniteSetTheorems, TLAPS

(* What a row looks like between two transactions. *)
RowOK(j) ==
    /\ status[j] = "processing" <=> lock_owner[j] # NoWorker
    /\ locked_at[j] = "null" <=> lock_owner[j] = NoWorker
    /\ status[j] = "absent" => attempts[j] = 0
    /\ status[j] = "pending" => attempts[j] < MaxAttempts
    /\ runs[j] <= attempts[j]
    /\ attempts[j] <= MaxAttempts
    /\ status[j] = "done" => j \in completed
    /\ status[j] = "dead" => j \in dead_letters /\ attempts[j] = MaxAttempts
    /\ rowlock[j] # NoWorker =>
           /\ status[j] = "pending"
           /\ pc[rowlock[j]] = "claiming"
           /\ j \in batch[rowlock[j]]

(* What a loop knows about the rows in its hands. *)
Leased(w, j) ==
    /\ seen[w][j] = attempts[j]
    /\ \/ OwnedBy(w, j)
       \/ pc[w] = "failing" /\ current[w] = j /\ status[j] = "done"
    /\ j # current[w] => runs[j] < attempts[j]

LoopOK(w) ==
    /\ pc[w] = "claiming" => \A j \in batch[w] : rowlock[j] = w
    /\ pc[w] \in {"new", "polling"} \cup Ended => batch[w] = {}
    /\ pc[w] \in Handling => current[w] \in batch[w]
    /\ pc[w] \notin Handling => current[w] = NoJob
    /\ pc[w] \in Handling \cup {"batch"} => \A j \in batch[w] : Leased(w, j)
    /\ pc[w] = "acking" => current[w] \in completed

RowsOK == \A j \in JobId : RowOK(j)

LoopsOK == \A w \in Worker : LoopOK(w)

KeysOK == \A k \in Key :
              /\ answered[k] = RowsWithKey(k)
              /\ \A i, j \in RowsWithKey(k) : i = j

IInv == TypeOK /\ RowsOK /\ LoopsOK /\ KeysOK

-----------------------------------------------------------------------------
(* Before the first enqueue the table is empty and no loop runs. *)
LEMMA InitIInv == Init => IInv
<1> SUFFICES ASSUME Init PROVE IInv
  BY Zenon
<1> USE QueueAssumption, NoJobAssumption DEF Init, QueueInit
<1>1. TypeOK
  BY Zenon DEF TypeOK, QueueTypeOK, Status, PC
<1>2. RowsOK
  BY DEF RowsOK, RowOK
<1>3. LoopsOK
  BY Zenon DEF LoopsOK, LoopOK, Handling
<1>4. KeysOK
  BY Zenon DEF KeysOK, RowsWithKey
<1> QED
  BY <1>1, <1>2, <1>3, <1>4, Zenon DEF IInv

(* The bookkeeping of the due order stays within the rows. *)
LEMMA OrderType ==
  ASSUME TypeOK, NEW j \in JobId, NEW S
  PROVE  /\ GoesLast(j) => due' \in SUBSET JobId /\ before' \in SUBSET (JobId \X JobId)
         /\ LeaveDue(S) => due' \in SUBSET JobId /\ before' \in SUBSET (JobId \X JobId)
<1>1. due \in SUBSET JobId /\ before \in SUBSET (JobId \X JobId)
  BY Zenon DEF TypeOK, QueueTypeOK
<1>2. ASSUME GoesLast(j)
      PROVE  due' \in SUBSET JobId /\ before' \in SUBSET (JobId \X JobId)
  <2>1. {<<i, j>> : i \in due} \in SUBSET (JobId \X JobId)
    BY <1>1
  <2> QED
    BY <1>1, <1>2, <2>1, Zenon DEF GoesLast
<1>3. ASSUME LeaveDue(S)
      PROVE  due' \in SUBSET JobId /\ before' \in SUBSET (JobId \X JobId)
  <2>1. {p \in before : p[1] \notin S /\ p[2] \notin S} \subseteq before
    BY Zenon
  <2> QED
    BY <1>1, <1>3, <2>1, Zenon DEF LeaveDue
<1> QED
  BY <1>2, <1>3, Zenon

(* enqueue inserts a row under a free key, or finds the row of its key.    *)
LEMMA EnqueueStep ==
  ASSUME IInv, NEW k \in Key \cup {NoKey}, NEW j \in JobId, Enqueue(k, j)
  PROVE  IInv'
<1> USE QueueAssumption, NoJobAssumption
<1> USE DEF IInv, Enqueue, enqueue, enqueue_insert, enqueue_conflict,
            queueVars, workerVars
<1>1. TypeOK'
  <2>1. due' \in SUBSET JobId /\ before' \in SUBSET (JobId \X JobId)
    <3>1. CASE GoesLast(j)
      BY <3>1, OrderType, Zenon
    <3>2. CASE UNCHANGED <<due, before>>
      BY <3>2, Zenon DEF TypeOK, QueueTypeOK
    <3> QED
      BY <3>1, <3>2, Zenon
  <2>2. answered' \in [Key -> SUBSET JobId]
    BY Zenon DEF TypeOK
  <2>3. /\ status' \in [JobId -> Status] /\ attempts' \in [JobId -> Nat]
        /\ dedupe_key' \in [JobId -> Key \cup {NoKey}]
    <3>1. /\ status \in [JobId -> Status] /\ attempts \in [JobId -> Nat]
          /\ dedupe_key \in [JobId -> Key \cup {NoKey}]
      BY Zenon DEF TypeOK, QueueTypeOK
    <3>2. "pending" \in Status
      BY Zenon DEF Status
    <3> QED
      BY <3>1, <3>2
  <2>4. QueueTypeOK'
    BY <2>1, <2>3, Zenon DEF TypeOK, QueueTypeOK
  <2> QED
    BY <2>2, <2>4, Zenon DEF TypeOK
<1>2. RowsOK'
  BY DEF TypeOK, QueueTypeOK, RowsOK, RowOK
<1>3. LoopsOK'
  <2> SUFFICES ASSUME NEW w \in Worker PROVE LoopOK(w)'
    BY Zenon DEF LoopsOK
  <2>1. LoopOK(w) /\ batch[w] \subseteq JobId
    BY Zenon DEF LoopsOK, TypeOK
  <2>2. \A i \in JobId : Leased(w, i) => Leased(w, i)'
    BY Zenon DEF Leased, OwnedBy, TypeOK, QueueTypeOK
  <2> QED
    BY <2>1, <2>2, Zenon DEF LoopOK, TypeOK
<1>4. KeysOK'
  BY DEF TypeOK, QueueTypeOK, KeysOK, RowsWithKey
<1> QED
  BY <1>1, <1>2, <1>3, <1>4, Zenon

(* A step that inserts no row and answers no producer keeps the index on   *)
(* (topic, dedupe_key).                                                    *)
LEMMA KeysKept ==
  ASSUME KeysOK, UNCHANGED <<dedupe_key, answered>>,
         \A i \in JobId : status'[i] = "absent" <=> status[i] = "absent"
  PROVE  KeysOK'
<1>1. ASSUME NEW k \in Key PROVE RowsWithKey(k)' = RowsWithKey(k)
  BY Zenon DEF RowsWithKey
<1> HIDE DEF RowsWithKey
<1> QED
  BY <1>1, Zenon DEF KeysOK

(* A loop that a step of _run_queue_worker_loop elsewhere leaves alone.    *)
LEMMA LoopKept ==
  ASSUME NEW v \in Worker, LoopOK(v), completed \subseteq completed',
         pc'[v] = pc[v], batch'[v] = batch[v], current'[v] = current[v],
         pc[v] = "claiming" => \A i \in batch[v] : rowlock'[i] = v,
         pc[v] \in Handling \cup {"batch"} =>
             \A i \in batch[v] : Leased(v, i) => Leased(v, i)'
  PROVE  LoopOK(v)'
<1> HIDE DEF Leased
<1> QED
  BY Zenon DEF LoopOK

(* The WHERE clause of ack, retry and move_to_dead_letter on the current   *)
(* job of w: nobody else is disturbed, and w lets go of the job.           *)
LEMMA JobHandledStep ==
  ASSUME IInv, NEW w \in Worker, NEW s \in {"done", "pending", "dead"},
         pc[w] \in {"acking", "failing"},
         Release(w, current[w], s), JobHandled(w),
         UNCHANGED <<attempts, dedupe_key, due, before, rowlock>>,
         dead_letters' \in SUBSET JobId, dead_letters \subseteq dead_letters',
         s = "done" => pc[w] = "acking",
         s = "pending" => ~Exhausted(w),
         s = "dead" => Exhausted(w) /\ current[w] \in dead_letters'
  PROVE  IInv'
<1> DEFINE j == current[w]
<1> USE QueueAssumption, NoJobAssumption DEF IInv
<1>1. /\ j \in JobId /\ j \in batch[w] /\ Leased(w, j)
      /\ pc[w] \in Handling
      /\ pc[w] = "acking" => j \in completed
  BY Zenon DEF LoopsOK, LoopOK, Handling, TypeOK
<1> HIDE DEF j
<1>2. /\ batch' = [batch EXCEPT ![w] = batch[w] \ {j}]
      /\ current' = [current EXCEPT ![w] = NoJob]
      /\ seen' = [seen EXCEPT ![w][j] = 0]
      /\ pc' = [pc EXCEPT ![w] = IF batch[w] = {j} THEN "polling" ELSE "batch"]
      /\ UNCHANGED <<stop, runs, completed, answered>>
  BY Zenon DEF JobHandled, Goto, historyVars, j
<1>3. Release(w, j, s)
  BY Zenon DEF j
<1>4. TypeOK'
  <2>1. /\ status' \in [JobId -> Status]
        /\ lock_owner' \in [JobId -> Worker \cup {NoWorker}]
        /\ locked_at' \in [JobId -> {"null", "fresh", "stale"}]
    <3>1. /\ status \in [JobId -> Status]
          /\ lock_owner \in [JobId -> Worker \cup {NoWorker}]
          /\ locked_at \in [JobId -> {"null", "fresh", "stale"}]
      BY Zenon DEF TypeOK, QueueTypeOK
    <3>2. s \in Status
      BY Zenon DEF Status
    <3> QED
      BY <1>1, <1>3, <3>1, <3>2 DEF Release
  <2>2. QueueTypeOK'
    BY <2>1, Zenon DEF TypeOK, QueueTypeOK
  <2>3. /\ pc' \in [Worker -> PC]
        /\ batch' \in [Worker -> SUBSET JobId]
        /\ current' \in [Worker -> JobId \cup {NoJob}]
    BY <1>1, <1>2, Zenon DEF TypeOK, PC
  <2>4. seen' \in [Worker -> [JobId -> Nat]]
    BY <1>1, <1>2, Zenon DEF TypeOK
  <2> QED
    BY <1>2, <2>2, <2>3, <2>4, Zenon DEF TypeOK
<1>5. RowsOK'
  <2> SUFFICES ASSUME NEW i \in JobId PROVE RowOK(i)'
    BY Zenon DEF RowsOK
  <2>1. RowOK(i)
    BY Zenon DEF RowsOK
  <2>2. CASE i # j
    <3>1. rowlock[i] # NoWorker => pc'[rowlock[i]] = "claiming" /\ i \in batch'[rowlock[i]]
      BY <1>1, <1>2, <2>1, <2>2, Zenon DEF RowOK, TypeOK, QueueTypeOK, Handling
    <3>2. /\ status'[i] = status[i] /\ lock_owner'[i] = lock_owner[i]
          /\ locked_at'[i] = locked_at[i]
      BY <1>1, <1>3, <2>2 DEF TypeOK, QueueTypeOK, Release
    <3>3. /\ attempts' = attempts /\ rowlock' = rowlock /\ runs' = runs
          /\ completed' = completed
      BY <1>2, Zenon
    <3> QED
      BY <2>1, <3>1, <3>2, <3>3, Zenon DEF RowOK
  <2>3. CASE i = j
    <3>1. rowlock[j] = NoWorker
      BY <1>1, <2>1, <2>3, Zenon DEF RowOK, Leased, OwnedBy
    <3>2. seen[w][j] = attempts[j] /\ attempts[j] <= MaxAttempts /\ attempts[j] \in Nat
      BY <1>1, <2>1, <2>3, Zenon DEF RowOK, Leased, TypeOK, QueueTypeOK
    <3>3. CASE OwnedBy(w, j)
      <4>1. status'[j] = s /\ lock_owner'[j] = NoWorker /\ locked_at'[j] = "null"
        BY <1>1, <1>3, <3>3 DEF Release, TypeOK, QueueTypeOK
      <4>2. CASE s = "done"
        BY <1>1, <1>2, <2>1, <2>3, <3>1, <4>1, <4>2, ZenonT(40) DEF RowOK
      <4>3. CASE s = "pending"
        BY <1>2, <2>1, <2>3, <3>1, <3>2, <4>1, <4>3, SMTT(30) DEF RowOK, Exhausted, j
      <4>4. CASE s = "dead"
        <5>1. attempts[j] = MaxAttempts /\ j \in dead_letters'
          BY <3>2, <4>4 DEF Exhausted, j
        <5>2. attempts' = attempts /\ rowlock' = rowlock /\ runs' = runs
          BY <1>2, Zenon
        <5> QED
          BY <2>1, <2>3, <3>1, <4>1, <4>4, <5>1, <5>2, ZenonT(40) DEF RowOK
      <4> QED
        BY <4>2, <4>3, <4>4, Zenon
    <3>4. CASE ~OwnedBy(w, j)
      BY <1>1, <1>2, <1>3, <2>1, <2>3, <3>1, <3>4, Zenon
         DEF RowOK, TypeOK, QueueTypeOK, Release
    <3> QED
      BY <3>3, <3>4, Zenon
  <2> QED
    BY <2>2, <2>3, Zenon
<1>6. LoopsOK'
  <2> SUFFICES ASSUME NEW v \in Worker PROVE LoopOK(v)'
    BY Zenon DEF LoopsOK
  <2>1. LoopOK(v) /\ LoopOK(w)
    BY Zenon DEF LoopsOK
  <2>2. CASE v = w
    <3>1. /\ pc'[w] \in {"polling", "batch"} /\ current'[w] = NoJob
          /\ batch'[w] = batch[w] \ {j}
          /\ pc'[w] = "polling" => batch'[w] = {}
      BY <1>1, <1>2, Zenon DEF TypeOK
    <3>2. ASSUME NEW i \in batch'[w] PROVE Leased(w, i)'
      <4>1. i \in JobId /\ i # j /\ Leased(w, i)
        BY <1>1, <2>1, <3>1, Zenon DEF LoopOK, TypeOK
      <4>2. status'[i] = status[i] /\ lock_owner'[i] = lock_owner[i]
        BY <1>1, <1>3, <4>1, ZenonT(40) DEF Release, TypeOK, QueueTypeOK
      <4>3. seen'[w][i] = seen[w][i]
        BY <1>1, <1>2, <4>1, Zenon DEF TypeOK
      <4>4. OwnedBy(w, i) /\ runs[i] < attempts[i]
        BY <4>1, Zenon DEF Leased, j
      <4> QED
        BY <1>2, <4>1, <4>2, <4>3, <4>4, Zenon DEF Leased, OwnedBy
    <3> QED
      BY <2>2, <3>1, <3>2, Zenon DEF LoopOK, Handling, Ended
  <2>3. CASE v # w
    <3>1. /\ pc'[v] = pc[v] /\ batch'[v] = batch[v] /\ current'[v] = current[v]
          /\ seen'[v] = seen[v]
      BY <1>1, <1>2, <2>3, Zenon DEF TypeOK
    <3>2. ASSUME NEW i \in batch[v], Leased(v, i) PROVE Leased(v, i)'
      <4>1. i \in JobId
        BY ZenonT(40) DEF TypeOK
      <4>2. status'[i] = status[i] /\ lock_owner'[i] = lock_owner[i]
        BY <1>1, <1>3, <2>3, <3>2, <4>1, SMTT(30) DEF Release, OwnedBy, Leased, TypeOK, QueueTypeOK
      <4> QED
        BY <1>2, <3>1, <3>2, <4>1, <4>2, Zenon DEF Leased, OwnedBy
    <3>3. completed' = completed /\ rowlock' = rowlock
      BY <1>2, Zenon
    <3>4. pc[v] = "claiming" => \A i \in batch[v] : rowlock'[i] = v
      BY <2>1, <3>3, Zenon DEF LoopOK
    <3> QED
      BY <2>1, <3>1, <3>2, <3>3, <3>4, LoopKept, Zenon
  <2> QED
    BY <2>2, <2>3, Zenon
<1>7. KeysOK'
  <2>1. \A i \in JobId : status'[i] = "absent" <=> status[i] = "absent"
    BY <1>1, <1>3 DEF Release, OwnedBy, TypeOK, QueueTypeOK
  <2>2. UNCHANGED <<dedupe_key, answered>>
    BY <1>2, Zenon
  <2> QED
    BY <2>1, <2>2, KeysKept, ZenonT(40)
<1> QED
  BY <1>4, <1>5, <1>6, <1>7, Zenon

(* ack marks the current job done and lets go of it. *)
LEMMA AckStep == ASSUME IInv, NEW w \in Worker, Ack(w) PROVE IInv'
<1>1. dead_letters' \in SUBSET JobId /\ dead_letters \subseteq dead_letters'
  BY Zenon DEF IInv, TypeOK, QueueTypeOK, Ack, ack
<1> QED
  BY <1>1, JobHandledStep, Zenon DEF Ack, ack

(* retry gives the current job back with attempts left. *)
LEMMA RetryStep == ASSUME IInv, NEW w \in Worker, Retry(w) PROVE IInv'
<1>1. dead_letters' \in SUBSET JobId /\ dead_letters \subseteq dead_letters'
  BY Zenon DEF IInv, TypeOK, QueueTypeOK, Retry, retry
<1> QED
  BY <1>1, JobHandledStep, Zenon DEF Retry, retry

(* move_to_dead_letter records the exhausted job and marks it dead. *)
LEMMA MoveToDeadLetterStep ==
  ASSUME IInv, NEW w \in Worker, MoveToDeadLetter(w) PROVE IInv'
<1>1. pc[w] = "failing" /\ current[w] \in JobId
  BY Zenon DEF IInv, TypeOK, LoopsOK, LoopOK, Handling, MoveToDeadLetter
<1>2. /\ dead_letters' \in SUBSET JobId /\ dead_letters \subseteq dead_letters'
      /\ current[w] \in dead_letters'
  BY <1>1, Zenon DEF IInv, TypeOK, QueueTypeOK, MoveToDeadLetter, move_to_dead_letter
<1> QED
  BY <1>1, <1>2, JobHandledStep, Zenon DEF MoveToDeadLetter, move_to_dead_letter

-----------------------------------------------------------------------------
(* The steps of a loop that leave the table alone and stay in the batch. *)
LEMMA LocalStep ==
  ASSUME IInv, NEW w \in Worker,
         \/ StartLoop(w) \/ ProcessReturns(w) \/ ProcessRaises(w)
         \/ AckRaises(w) \/ StopSignal(w)
  PROVE  IInv'
<1> USE QueueAssumption, NoJobAssumption DEF IInv
<1>1. /\ UNCHANGED <<queueVars, batch, current, seen, runs, answered>>
      /\ \/ pc[w] = "new" /\ pc' = [pc EXCEPT ![w] = "polling"]
            /\ UNCHANGED <<stop, completed>>
         \/ /\ pc[w] = "processing" /\ pc' = [pc EXCEPT ![w] = "acking"]
            /\ completed' = completed \cup {current[w]} /\ UNCHANGED stop
         \/ /\ pc[w] \in {"processing", "acking"}
            /\ pc' = [pc EXCEPT ![w] = "failing"] /\ UNCHANGED <<stop, completed>>
         \/ stop' = [stop EXCEPT ![w] = TRUE] /\ UNCHANGED <<pc, completed>>
  BY Zenon DEF StartLoop, ProcessReturns, ProcessRaises, AckRaises, StopSignal, Goto,
         historyVars
<1>2. pc[w] = "processing" => current[w] \in JobId
  BY Zenon DEF TypeOK, LoopsOK, LoopOK, Handling
<1>3. TypeOK'
  <2>1. pc' \in [Worker -> PC] /\ stop' \in [Worker -> BOOLEAN]
    BY <1>1, Zenon DEF TypeOK, PC, Handling
  <2>2. completed' \in SUBSET JobId
    BY <1>1, <1>2, Zenon DEF TypeOK
  <2> QED
    BY <1>1, <2>1, <2>2, Zenon DEF TypeOK, QueueTypeOK, queueVars
<1>4. RowsOK'
  <2> SUFFICES ASSUME NEW i \in JobId PROVE RowOK(i)'
    BY Zenon DEF RowsOK
  <2>1. RowOK(i) /\ rowlock[i] \in Worker \cup {NoWorker}
    BY Zenon DEF RowsOK, TypeOK, QueueTypeOK
  <2>2. pc[w] # "claiming" \/ pc' = pc
    BY <1>1, Zenon
  <2>3. \A v \in Worker : pc[v] = "claiming" => pc'[v] = "claiming"
    BY <1>1, <2>2, Zenon DEF TypeOK
  <2> QED
    BY <1>1, <2>1, <2>3, Zenon DEF RowOK, queueVars
<1>5. LoopsOK'
  <2> SUFFICES ASSUME NEW v \in Worker PROVE LoopOK(v)'
    BY Zenon DEF LoopsOK
  <2>1. LoopOK(v)
    BY Zenon DEF LoopsOK
  <2>2. \A i \in JobId : Leased(v, i) => Leased(v, i)'
    BY <1>1, ZenonT(40) DEF Leased, OwnedBy, queueVars, TypeOK
  <2>3. batch[v] \subseteq JobId
    BY Zenon DEF TypeOK
  <2>4. CASE v # w \/ pc' = pc
    <3>1. /\ pc'[v] = pc[v] /\ completed \subseteq completed'
          /\ batch' = batch /\ current' = current /\ rowlock' = rowlock
      BY <1>1, <2>4, Zenon DEF TypeOK, queueVars
    <3>2. pc[v] = "claiming" => \A i \in batch[v] : rowlock'[i] = v
      BY <2>1, <3>1, Zenon DEF LoopOK
    <3> QED
      BY <2>1, <2>2, <2>3, <3>1, <3>2, LoopKept, Zenon
  <2>5. CASE v = w /\ pc' # pc
    <3>1. /\ batch' = batch /\ current' = current
          /\ \/ pc[v] = "new" /\ pc'[v] = "polling"
             \/ /\ pc[v] = "processing" /\ pc'[v] = "acking"
                /\ current[v] \in completed'
             \/ pc[v] \in {"processing", "acking"} /\ pc'[v] = "failing"
      BY <1>1, <2>5, Zenon DEF TypeOK
    <3> QED
      BY <2>1, <2>2, <2>3, <3>1, Zenon DEF LoopOK, Handling, Ended
  <2> QED
    BY <2>4, <2>5, Zenon
<1>6. KeysOK'
  BY <1>1, Zenon DEF KeysOK, RowsWithKey, queueVars
<1> QED
  BY <1>3, <1>4, <1>5, <1>6, Zenon

(* The for loop takes one leased job of its batch and counts a call. *)
LEMMA BeginJobStep ==
  ASSUME IInv, NEW w \in Worker, NEW j \in JobId, BeginJob(w, j) PROVE IInv'
<1> USE QueueAssumption, NoJobAssumption DEF IInv
<1>1. /\ pc[w] = "batch" /\ j \in batch[w]
      /\ UNCHANGED <<queueVars, stop, batch, seen, completed, answered>>
      /\ current' = [current EXCEPT ![w] = j]
      /\ runs' = [runs EXCEPT ![j] = runs[j] + 1]
      /\ pc' = [pc EXCEPT ![w] = "processing"]
  BY Zenon DEF BeginJob, Goto
<1>2. LoopOK(w) /\ Leased(w, j) /\ OwnedBy(w, j) /\ current[w] = NoJob
  BY <1>1, Zenon DEF LoopsOK, LoopOK, Handling, Leased
<1>3. runs[j] < attempts[j]
  BY <1>2, Zenon DEF Leased
<1>4. TypeOK'
  <2>1. /\ pc' \in [Worker -> PC] /\ current' \in [Worker -> JobId \cup {NoJob}]
        /\ runs' \in [JobId -> Nat]
    BY <1>1 DEF TypeOK, PC, Handling
  <2> QED
    BY <1>1, <2>1, Zenon DEF TypeOK, QueueTypeOK, queueVars
<1>5. RowsOK'
  <2> SUFFICES ASSUME NEW i \in JobId PROVE RowOK(i)'
    BY Zenon DEF RowsOK
  <2>1. /\ RowOK(i) /\ rowlock[i] \in Worker \cup {NoWorker}
        /\ attempts[i] \in Nat /\ runs[i] \in Nat
    BY Zenon DEF RowsOK, TypeOK, QueueTypeOK
  <2>2. \A v \in Worker : pc[v] = "claiming" => pc'[v] = "claiming"
    BY <1>1, Zenon DEF TypeOK
  <2>3. runs'[i] <= attempts[i]
    BY <1>1, <1>3, <2>1 DEF RowOK, TypeOK
  <2> QED
    BY <1>1, <2>1, <2>2, <2>3, Zenon DEF RowOK, queueVars
<1>6. LoopsOK'
  <2> SUFFICES ASSUME NEW v \in Worker PROVE LoopOK(v)'
    BY Zenon DEF LoopsOK
  <2>1. LoopOK(v) /\ batch[v] \subseteq JobId
    BY Zenon DEF LoopsOK, TypeOK
  <2>2. CASE v = w
    <3>1. pc'[w] = "processing" /\ current'[w] = j
      BY <1>1, Zenon DEF TypeOK
    <3>2. ASSUME NEW i \in batch[w] PROVE Leased(w, i)'
      <4>1. i \in JobId /\ Leased(w, i) /\ OwnedBy(w, i)
        BY <1>1, <1>2, <2>1, <2>2, Zenon DEF LoopOK, Leased
      <4>2. i # j => runs'[i] = runs[i] /\ i # current[w]
        BY <1>1, <1>2, <4>1, Zenon DEF TypeOK
      <4> QED
        BY <1>1, <3>1, <4>1, <4>2, Zenon DEF Leased, OwnedBy, queueVars
    <3> QED
      BY <1>1, <2>2, <3>1, <3>2, Zenon DEF LoopOK, Handling, Ended
  <2>3. CASE v # w
    <3>1. pc'[v] = pc[v] /\ current'[v] = current[v]
      BY <1>1, <2>3, Zenon DEF TypeOK
    <3>2. ASSUME NEW i \in batch[v], Leased(v, i), pc[v] \in Handling \cup {"batch"}
          PROVE  Leased(v, i)'
      <4>1. i # j
        BY <1>2, <2>3, <3>2, Zenon DEF Leased, OwnedBy
      <4>2. i \in JobId /\ runs'[i] = runs[i]
        BY <1>1, <2>1, <4>1, Zenon DEF TypeOK
      <4> QED
        BY <1>1, <3>1, <3>2, <4>2, Zenon DEF Leased, OwnedBy, queueVars
    <3>3. batch' = batch /\ completed' = completed /\ rowlock' = rowlock
      BY <1>1, Zenon DEF queueVars
    <3>4. pc[v] = "claiming" => \A i \in batch[v] : rowlock'[i] = v
      BY <2>1, <3>3, Zenon DEF LoopOK
    <3> QED
      BY <2>1, <3>1, <3>2, <3>3, <3>4, LoopKept, Zenon
  <2> QED
    BY <2>2, <2>3, Zenon
<1>7. KeysOK'
  BY <1>1, ZenonT(40) DEF KeysOK, RowsWithKey, queueVars
<1> QED
  BY <1>4, <1>5, <1>6, <1>7, Zenon

(* An ack that is committed and reported as failed leaves the job done and *)
(* its loop in the except branch.                                          *)
LEMMA AckReplyLostStep ==
  ASSUME IInv, NEW w \in Worker, AckReplyLost(w) PROVE IInv'
<1> DEFINE j == current[w]
<1> USE QueueAssumption, NoJobAssumption DEF IInv
<1>1. /\ pc[w] = "acking" /\ j \in JobId /\ j \in batch[w] /\ j \in completed
      /\ Leased(w, j) /\ OwnedBy(w, j)
  BY Zenon DEF LoopsOK, LoopOK, Handling, TypeOK, Leased, AckReplyLost
<1> HIDE DEF j
<1>2. /\ status' = [status EXCEPT ![j] = "done"]
      /\ lock_owner' = [lock_owner EXCEPT ![j] = NoWorker]
      /\ locked_at' = [locked_at EXCEPT ![j] = "null"]
      /\ pc' = [pc EXCEPT ![w] = "failing"]
      /\ UNCHANGED <<attempts, dedupe_key, due, before, rowlock, dead_letters>>
      /\ UNCHANGED <<stop, batch, current, seen, runs, completed, answered>>
  BY <1>1, Zenon DEF AckReplyLost, ack, Release, Goto, historyVars, j
<1>3. TypeOK'
  <2>1. /\ status' \in [JobId -> Status]
        /\ lock_owner' \in [JobId -> Worker \cup {NoWorker}]
        /\ locked_at' \in [JobId -> {"null", "fresh", "stale"}]
    <3>1. /\ status \in [JobId -> Status]
          /\ lock_owner \in [JobId -> Worker \cup {NoWorker}]
          /\ locked_at \in [JobId -> {"null", "fresh", "stale"}]
      BY Zenon DEF TypeOK, QueueTypeOK
    <3> QED
      BY <1>1, <1>2, <3>1, Zenon DEF Status
  <2>2. pc' \in [Worker -> PC]
    BY <1>2, Zenon DEF TypeOK, PC, Handling
  <2> QED
    BY <1>2, <2>1, <2>2, Zenon DEF TypeOK, QueueTypeOK
<1>4. RowsOK'
  <2> SUFFICES ASSUME NEW i \in JobId PROVE RowOK(i)'
    BY Zenon DEF RowsOK
  <2>1. /\ RowOK(i) /\ rowlock[i] \in Worker \cup {NoWorker}
        /\ i = j => rowlock[i] = NoWorker
    BY <1>1, Zenon DEF RowsOK, RowOK, OwnedBy, TypeOK, QueueTypeOK
  <2>2. \A v \in Worker : pc[v] = "claiming" => pc'[v] = "claiming"
    BY <1>1, <1>2, Zenon DEF TypeOK
  <2>3. /\ i = j => status'[i] = "done" /\ lock_owner'[i] = NoWorker /\ locked_at'[i] = "null"
        /\ i # j => status'[i] = status[i] /\ lock_owner'[i] = lock_owner[i]
                     /\ locked_at'[i] = locked_at[i]
    BY <1>1, <1>2, ZenonT(40) DEF TypeOK, QueueTypeOK
  <2> QED
    BY <1>1, <1>2, <2>1, <2>2, <2>3, Zenon DEF RowOK
<1>5. LoopsOK'
  <2> SUFFICES ASSUME NEW v \in Worker PROVE LoopOK(v)'
    BY Zenon DEF LoopsOK
  <2>1. LoopOK(v) /\ batch[v] \subseteq JobId
    BY Zenon DEF LoopsOK, TypeOK
  <2>2. /\ v = w => pc'[v] = "failing"
        /\ v # w => pc'[v] = pc[v]
    BY <1>2, Zenon DEF TypeOK
  <2>3. ASSUME NEW i \in batch[v], Leased(v, i), pc[v] \in Handling \cup {"batch"}
        PROVE  Leased(v, i)'
    <3>1. i \in JobId
      BY <2>1, Zenon
    <3>2. /\ i = j => status'[i] = "done"
          /\ i # j => status'[i] = status[i] /\ lock_owner'[i] = lock_owner[i]
      BY <1>1, <1>2, <3>1, Zenon DEF TypeOK, QueueTypeOK
    <3>3. i = j => v = w
      BY <1>1, <2>3, Zenon DEF Leased, OwnedBy
    <3> QED
      BY <1>1, <1>2, <2>2, <2>3, <3>1, <3>2, <3>3, Zenon DEF Leased, OwnedBy, j
  <2> QED
    BY <1>1, <1>2, <2>1, <2>2, <2>3, Zenon DEF LoopOK, Handling, Ended, j
<1>6. KeysOK'
  <2>1. \A i \in JobId : status'[i] = "absent" <=> status[i] = "absent"
    BY <1>1, <1>2, Zenon DEF OwnedBy, TypeOK, QueueTypeOK
  <2>2. UNCHANGED <<dedupe_key, answered>>
    BY <1>2, Zenon
  <2> QED
    BY <2>1, <2>2, KeysKept, Zenon
<1> QED
  BY <1>3, <1>4, <1>5, <1>6, Zenon


(* The SELECT of claim_jobs only takes row locks on unlocked pending rows. *)
LEMMA ClaimSelectStep ==
  ASSUME IInv, NEW w \in Worker, NEW S \in SUBSET JobId, ClaimSelect(w, S)
  PROVE  IInv'
<1> USE QueueAssumption, NoJobAssumption DEF IInv
<1>1. /\ pc[w] = "polling"
      /\ \A j \in S : status[j] = "pending" /\ rowlock[j] = NoWorker
      /\ rowlock' = [j \in JobId |-> IF j \in S THEN w ELSE rowlock[j]]
      /\ batch' = [batch EXCEPT ![w] = S]
      /\ pc' = [pc EXCEPT ![w] = "claiming"]
      /\ UNCHANGED <<status, attempts, lock_owner, locked_at, dedupe_key, due,
                     before, dead_letters>>
      /\ UNCHANGED <<stop, current, seen, runs, completed, answered>>
  BY Zenon DEF ClaimSelect, claim_select, Claimable, Goto, historyVars
<1>2. TypeOK'
  <2>1. /\ rowlock' \in [JobId -> Worker \cup {NoWorker}]
        /\ pc' \in [Worker -> PC] /\ batch' \in [Worker -> SUBSET JobId]
    BY <1>1, Zenon DEF TypeOK, QueueTypeOK, PC
  <2> QED
    BY <1>1, <2>1, Zenon DEF TypeOK, QueueTypeOK
<1>3. RowsOK'
  <2> SUFFICES ASSUME NEW i \in JobId PROVE RowOK(i)'
    BY Zenon DEF RowsOK
  <2>1. RowOK(i) /\ rowlock[i] \in Worker \cup {NoWorker}
    BY Zenon DEF RowsOK, TypeOK, QueueTypeOK
  <2>2. rowlock'[i] # NoWorker =>
            /\ status'[i] = "pending"
            /\ pc'[rowlock'[i]] = "claiming"
            /\ i \in batch'[rowlock'[i]]
    BY <1>1, <2>1, Zenon DEF RowOK, TypeOK
  <2> QED
    BY <1>1, <2>1, <2>2, Zenon DEF RowOK
<1>4. LoopsOK'
  <2> SUFFICES ASSUME NEW v \in Worker PROVE LoopOK(v)'
    BY Zenon DEF LoopsOK
  <2>1. LoopOK(v) /\ batch[v] \subseteq JobId
    BY Zenon DEF LoopsOK, TypeOK
  <2>2. CASE v = w
    BY <1>1, <2>1, <2>2, Zenon DEF LoopOK, TypeOK, Handling, Ended
  <2>3. CASE v # w
    <3>1. pc'[v] = pc[v] /\ batch'[v] = batch[v]
      BY <1>1, <2>3, Zenon DEF TypeOK
    <3>2. \A i \in JobId : Leased(v, i) => Leased(v, i)'
      BY <1>1, <3>1, Zenon DEF Leased, OwnedBy
    <3>3. pc[v] = "claiming" => \A i \in batch[v] : rowlock'[i] = v
      BY <1>1, <2>1, ZenonT(40) DEF LoopOK
    <3> QED
      BY <1>1, <2>1, <3>1, <3>2, <3>3, LoopKept, Zenon
  <2> QED
    BY <2>2, <2>3, Zenon
<1>5. KeysOK'
  BY <1>1, KeysKept, Zenon
<1> QED
  BY <1>2, <1>3, <1>4, <1>5, Zenon

(* The commit of claim_jobs turns the row locks of w into leases.          *)
LEMMA ClaimCommitStep == ASSUME IInv, NEW w \in Worker, ClaimCommit(w) PROVE IInv'
<1> DEFINE S == batch[w]
<1> USE QueueAssumption, NoJobAssumption DEF IInv
<1>1. /\ pc[w] = "claiming" /\ S \in SUBSET JobId
      /\ \A j \in S : /\ rowlock[j] = w /\ status[j] = "pending"
                      /\ attempts[j] \in Nat /\ runs[j] \in Nat
                      /\ attempts[j] < MaxAttempts /\ runs[j] <= attempts[j]
  <2>1. pc[w] = "claiming" /\ S \in SUBSET JobId /\ LoopOK(w)
    BY Zenon DEF LoopsOK, TypeOK, ClaimCommit
  <2>2. \A j \in JobId : RowOK(j) /\ attempts[j] \in Nat /\ runs[j] \in Nat
    BY Zenon DEF RowsOK, TypeOK, QueueTypeOK
  <2>3. \A j \in S : rowlock[j] = w /\ w # NoWorker
    BY <2>1, Zenon DEF LoopOK
  <2> HIDE DEF S
  <2> QED
    BY <2>1, <2>2, <2>3, Zenon DEF RowOK
<1> HIDE DEF S
<1>2. /\ status' = [j \in JobId |-> IF j \in S THEN "processing" ELSE status[j]]
      /\ lock_owner' = [j \in JobId |-> IF j \in S THEN w ELSE lock_owner[j]]
      /\ locked_at' = [j \in JobId |-> IF j \in S THEN "fresh" ELSE locked_at[j]]
      /\ attempts' = [j \in JobId |-> IF j \in S THEN attempts[j] + 1 ELSE attempts[j]]
      /\ rowlock' = [j \in JobId |-> IF j \in S THEN NoWorker ELSE rowlock[j]]
      /\ LeaveDue(S)
      /\ seen' = [seen EXCEPT ![w] =
                     [j \in JobId |-> IF j \in S THEN attempts[j] + 1 ELSE 0]]
      /\ pc' = [pc EXCEPT ![w] = "batch"]
      /\ UNCHANGED <<dedupe_key, dead_letters>>
      /\ UNCHANGED <<stop, batch, current, runs, completed, answered>>
  BY Zenon DEF ClaimCommit, claim_commit, Goto, historyVars, S
<1>3. TypeOK'
  <2>1. /\ status' \in [JobId -> Status]
        /\ lock_owner' \in [JobId -> Worker \cup {NoWorker}]
        /\ locked_at' \in [JobId -> {"null", "fresh", "stale"}]
        /\ attempts' \in [JobId -> Nat]
        /\ rowlock' \in [JobId -> Worker \cup {NoWorker}]
    <3>1. /\ status \in [JobId -> Status]
          /\ lock_owner \in [JobId -> Worker \cup {NoWorker}]
          /\ locked_at \in [JobId -> {"null", "fresh", "stale"}]
          /\ attempts \in [JobId -> Nat]
          /\ rowlock \in [JobId -> Worker \cup {NoWorker}]
      BY Zenon DEF TypeOK, QueueTypeOK
    <3> QED
      BY <1>2, <3>1 DEF Status
  <2>2. due' \in SUBSET JobId /\ before' \in SUBSET (JobId \X JobId)
    BY <1>2, Zenon DEF LeaveDue, TypeOK, QueueTypeOK
  <2>3. pc' \in [Worker -> PC] /\ seen' \in [Worker -> [JobId -> Nat]]
    <3>1. [j \in JobId |-> IF j \in S THEN attempts[j] + 1 ELSE 0] \in [JobId -> Nat]
      BY <1>1
    <3>2. pc \in [Worker -> PC] /\ seen \in [Worker -> [JobId -> Nat]]
      BY Zenon DEF TypeOK
    <3> QED
      BY <1>2, <3>1, <3>2, Zenon DEF PC
  <2> QED
    BY <1>2, <2>1, <2>2, <2>3, Zenon DEF TypeOK, QueueTypeOK
<1>4. RowsOK'
  <2> SUFFICES ASSUME NEW i \in JobId PROVE RowOK(i)'
    BY Zenon DEF RowsOK
  <2>1. /\ RowOK(i) /\ rowlock[i] \in Worker \cup {NoWorker}
        /\ attempts[i] \in Nat /\ runs[i] \in Nat
    BY Zenon DEF RowsOK, TypeOK, QueueTypeOK
  <2>2. CASE i \in S
    <3>1. /\ status'[i] = "processing" /\ lock_owner'[i] = w /\ locked_at'[i] = "fresh"
          /\ attempts'[i] = attempts[i] + 1 /\ rowlock'[i] = NoWorker /\ runs' = runs
      BY <1>2, <2>2, Zenon
    <3>2. attempts[i] < MaxAttempts /\ runs[i] <= attempts[i] /\ w # NoWorker
      BY <1>1, <2>2, Zenon
    <3> QED
      BY <2>1, <3>1, <3>2 DEF RowOK
  <2>3. CASE i \notin S
    <3>1. rowlock[i] # w
      BY <2>1, <2>3, Zenon DEF RowOK, S
    <3>2. rowlock[i] # NoWorker => pc'[rowlock[i]] = "claiming"
      BY <1>2, <2>1, <3>1, Zenon DEF RowOK, TypeOK
    <3> QED
      BY <1>2, <2>1, <2>3, <3>2, Zenon DEF RowOK
  <2> QED
    BY <2>2, <2>3, Zenon
<1>5. LoopsOK'
  <2> SUFFICES ASSUME NEW v \in Worker PROVE LoopOK(v)'
    BY Zenon DEF LoopsOK
  <2>1. LoopOK(v) /\ batch[v] \subseteq JobId
    BY Zenon DEF LoopsOK, TypeOK
  <2>2. CASE v = w
    <3>1. pc'[w] = "batch" /\ batch'[w] = S /\ current'[w] = NoJob
      BY <1>1, <1>2, <2>1, <2>2, Zenon DEF LoopOK, TypeOK, Handling, S
    <3>2. ASSUME NEW i \in S PROVE Leased(w, i)'
      <4>1. i \in JobId /\ seen'[w][i] = attempts[i] + 1
        BY <1>1, <1>2, Zenon DEF TypeOK
      <4>2. /\ status'[i] = "processing" /\ lock_owner'[i] = w
            /\ attempts'[i] = attempts[i] + 1 /\ runs' = runs
        BY <1>2, <4>1, Zenon
      <4>3. attempts[i] \in Nat /\ runs[i] \in Nat /\ runs[i] <= attempts[i]
        BY <1>1, Zenon
      <4> QED
        BY <4>1, <4>2, <4>3 DEF Leased, OwnedBy
    <3> QED
      BY <2>2, <3>1, <3>2, Zenon DEF LoopOK, Handling, Ended
  <2>3. CASE v # w
    <3>1. pc'[v] = pc[v] /\ seen'[v] = seen[v]
      BY <1>2, <2>3, Zenon DEF TypeOK
    <3>2. ASSUME NEW i \in batch[v], pc[v] \in Handling \cup {"batch"}
          PROVE  Leased(v, i)'
      <4>1. i \in JobId /\ Leased(v, i)
        BY <2>1, <3>2, Zenon DEF LoopOK
      <4>2. i \notin S
        BY <1>1, <4>1, Zenon DEF Leased, OwnedBy
      <4> QED
        BY <1>2, <3>1, <4>1, <4>2, Zenon DEF Leased, OwnedBy
    <3>3. pc[v] = "claiming" => \A i \in batch[v] : rowlock'[i] = v
      BY <1>1, <1>2, <2>1, <2>3, Zenon DEF LoopOK
    <3> QED
      BY <1>2, <2>1, <3>1, <3>2, <3>3, LoopKept, Zenon
  <2> QED
    BY <2>2, <2>3, Zenon
<1>6. KeysOK'
  <2>1. \A i \in JobId : status'[i] = "absent" <=> status[i] = "absent"
    BY <1>1, <1>2, Zenon
  <2>2. UNCHANGED <<dedupe_key, answered>>
    BY <1>2, Zenon
  <2> QED
    BY <2>1, <2>2, KeysKept, Zenon
<1> QED
  BY <1>3, <1>4, <1>5, <1>6, Zenon

(* A loop that ends (_run_queue_worker_loop returns, raises or is killed)   *)
(* only drops its own batch and its own row locks.                         *)
LEMMA LoopEndsStep ==
  ASSUME IInv, NEW w \in Worker, DeadLetterRaises(w) \/ Exit(w) \/ Crash(w)
  PROVE  IInv'
<1> USE QueueAssumption, NoJobAssumption DEF IInv
<1>1. /\ pc' \in [Worker -> PC] /\ pc'[w] \in Ended
      /\ \A v \in Worker \ {w} : pc'[v] = pc[v]
  BY ZenonT(40) DEF DeadLetterRaises, Exit, Crash, LoopEnds, Goto, TypeOK, PC, Ended
<1>2. /\ batch' = [batch EXCEPT ![w] = {}]
      /\ current' = [current EXCEPT ![w] = NoJob]
      /\ seen' = [seen EXCEPT ![w] = [j \in JobId |-> 0]]
      /\ UNCHANGED <<stop, runs, completed, answered>>
      /\ UNCHANGED <<status, attempts, lock_owner, locked_at, dedupe_key, due,
                     before, dead_letters>>
  BY Zenon DEF DeadLetterRaises, Exit, Crash, LoopEnds, historyVars, queueVars,
         claim_rollback
<1>3. rowlock' = [j \in JobId |-> IF rowlock[j] = w THEN NoWorker ELSE rowlock[j]]
  <2>1. CASE Crash(w)
    BY <2>1, Zenon DEF Crash, claim_rollback
  <2>2. CASE DeadLetterRaises(w) \/ Exit(w)
    <3>1. pc[w] # "claiming" /\ rowlock' = rowlock
      BY <2>2, Zenon DEF DeadLetterRaises, Exit, queueVars
    <3>2. \A j \in JobId : rowlock[j] # w
      BY <3>1, Zenon DEF RowsOK, RowOK
    <3> QED
      BY <3>1, <3>2, Zenon DEF TypeOK, QueueTypeOK
  <2> QED
    BY <2>1, <2>2, Zenon
<1>4. TypeOK'
  <2>1. /\ rowlock' \in [JobId -> Worker \cup {NoWorker}]
        /\ batch' \in [Worker -> SUBSET JobId]
        /\ current' \in [Worker -> JobId \cup {NoJob}]
        /\ seen' \in [Worker -> [JobId -> Nat]]
    BY <1>2, <1>3, Zenon DEF TypeOK, QueueTypeOK
  <2> QED
    BY <1>1, <1>2, <2>1, Zenon DEF TypeOK, QueueTypeOK
<1>5. RowsOK'
  <2> SUFFICES ASSUME NEW i \in JobId PROVE RowOK(i)'
    BY Zenon DEF RowsOK
  <2>1. RowOK(i) /\ rowlock[i] \in Worker \cup {NoWorker}
    BY Zenon DEF RowsOK, TypeOK, QueueTypeOK
  <2>2. rowlock'[i] # NoWorker => /\ rowlock'[i] = rowlock[i]
                                 /\ pc'[rowlock[i]] = pc[rowlock[i]]
                                 /\ batch'[rowlock[i]] = batch[rowlock[i]]
    BY <1>1, <1>2, <1>3, <2>1, Zenon DEF TypeOK
  <2> QED
    BY <1>2, <2>1, <2>2, Zenon DEF RowOK
<1>6. LoopsOK'
  <2> SUFFICES ASSUME NEW v \in Worker PROVE LoopOK(v)'
    BY Zenon DEF LoopsOK
  <2>1. LoopOK(v) /\ batch[v] \subseteq JobId
    BY Zenon DEF LoopsOK, TypeOK
  <2>2. CASE v = w
    BY <1>1, <1>2, <2>2, Zenon DEF LoopOK, TypeOK, Handling, Ended
  <2>3. CASE v # w
    <3>1. /\ pc'[v] = pc[v] /\ batch'[v] = batch[v]
          /\ current'[v] = current[v] /\ seen'[v] = seen[v]
      BY <1>1, <1>2, <2>3, Zenon DEF TypeOK
    <3>2. \A i \in JobId : Leased(v, i) => Leased(v, i)'
      BY <1>2, <3>1, Zenon DEF Leased, OwnedBy
    <3>3. pc[v] = "claiming" => \A i \in batch[v] : rowlock'[i] = v
      BY <1>3, <2>1, <2>3, Zenon DEF LoopOK
    <3> QED
      BY <1>2, <2>1, <3>1, <3>2, <3>3, LoopKept, Zenon
  <2> QED
    BY <2>2, <2>3, Zenon
<1>7. KeysOK'
  BY <1>2, KeysKept, Zenon
<1> QED
  BY <1>4, <1>5, <1>6, <1>7, Zenon

(* Time only moves a pending row into the due order or ages a lock: no     *)
(* status, owner or attempts column changes.                               *)
LEMMA TimePassesStep == ASSUME IInv, NEW j \in JobId, TimePasses(j) PROVE IInv'
<1> USE QueueAssumption, NoJobAssumption DEF IInv
<1>1. /\ UNCHANGED <<status, attempts, lock_owner, dedupe_key, rowlock, dead_letters>>
      /\ UNCHANGED <<pc, stop, batch, current, seen, runs, completed, answered>>
  BY Zenon DEF TimePasses, BecomesDue, LockAges, workerVars, historyVars
<1>2. /\ locked_at' \in [JobId -> {"null", "fresh", "stale"}]
      /\ \A i \in JobId : locked_at'[i] = "null" <=> locked_at[i] = "null"
  BY ZenonT(40) DEF TimePasses, BecomesDue, LockAges, TypeOK, QueueTypeOK
<1>3. due' \in SUBSET JobId /\ before' \in SUBSET (JobId \X JobId)
  <2>1. CASE GoesLast(j)
    BY <2>1, OrderType, Zenon
  <2>2. CASE UNCHANGED <<due, before>>
    BY <2>2, Zenon DEF TypeOK, QueueTypeOK
  <2> QED
    BY <2>1, <2>2, Zenon DEF TimePasses, BecomesDue, LockAges
<1>4. TypeOK'
  BY <1>1, <1>2, <1>3, Zenon DEF TypeOK, QueueTypeOK
<1>5. RowsOK'
  BY <1>1, <1>2, Zenon DEF RowsOK, RowOK
<1>6. LoopsOK'
  <2> SUFFICES ASSUME NEW v \in Worker PROVE LoopOK(v)'
    BY Zenon DEF LoopsOK
  <2>1. LoopOK(v)
    BY Zenon DEF LoopsOK
  <2>2. \A i \in batch[v] : Leased(v, i) => Leased(v, i)'
    BY <1>1, Zenon DEF Leased, OwnedBy
  <2>3. pc[v] = "claiming" => \A i \in batch[v] : rowlock'[i] = v
    BY <1>1, <2>1, Zenon DEF LoopOK
  <2> QED
    BY <1>1, <2>1, <2>2, <2>3, LoopKept, Zenon
<1>7. KeysOK'
  BY <1>1, KeysKept, Zenon
<1> QED
  BY <1>4, <1>5, <1>6, <1>7, Zenon

(* A step that changes nothing keeps the invariant. *)
LEMMA StutterStep == ASSUME IInv, UNCHANGED vars PROVE IInv'
<1>1. /\ UNCHANGED <<status, attempts, lock_owner, locked_at, dedupe_key, due,
                     before, rowlock, dead_letters>>
      /\ UNCHANGED <<pc, stop, batch, current, seen, runs, completed, answered>>
  BY Zenon DEF vars, queueVars, workerVars, historyVars
<1>2. TypeOK'
  BY <1>1, Zenon DEF IInv, TypeOK, QueueTypeOK
<1>3. RowsOK'
  BY <1>1, Zenon DEF IInv, RowsOK, RowOK
<1>4. LoopsOK'
  <2> SUFFICES ASSUME NEW v \in Worker PROVE LoopOK(v)'
    BY Zenon DEF LoopsOK
  <2>1. LoopOK(v)
    BY Zenon DEF IInv, LoopsOK
  <2>2. \A i \in batch[v] : Leased(v, i) => Leased(v, i)'
    BY <1>1, Zenon DEF Leased, OwnedBy
  <2>3. pc[v] = "claiming" => \A i \in batch[v] : rowlock'[i] = v
    BY <1>1, <2>1, Zenon DEF LoopOK
  <2> QED
    BY <1>1, <2>1, <2>2, <2>3, LoopKept, Zenon
<1>5. KeysOK'
  BY <1>1, KeysKept, Zenon DEF IInv
<1> QED
  BY <1>2, <1>3, <1>4, <1>5, Zenon DEF IInv

(* Every step of the producers, of the worker loops and of time keeps the  *)
(* inductive invariant.                                                    *)
LEMMA NextIInv == IInv /\ [Next]_vars => IInv'
<1> SUFFICES ASSUME IInv, [Next]_vars PROVE IInv'
  BY Zenon
<1>1. ASSUME NEW k \in Key \cup {NoKey}, NEW j \in JobId, Enqueue(k, j) PROVE IInv'
  BY <1>1, EnqueueStep, Zenon
<1>2. ASSUME NEW w \in Worker, LoopStep(w) PROVE IInv'
  <2>1. CASE \/ StartLoop(w) \/ ProcessReturns(w) \/ ProcessRaises(w) \/ AckRaises(w)
    BY <2>1, LocalStep, Zenon
  <2>2. CASE ClaimCommit(w)
    BY <2>2, ClaimCommitStep, Zenon
  <2>3. CASE Ack(w)
    BY <2>3, AckStep, ZenonT(40)
  <2>4. CASE AckReplyLost(w)
    BY <2>4, AckReplyLostStep, Zenon
  <2>5. CASE Retry(w)
    BY <2>5, RetryStep, Zenon
  <2>6. CASE MoveToDeadLetter(w)
    BY <2>6, MoveToDeadLetterStep, Zenon
  <2>7. CASE DeadLetterRaises(w) \/ Exit(w)
    BY <2>7, LoopEndsStep, Zenon
  <2>8. ASSUME NEW S \in SUBSET JobId, ClaimSelect(w, S) PROVE IInv'
    BY <2>8, ClaimSelectStep, Zenon
  <2>9. ASSUME NEW j \in JobId, BeginJob(w, j) PROVE IInv'
    BY <2>9, BeginJobStep, Zenon
  <2> QED
    BY <1>2, <2>1, <2>2, <2>3, <2>4, <2>5, <2>6, <2>7, <2>8, <2>9, ZenonT(40) DEF LoopStep
<1>3. ASSUME NEW w \in Worker, StopSignal(w) PROVE IInv'
  BY <1>3, LocalStep, Zenon
<1>4. ASSUME NEW w \in Worker, Crash(w) PROVE IInv'
  BY <1>4, LoopEndsStep, Zenon
<1>5. ASSUME NEW j \in JobId, TimePasses(j) PROVE IInv'
  BY <1>5, TimePassesStep, Zenon
<1>6. CASE UNCHANGED vars
  BY <1>6, StutterStep, Zenon
<1> QED
  BY <1>1, <1>2, <1>3, <1>4, <1>5, <1>6, Zenon DEF Next

-----------------------------------------------------------------------------
(* The inductive invariant holds in every reachable state of the queue and *)
(* its worker loops.                                                       *)
THEOREM Invariance == Spec => []IInv
  BY InitIInv, NextIInv, PTL DEF Spec

(* The columns of queue_jobs and the locals of every loop keep their types.*)
THEOREM TypeCorrect == Spec => []TypeOK
<1>1. IInv => TypeOK
  BY Zenon DEF IInv
<1> QED
  BY <1>1, Invariance, PTL

(* claim_jobs: what a loop still has in hand is locked by it in the table. *)
THEOREM BatchLeased == Spec => []BatchIsLeased
<1>1. IInv => BatchIsLeased
  BY Zenon DEF IInv, LoopsOK, LoopOK, Leased, BatchIsLeased
<1> QED
  BY <1>1, Invariance, PTL

(* max_attempts: _process_queue_job runs at most once per attempt and at   *)
(* most max_attempts times on a job, whatever crashes.                     *)
THEOREM BoundedExecutions == Spec => []ExecutionsBounded
<1>1. IInv => ExecutionsBounded
  BY Zenon DEF IInv, RowsOK, RowOK, ExecutionsBounded
<1> QED
  BY <1>1, Invariance, PTL

(* ack and move_to_dead_letter: "done" and "dead" say what happened.       *)
THEOREM EarnedOutcome == Spec => []OutcomeIsEarned
<1>1. IInv => OutcomeIsEarned
  BY Zenon DEF IInv, RowsOK, RowOK, OutcomeIsEarned
<1> QED
  BY <1>1, Invariance, PTL

-----------------------------------------------------------------------------
(* FOR UPDATE SKIP LOCKED: two loops never have the same job in hand.  A    *)
(* batch only grows in ClaimSelect, which takes rows no other loop holds.   *)
THEOREM DisjointClaims == Spec => []ClaimsDisjoint
<1>1. Init => ClaimsDisjoint
  BY Zenon DEF Init, ClaimsDisjoint
<1>2. ASSUME IInv, ClaimsDisjoint, [Next]_vars PROVE ClaimsDisjoint'
  <2>1. CASE \A w \in Worker : batch'[w] \subseteq batch[w]
    BY <1>2, <2>1, Zenon DEF ClaimsDisjoint
  <2>2. ASSUME NEW w \in Worker, NEW S \in SUBSET JobId, ClaimSelect(w, S)
        PROVE  ClaimsDisjoint'
    <3>1. ASSUME NEW v \in Worker, v # w, NEW j \in S PROVE j \notin batch[v]
      <4>1. status[j] = "pending" /\ rowlock[j] = NoWorker
        BY <2>2, Zenon DEF ClaimSelect, claim_select, Claimable
      <4>2. LoopOK(v) /\ pc[v] \in PC
        BY <1>2, Zenon DEF IInv, LoopsOK, TypeOK
      <4> QED
        BY <4>1, <4>2, QueueAssumption, Zenon DEF LoopOK, PC, Leased, OwnedBy
    <3>2. batch' = [batch EXCEPT ![w] = S]
      BY <2>2, Zenon DEF ClaimSelect
    <3> QED
      BY <1>2, <3>1, <3>2, Zenon DEF ClaimsDisjoint, IInv, TypeOK
  <2>3. ASSUME NEW w \in Worker, JobHandled(w) \/ batch' = [batch EXCEPT ![w] = {}]
        PROVE  \A v \in Worker : batch'[v] \subseteq batch[v]
    BY <1>2, <2>3, SMTT(30) DEF JobHandled, IInv, TypeOK
  <2>4. \/ batch' = batch
        \/ \E w \in Worker : JobHandled(w) \/ batch' = [batch EXCEPT ![w] = {}]
        \/ \E w \in Worker, S \in SUBSET JobId : ClaimSelect(w, S)
    BY <1>2, Zenon DEF Next, LoopStep, Enqueue, TimePasses, StartLoop, ClaimCommit, BeginJob,
                ProcessReturns, ProcessRaises, Ack, AckRaises, AckReplyLost, Retry,
                MoveToDeadLetter, DeadLetterRaises, StopSignal, Exit, Crash, LoopEnds,
                workerVars, vars
  <2> QED
    BY <2>1, <2>2, <2>3, <2>4, Zenon
<1> QED
  BY <1>1, <1>2, Invariance, PTL DEF Spec

(* ON CONFLICT (topic, dedupe_key): one job per key, for ever.             *)
THEOREM OneJobPerKey == Spec => []SameKeySameJob
<1>1. IInv => SameKeySameJob
  <2> SUFFICES ASSUME IInv, NEW k \in Key
               PROVE  Cardinality(answered[k]) <= 1 /\ answered[k] = RowsWithKey(k)
    BY Zenon DEF SameKeySameJob
  <2>1. /\ answered[k] = RowsWithKey(k)
        /\ \A i, j \in answered[k] : i = j
    BY Zenon DEF IInv, KeysOK
  <2>2. CASE answered[k] = {}
    <3>1. Cardinality(answered[k]) = 0
      BY <2>2, FS_EmptySet, Zenon
    <3>2. Cardinality(answered[k]) <= 1
      BY <3>1, SMTT(30)
    <3> QED
      BY <2>1, <3>2, Zenon
  <2>3. CASE answered[k] # {}
    <3>1. PICK j : answered[k] = {j}
      BY <2>1, <2>3, Zenon
    <3>2. Cardinality({j}) = 1
      BY FS_Singleton, Zenon
    <3>3. Cardinality(answered[k]) = 1
      BY <3>1, <3>2, Zenon
    <3>4. Cardinality(answered[k]) <= 1
      BY <3>3, SMT
    <3> QED
      BY <2>1, <3>4, Zenon
  <2> QED
    BY <2>2, <2>3, Zenon
<1> QED
  BY <1>1, Invariance, PTL

-----------------------------------------------------------------------------
(* What one step may do to the table, seen job by job. *)
TableMove ==
    \/ UNCHANGED <<status, attempts>>
    \/ \E j \in JobId : /\ status[j] = "absent"
                        /\ status' = [status EXCEPT ![j] = "pending"]
                        /\ UNCHANGED attempts
    \/ \E S \in SUBSET JobId :
          /\ \A j \in S : status[j] = "pending" /\ attempts[j] < MaxAttempts
          /\ status' = [j \in JobId |-> IF j \in S THEN "processing" ELSE status[j]]
          /\ attempts' = [j \in JobId |-> IF j \in S THEN attempts[j] + 1
                                                       ELSE attempts[j]]
    \/ \E j \in JobId :
          /\ status[j] = "processing"
          /\ \/ status' = [status EXCEPT ![j] = "done"]
             \/ status' = [status EXCEPT ![j] = "pending"] /\ attempts[j] < MaxAttempts
             \/ status' = [status EXCEPT ![j] = "dead"] /\ attempts[j] = MaxAttempts
          /\ UNCHANGED attempts

(* A claim takes pending rows, an enqueue inserts a row, and ack, retry    *)
(* and move_to_dead_letter release a row that was being processed; no      *)
(* other step changes status or attempts.                                  *)
LEMMA TableStep == ASSUME IInv, [Next]_vars PROVE TableMove
<1> USE DEF TableMove
<1>1. ASSUME NEW k \in Key \cup {NoKey}, NEW j \in JobId, Enqueue(k, j) PROVE TableMove
  BY <1>1, Zenon DEF Enqueue, enqueue, enqueue_insert, enqueue_conflict, queueVars
<1>2. ASSUME NEW w \in Worker, ClaimCommit(w) PROVE TableMove
  <2>1. batch[w] \in SUBSET JobId
    BY Zenon DEF IInv, TypeOK
  <2>2. \A j \in batch[w] : status[j] = "pending" /\ attempts[j] < MaxAttempts
    <3>1. \A j \in batch[w] : rowlock[j] = w /\ w # NoWorker
      BY <1>2, QueueAssumption, Zenon DEF IInv, LoopsOK, LoopOK, ClaimCommit
    <3>2. \A j \in JobId : RowOK(j)
      BY Zenon DEF IInv, RowsOK
    <3> QED
      BY <2>1, <3>1, <3>2, Zenon DEF RowOK
  <2> QED
    BY <1>2, <2>1, <2>2, Zenon DEF ClaimCommit, claim_commit
<1>3. ASSUME NEW w \in Worker, pc[w] \in Handling
      PROVE  /\ current[w] \in JobId /\ attempts[current[w]] \in Nat
             /\ attempts[current[w]] <= MaxAttempts
             /\ seen[w][current[w]] = attempts[current[w]]
  <2>1. current[w] \in batch[w] /\ current[w] \in JobId
    BY <1>3, Zenon DEF IInv, TypeOK, LoopsOK, LoopOK
  <2>2. Leased(w, current[w])
    BY <1>3, <2>1, Zenon DEF IInv, LoopsOK, LoopOK
  <2>3. RowOK(current[w]) /\ attempts[current[w]] \in Nat
    BY <2>1, Zenon DEF IInv, RowsOK, TypeOK, QueueTypeOK
  <2> QED
    BY <2>1, <2>2, <2>3, Zenon DEF Leased, RowOK
<1>4. ASSUME NEW w \in Worker, Ack(w) \/ AckReplyLost(w) PROVE TableMove
  BY <1>3, <1>4, Zenon DEF Ack, AckReplyLost, ack, Release, OwnedBy, Handling
<1>5. ASSUME NEW w \in Worker, Retry(w) PROVE TableMove
  <2>1. attempts[current[w]] < MaxAttempts /\ current[w] \in JobId
    <3>1. pc[w] \in Handling /\ ~(seen[w][current[w]] >= MaxAttempts)
      BY <1>5, Zenon DEF Retry, Exhausted, Handling
    <3>2. /\ current[w] \in JobId /\ attempts[current[w]] \in Nat
          /\ seen[w][current[w]] = attempts[current[w]]
      BY <1>3, <3>1, Zenon
    <3> QED
      BY <3>1, <3>2, QueueAssumption
  <2> QED
    BY <1>5, <2>1, Zenon DEF Retry, retry, Release, OwnedBy
<1>6. ASSUME NEW w \in Worker, MoveToDeadLetter(w) PROVE TableMove
  <2>1. attempts[current[w]] = MaxAttempts /\ current[w] \in JobId
    <3>1. pc[w] \in Handling /\ seen[w][current[w]] >= MaxAttempts
      BY <1>6, Zenon DEF MoveToDeadLetter, Exhausted, Handling
    <3>2. /\ current[w] \in JobId /\ attempts[current[w]] \in Nat
          /\ attempts[current[w]] <= MaxAttempts
          /\ seen[w][current[w]] = attempts[current[w]]
      BY <1>3, <3>1, Zenon
    <3> QED
      BY <3>1, <3>2, QueueAssumption, SMTT(30)
  <2> QED
    BY <1>6, <2>1, Zenon DEF MoveToDeadLetter, move_to_dead_letter, Release, OwnedBy
<1>7. ASSUME NEW w \in Worker,
             \/ StartLoop(w) \/ ProcessReturns(w) \/ ProcessRaises(w) \/ AckRaises(w)
             \/ DeadLetterRaises(w) \/ Exit(w) \/ StopSignal(w) \/ Crash(w)
             \/ \E S \in SUBSET JobId : ClaimSelect(w, S)
             \/ \E j \in JobId : BeginJob(w, j)
      PROVE  UNCHANGED <<status, attempts>>
  BY <1>7, Zenon DEF StartLoop, ProcessReturns, ProcessRaises, AckRaises, DeadLetterRaises,
              Exit, StopSignal, Crash, claim_rollback, ClaimSelect, claim_select,
              BeginJob, queueVars
<1>8. ASSUME NEW j \in JobId, TimePasses(j) PROVE UNCHANGED <<status, attempts>>
  BY <1>8, Zenon DEF TimePasses, BecomesDue, LockAges
<1>9. CASE UNCHANGED vars
  BY <1>9, Zenon DEF vars, queueVars
<1>10. UNCHANGED <<status, attempts>> => TableMove
  BY Zenon
<1> HIDE DEF TableMove
<1> QED
  BY <1>1, <1>2, <1>4, <1>5, <1>6, <1>7, <1>8, <1>9, <1>10, ZenonT(40) DEF Next, LoopStep

(* The queue with its workers implements the contract of a job: at most    *)
(* max_attempts attempts, dead only when they are used up, settled for     *)
(* good.                                                                   *)
THEOREM Refinement == Spec => ImplementsContract
<1>1. Init => Contract!Init
  BY Zenon DEF Init, QueueInit, Contract!Init
<1>2. ASSUME IInv, [Next]_vars PROVE [Contract!Next]_(Contract!contractVars)
  BY <1>2, TableStep, Zenon
     DEF TableMove, Contract!Next, Contract!contractVars, Contract!Accept, Contract!Begin,
         Contract!Finish, Contract!GiveBack, Contract!GiveUp, Contract!Move
<1> QED
  BY <1>1, <1>2, Invariance, PTL DEF Spec, ImplementsContract, Contract!Spec

(* A job that is done or dead is never claimed, processed or moved again.  *)
THEOREM Settled == Spec => SettledForGood
<1> DEFINE A == \A j \in JobId : status[j] \in {"done", "dead"} =>
                   status'[j] = status[j] /\ runs'[j] = runs[j]
<1>1. ASSUME IInv, [Next]_vars PROVE A
  <2> SUFFICES ASSUME NEW j \in JobId, status[j] \in {"done", "dead"}
               PROVE  status'[j] = status[j] /\ runs'[j] = runs[j]
    BY Zenon
  <2>1. status'[j] = status[j]
    <3>1. status \in [JobId -> Status]
      BY <1>1, Zenon DEF IInv, TypeOK, QueueTypeOK
    <3> QED
      BY <1>1, <3>1, TableStep, Zenon DEF TableMove
  <2>2. ASSUME NEW w \in Worker, NEW i \in JobId, BeginJob(w, i)
        PROVE  runs'[j] = runs[j]
    <3>1. status[i] = "processing"
      BY <1>1, <2>2, Zenon DEF IInv, LoopsOK, LoopOK, Leased, OwnedBy, BeginJob
    <3> QED
      BY <1>1, <2>2, <3>1, Zenon DEF BeginJob, IInv, TypeOK
  <2>3. \/ runs' = runs
        \/ \E w \in Worker, i \in JobId : BeginJob(w, i)
    BY <1>1, ZenonT(40) DEF Next, LoopStep, Enqueue, TimePasses, StartLoop, ClaimSelect, ClaimCommit,
                ProcessReturns, ProcessRaises, Ack, AckRaises, AckReplyLost, Retry,
                MoveToDeadLetter, DeadLetterRaises, StopSignal, Exit, Crash, LoopEnds,
                JobHandled, historyVars, vars
  <2> QED
    BY <2>1, <2>2, <2>3, Zenon
<1> QED
  BY <1>1, Invariance, PTL DEF Spec, SettledForGood
=============================================================================
