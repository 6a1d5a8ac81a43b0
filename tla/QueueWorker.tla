---------------------------- MODULE QueueWorker ----------------------------
(***************************************************************************)
(* The worker loop _run_queue_worker_loop (app/main.py) on top of the      *)
(* queue: any number of loops, in worker pods or embedded in an "all" pod, *)
(* producers that enqueue, SIGTERM, crashes, and database calls whose      *)
(* effect is committed although the caller sees an exception.              *)
(***************************************************************************)
EXTENDS PostgresQueue

VARIABLES pc,         \* where the loop of a worker stands
          stop,       \* its stop event is set
          batch,      \* the claimed jobs it still has to handle
          current,    \* the job it is handling
          seen,       \* job.attempts as returned by the claim
          runs,       \* history: calls of _process_queue_job on a job
          completed,  \* history: jobs for which such a call returned
          answered    \* history: the ids enqueue returned for a key

CONSTANT NoJob

ASSUME NoJobAssumption == NoJob \notin JobId

workerVars == <<pc, stop, batch, current, seen>>

historyVars == <<runs, completed, answered>>

vars == <<queueVars, workerVars, historyVars>>

Ended == {"exited", "crashed", "raised"}

Handling == {"processing", "acking", "failing"}

PC == {"new", "polling", "claiming", "batch"} \cup Handling \cup Ended

TypeOK ==
    /\ QueueTypeOK
    /\ pc \in [Worker -> PC]
    /\ stop \in [Worker -> BOOLEAN]
    /\ batch \in [Worker -> SUBSET JobId]
    /\ current \in [Worker -> JobId \cup {NoJob}]
    /\ seen \in [Worker -> [JobId -> Nat]]
    /\ runs \in [JobId -> Nat]
    /\ completed \in SUBSET JobId
    /\ answered \in [Key -> SUBSET JobId]

Init ==
    /\ QueueInit
    /\ pc = [w \in Worker |-> "new"]
    /\ stop = [w \in Worker |-> FALSE]
    /\ batch = [w \in Worker |-> {}]
    /\ current = [w \in Worker |-> NoJob]
    /\ seen = [w \in Worker |-> [j \in JobId |-> 0]]
    /\ runs = [j \in JobId |-> 0]
    /\ completed = {}
    /\ answered = [k \in Key |-> {}]

Goto(w, label) == pc' = [pc EXCEPT ![w] = label]

-----------------------------------------------------------------------------
(* A producer (telemetry relay, enroll) hands over a payload. *)

Enqueue(k, j) ==
    /\ enqueue(k, j)
    /\ answered' = IF k = NoKey THEN answered
                   ELSE [answered EXCEPT ![k] = @ \cup {j}]
    /\ UNCHANGED <<workerVars, runs, completed>>

-----------------------------------------------------------------------------
(* The loop. *)

StartLoop(w) ==
    /\ pc[w] = "new"
    /\ Goto(w, "polling")
    /\ UNCHANGED <<queueVars, stop, batch, current, seen, historyVars>>

(* A claim that finds nothing waits for poll_interval and changes nothing. *)
ClaimSelect(w, S) ==
    /\ pc[w] = "polling"
    /\ ~stop[w]
    /\ claim_select(w, S)
    /\ batch' = [batch EXCEPT ![w] = S]
    /\ Goto(w, "claiming")
    /\ UNCHANGED <<stop, current, seen, historyVars>>

ClaimCommit(w) ==
    /\ pc[w] = "claiming"
    /\ claim_commit(w, batch[w])
    /\ seen' = [seen EXCEPT ![w] =
                   [j \in JobId |-> IF j \in batch[w] THEN attempts[j] + 1 ELSE 0]]
    /\ Goto(w, "batch")
    /\ UNCHANGED <<stop, batch, current, historyVars>>

(* for job in jobs; UPDATE ... RETURNING promises no order. *)
BeginJob(w, j) ==
    /\ pc[w] = "batch"
    /\ ~stop[w]
    /\ j \in batch[w]
    /\ current' = [current EXCEPT ![w] = j]
    /\ runs' = [runs EXCEPT ![j] = @ + 1]
    /\ Goto(w, "processing")
    /\ UNCHANGED <<queueVars, stop, batch, seen, completed, answered>>

ProcessReturns(w) ==
    /\ pc[w] = "processing"
    /\ completed' = completed \cup {current[w]}
    /\ Goto(w, "acking")
    /\ UNCHANGED <<queueVars, stop, batch, current, seen, runs, answered>>

ProcessRaises(w) ==
    /\ pc[w] = "processing"
    /\ Goto(w, "failing")
    /\ UNCHANGED <<queueVars, stop, batch, current, seen, historyVars>>

(* Mutant: the loop never asks for another batch. *)
JobHandled_once(w) ==
    /\ batch' = [batch EXCEPT ![w] = @ \ {current[w]}]
    /\ current' = [current EXCEPT ![w] = NoJob]
    /\ seen' = [seen EXCEPT ![w][current[w]] = 0]
    /\ Goto(w, "batch")
    /\ UNCHANGED <<stop, historyVars>>

(* The loop is done with its current job. *)
JobHandled(w) ==
    /\ batch' = [batch EXCEPT ![w] = @ \ {current[w]}]
    /\ current' = [current EXCEPT ![w] = NoJob]
    /\ seen' = [seen EXCEPT ![w][current[w]] = 0]
    /\ Goto(w, IF batch[w] = {current[w]} THEN "polling" ELSE "batch")
    /\ UNCHANGED <<stop, historyVars>>

Ack(w) ==
    /\ pc[w] = "acking"
    /\ ack(w, current[w])
    /\ JobHandled(w)

(* ack raises before anything is written. *)
AckRaises(w) ==
    /\ pc[w] = "acking"
    /\ Goto(w, "failing")
    /\ UNCHANGED <<queueVars, stop, batch, current, seen, historyVars>>

(* ack commits, then the connection breaks and the caller sees an exception. *)
AckReplyLost(w) ==
    /\ pc[w] = "acking"
    /\ ack(w, current[w])
    /\ Goto(w, "failing")
    /\ UNCHANGED <<stop, batch, current, seen, historyVars>>

(* Mutant: one attempt too many before the dead-letter table. *)
Exhausted_late(w) == seen[w][current[w]] > MaxAttempts

(* The except branch decides on the attempts the claim returned. *)
Exhausted(w) == seen[w][current[w]] >= MaxAttempts

Retry(w) ==
    /\ pc[w] = "failing"
    /\ ~Exhausted(w)
    /\ retry(w, current[w])
    /\ JobHandled(w)

MoveToDeadLetter(w) ==
    /\ pc[w] = "failing"
    /\ Exhausted(w)
    /\ move_to_dead_letter(w, current[w])
    /\ JobHandled(w)

(* The loop ends and forgets its batch; rows it claimed stay as they are. *)
LoopEnds(w, how) ==
    /\ Goto(w, how)
    /\ batch' = [batch EXCEPT ![w] = {}]
    /\ current' = [current EXCEPT ![w] = NoJob]
    /\ seen' = [seen EXCEPT ![w] = [j \in JobId |-> 0]]
    /\ UNCHANGED <<stop, historyVars>>

(* An exception of the except branch itself leaves the loop: the INSERT is *)
(* rejected, always when the table has no key on job_id and with the key   *)
(* when the database fails.                                                *)
DeadLetterRaises(w) ==
    /\ pc[w] = "failing"
    /\ Exhausted(w)
    /\ LoopEnds(w, "raised")
    /\ UNCHANGED queueVars

StopSignal(w) ==
    /\ pc[w] \notin Ended \cup {"new"}
    /\ ~stop[w]
    /\ stop' = [stop EXCEPT ![w] = TRUE]
    /\ UNCHANGED <<queueVars, pc, batch, current, seen, historyVars>>

Exit(w) ==
    /\ pc[w] \in {"polling", "batch"}
    /\ stop[w]
    /\ LoopEnds(w, "exited")
    /\ UNCHANGED queueVars

(* The process is killed, or a claim or a retry raises. *)
Crash(w) ==
    /\ pc[w] \notin Ended \cup {"new"}
    /\ claim_rollback(w)
    /\ LoopEnds(w, "crashed")

-----------------------------------------------------------------------------
LoopStep(w) ==
    \/ StartLoop(w) \/ ClaimCommit(w) \/ ProcessReturns(w) \/ ProcessRaises(w)
    \/ Ack(w) \/ AckRaises(w) \/ AckReplyLost(w)
    \/ Retry(w) \/ MoveToDeadLetter(w) \/ DeadLetterRaises(w) \/ Exit(w)
    \/ \E S \in SUBSET JobId : ClaimSelect(w, S)
    \/ \E j \in JobId : BeginJob(w, j)

TimePasses(j) == /\ BecomesDue(j) \/ LockAges(j)
                 /\ UNCHANGED <<workerVars, historyVars>>

Next ==
    \/ \E k \in Key \cup {NoKey}, j \in JobId : Enqueue(k, j)
    \/ \E w \in Worker : LoopStep(w) \/ StopSignal(w) \/ Crash(w)
    \/ \E j \in JobId : TimePasses(j)

Spec == Init /\ [][Next]_vars

(* A running loop keeps running and clocks advance; nobody has to enqueue, *)
(* to send SIGTERM or to crash.                                            *)
Fairness == /\ \A w \in Worker : WF_vars(LoopStep(w))
            /\ \A j \in JobId : WF_vars(TimePasses(j))

FairSpec == Spec /\ Fairness
-----------------------------------------------------------------------------
(* Properties. *)

Running(w) == pc[w] \notin Ended \cup {"new"}

(* The row a worker has in hand is still its own: everything left in the   *)
(* batch of a worker that committed its claim is locked by it in the table *)
(* with the attempts it was told, whatever other workers, restarts and     *)
(* time did since; the one exception is a job whose ack was committed and  *)
(* then reported as failed.  So no two loops ever handle the same job.     *)
BatchIsLeased ==
    \A w \in Worker :
        pc[w] \in Handling \cup {"batch"} =>
            \A j \in batch[w] :
                /\ seen[w][j] = attempts[j]
                /\ \/ OwnedBy(w, j)
                   \/ pc[w] = "failing" /\ current[w] = j /\ status[j] = "done"

(* Two open claims never hold the same row and a claim never holds a row   *)
(* another worker is handling (FOR UPDATE SKIP LOCKED).                    *)
ClaimsDisjoint ==
    \A v, w \in Worker : v # w => batch[v] \cap batch[w] = {}

(* However often loops crash, stop and restart, _process_queue_job is      *)
(* called on a job at most once per attempt and at most max_attempts times.*)
ExecutionsBounded ==
    \A j \in JobId : runs[j] <= attempts[j] /\ attempts[j] <= MaxAttempts

(* A job is marked done only after a call that returned; a job is dead     *)
(* only when its attempts are used up and its dead-letter row is there.    *)
OutcomeIsEarned ==
    \A j \in JobId :
        /\ status[j] = "done" => j \in completed
        /\ status[j] = "dead" => j \in dead_letters /\ attempts[j] = MaxAttempts

(* Every enqueue with the same key is answered with the same job, also     *)
(* after that job is done or dead (ON CONFLICT (topic, dedupe_key)).       *)
SameKeySameJob ==
    \A k \in Key : /\ Cardinality(answered[k]) <= 1
                   /\ answered[k] = RowsWithKey(k)

(* A job that is done or dead is never processed again and stays so. *)
SettledForGood ==
    [][\A j \in JobId : status[j] \in {"done", "dead"} =>
           status'[j] = status[j] /\ runs'[j] = runs[j]]_vars

(* The queue and its workers implement the contract of a single job. *)
Contract == INSTANCE JobContract WITH Job <- JobId, Limit <- MaxAttempts,
                                      stage <- status, tries <- attempts

ImplementsContract == Contract!Spec

(* A row no running worker will ever touch again: its loop ended between   *)
(* the claim and the last UPDATE.                                          *)
Orphaned(j) == status[j] = "processing" /\ ~Running(lock_owner[j])

(* Without a loop that ends while it holds the job, every accepted job is  *)
(* eventually done or dead, as long as some loop keeps running.            *)
EventuallySettled ==
    \A j \in JobId :
        status[j] = "pending" ~> \/ status[j] \in {"done", "dead"}
                                \/ Orphaned(j)
                                \/ \A w \in Worker : ~Running(w)

(* "dead-letter apres max_attempts": a job that fails its last attempt in  *)
(* a worker that is not killed reaches the dead-letter table.              *)
DeadLetterAfterMaxAttempts ==
    \A w \in Worker, j \in JobId :
        pc[w] = "failing" /\ current[w] = j /\ Exhausted(w) ~>
            j \in dead_letters \/ pc[w] = "crashed"
=============================================================================
