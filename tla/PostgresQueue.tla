--------------------------- MODULE PostgresQueue ---------------------------
(***************************************************************************)
(* The queue_jobs table and the operations of class PostgresQueue          *)
(* (app/postgres_queue.py).  Every operator below is the effect of one SQL *)
(* transaction; the claim is split where Postgres lets other transactions  *)
(* run, between taking the row locks and committing.                       *)
(*                                                                         *)
(* Time is abstracted to what the SQL compares: a pending row is "due" or  *)
(* not (next_attempt_at <= now()), due rows are ordered by the moment they *)
(* became due (ORDER BY next_attempt_at, created_at), and a lock is        *)
(* "fresh" or "stale" (locked_at older than the lock TTL).                 *)
(***************************************************************************)
EXTENDS Naturals, FiniteSets

CONSTANTS JobId,            \* ids of the rows that can ever be inserted
          Worker,           \* worker ids; every run of the loop draws a new one
          Key,              \* (topic, dedupe_key) pairs
          NoKey,            \* a NULL dedupe_key
          NoWorker,         \* a NULL lock_owner, or no row lock
          BatchSize,        \* limit of claim_jobs
          MaxAttempts,      \* max_attempts of every row
          DeadLetterKeyed   \* the dead-letter table has a unique key on job_id

ASSUME QueueAssumption ==
    /\ NoWorker \notin Worker
    /\ NoKey \notin Key
    /\ BatchSize \in Nat \ {0}
    /\ MaxAttempts \in Nat \ {0}
    /\ DeadLetterKeyed \in BOOLEAN

VARIABLES status,       \* queue_jobs.status, "absent" before the INSERT
          attempts,     \* queue_jobs.attempts
          lock_owner,   \* queue_jobs.lock_owner
          locked_at,    \* queue_jobs.locked_at: "null", "fresh" or "stale"
          dedupe_key,   \* queue_jobs.dedupe_key
          due,          \* pending rows with next_attempt_at <= now()
          before,       \* <<i, j>>: due row i sorts before due row j
          rowlock,      \* the open claim transaction that holds the row lock
          dead_letters  \* job_ids of queue_job_dead_letters

queueVars == <<status, attempts, lock_owner, locked_at, dedupe_key, due,
               before, rowlock, dead_letters>>

Status == {"absent", "pending", "processing", "done", "dead"}

QueueTypeOK ==
    /\ status \in [JobId -> Status]
    /\ attempts \in [JobId -> Nat]
    /\ lock_owner \in [JobId -> Worker \cup {NoWorker}]
    /\ locked_at \in [JobId -> {"null", "fresh", "stale"}]
    /\ dedupe_key \in [JobId -> Key \cup {NoKey}]
    /\ due \in SUBSET JobId
    /\ before \in SUBSET (JobId \X JobId)
    /\ rowlock \in [JobId -> Worker \cup {NoWorker}]
    /\ dead_letters \in SUBSET JobId

QueueInit ==
    /\ status = [j \in JobId |-> "absent"]
    /\ attempts = [j \in JobId |-> 0]
    /\ lock_owner = [j \in JobId |-> NoWorker]
    /\ locked_at = [j \in JobId |-> "null"]
    /\ dedupe_key = [j \in JobId |-> NoKey]
    /\ due = {}
    /\ before = {}
    /\ rowlock = [j \in JobId |-> NoWorker]
    /\ dead_letters = {}

-----------------------------------------------------------------------------
(* The order of the due rows.                                              *)

GoesLast(j) == /\ due' = due \cup {j}
               /\ before' = before \cup {<<i, j>> : i \in due}

LeaveDue(S) == /\ due' = due \ S
               /\ before' = {p \in before : p[1] \notin S /\ p[2] \notin S}

(* next_attempt_at of a row that was given back has passed. *)
BecomesDue(j) ==
    /\ status[j] = "pending"
    /\ j \notin due
    /\ GoesLast(j)
    /\ UNCHANGED <<status, attempts, lock_owner, locked_at, dedupe_key,
                   rowlock, dead_letters>>

(* locked_at falls behind now() - lock TTL. *)
LockAges(j) ==
    /\ locked_at[j] = "fresh"
    /\ locked_at' = [locked_at EXCEPT ![j] = "stale"]
    /\ UNCHANGED <<status, attempts, lock_owner, dedupe_key, due, before,
                   rowlock, dead_letters>>

-----------------------------------------------------------------------------
(* enqueue: a first INSERT, or the ON CONFLICT (topic, dedupe_key) branch, *)
(* which waits for the row lock and returns the row that is there.  NULL   *)
(* keys never conflict.  Callers pass no delay, so a new row is due.       *)

RowsWithKey(k) == {j \in JobId : status[j] # "absent" /\ dedupe_key[j] = k}

enqueue_insert(k, j) ==
    /\ status[j] = "absent"
    /\ k = NoKey \/ RowsWithKey(k) = {}
    /\ status' = [status EXCEPT ![j] = "pending"]
    /\ dedupe_key' = [dedupe_key EXCEPT ![j] = k]
    /\ GoesLast(j)
    /\ UNCHANGED <<attempts, lock_owner, locked_at, rowlock, dead_letters>>

enqueue_conflict(k, j) ==
    /\ k # NoKey
    /\ j \in RowsWithKey(k)
    /\ rowlock[j] = NoWorker
    /\ UNCHANGED queueVars

enqueue(k, j) == enqueue_insert(k, j) \/ enqueue_conflict(k, j)

-----------------------------------------------------------------------------
(* claim_jobs: SELECT ... FOR UPDATE SKIP LOCKED LIMIT n takes the locks,  *)
(* the enclosing UPDATE becomes visible at the commit.                     *)

(* Mutant: a job that is being processed is taken once its lock is stale. *)
Claimable_stale(j) ==
    /\ rowlock[j] = NoWorker
    /\ \/ status[j] = "pending" /\ j \in due
       \/ status[j] = "processing" /\ locked_at[j] = "stale"

Claimable(j) ==
    /\ status[j] = "pending"
    /\ j \in due
    /\ locked_at[j] \in {"null", "stale"}
    /\ rowlock[j] = NoWorker

claim_select(w, S) ==
    LET rows == {j \in JobId : Claimable(j)}
    IN  /\ S # {}
        /\ S \subseteq rows
        /\ S = rows \/ Cardinality(S) = BatchSize
        /\ Cardinality(S) <= BatchSize
        /\ \A j \in S, i \in rows \ S : <<i, j>> \notin before
        /\ rowlock' = [j \in JobId |-> IF j \in S THEN w ELSE rowlock[j]]
        /\ UNCHANGED <<status, attempts, lock_owner, locked_at, dedupe_key,
                       due, before, dead_letters>>

(* Mutant: the claim forgets attempts = attempts + 1. *)
claim_commit_uncounted(w, S) ==
    /\ status' = [j \in JobId |-> IF j \in S THEN "processing" ELSE status[j]]
    /\ lock_owner' = [j \in JobId |-> IF j \in S THEN w ELSE lock_owner[j]]
    /\ locked_at' = [j \in JobId |-> IF j \in S THEN "fresh" ELSE locked_at[j]]
    /\ rowlock' = [j \in JobId |-> IF j \in S THEN NoWorker ELSE rowlock[j]]
    /\ LeaveDue(S)
    /\ UNCHANGED <<attempts, dedupe_key, dead_letters>>

claim_commit(w, S) ==
    /\ status' = [j \in JobId |-> IF j \in S THEN "processing" ELSE status[j]]
    /\ lock_owner' = [j \in JobId |-> IF j \in S THEN w ELSE lock_owner[j]]
    /\ locked_at' = [j \in JobId |-> IF j \in S THEN "fresh" ELSE locked_at[j]]
    /\ attempts' = [j \in JobId |-> IF j \in S THEN attempts[j] + 1
                                               ELSE attempts[j]]
    /\ rowlock' = [j \in JobId |-> IF j \in S THEN NoWorker ELSE rowlock[j]]
    /\ LeaveDue(S)
    /\ UNCHANGED <<dedupe_key, dead_letters>>

(* The connection of w goes away: its open transaction is rolled back. *)
claim_rollback(w) ==
    /\ rowlock' = [j \in JobId |-> IF rowlock[j] = w THEN NoWorker
                                                     ELSE rowlock[j]]
    /\ UNCHANGED <<status, attempts, lock_owner, locked_at, dedupe_key, due,
                   before, dead_letters>>

-----------------------------------------------------------------------------
(* ack, retry and move_to_dead_letter share one WHERE clause; when it      *)
(* matches no row the UPDATE changes nothing and the caller goes on.       *)

OwnedBy(w, j) == status[j] = "processing" /\ lock_owner[j] = w

Release(w, j, s) ==
    IF OwnedBy(w, j)
    THEN /\ status' = [status EXCEPT ![j] = s]
         /\ lock_owner' = [lock_owner EXCEPT ![j] = NoWorker]
         /\ locked_at' = [locked_at EXCEPT ![j] = "null"]
    ELSE UNCHANGED <<status, lock_owner, locked_at>>

ack(w, j) ==
    /\ Release(w, j, "done")
    /\ UNCHANGED <<attempts, dedupe_key, due, before, rowlock, dead_letters>>

(* The delay is at least one second: the row is pending and not yet due. *)
retry(w, j) ==
    /\ Release(w, j, "pending")
    /\ UNCHANGED <<attempts, dedupe_key, due, before, rowlock, dead_letters>>

(* The dead-letter row is written whether or not the UPDATE then matches.  *)
(* Without a unique key on job_id the ON CONFLICT (job_id) clause is an    *)
(* error and nothing is written.                                           *)
move_to_dead_letter(w, j) ==
    /\ DeadLetterKeyed
    /\ dead_letters' = dead_letters \cup {j}
    /\ Release(w, j, "dead")
    /\ UNCHANGED <<attempts, dedupe_key, due, before, rowlock>>
=============================================================================
