------------------------------ MODULE MCIngest ------------------------------
(***************************************************************************)
(* Two devices whose telemetry happens to carry the same idempotency key,  *)
(* one of them without its uuid, and two enrollments of the first device.  *)
(***************************************************************************)
EXTENDS Ingest, TLC

CONSTANTS d1, d2, t1, t2, e1, e2, k1, k2

MCTopic == t1 :> "telemetry" @@ t2 :> "telemetry" @@ e1 :> "enroll" @@ e2 :> "enroll"
MCOrigin == t1 :> d1 @@ t2 :> d2 @@ e1 :> d1 @@ e2 :> d1
MCIdemKey == t1 :> k1 @@ t2 :> k1 @@ e1 :> k1 @@ e2 :> k2
MCBudgets == {[sends |-> 3, upsets |-> 1], [sends |-> 2, upsets |-> 2]}
=============================================================================
