---------------------------- MODULE JobContract ----------------------------
(***************************************************************************)
(* What the queue promises about a job, with workers, locks, batches and   *)
(* time left out: an accepted job is tried one attempt at a time, at most  *)
(* Limit times, and once it is done or dead it never moves again.          *)
(***************************************************************************)
EXTENDS Naturals

CONSTANTS Job, Limit

VARIABLES stage, tries

contractVars == <<stage, tries>>

Init == /\ stage = [j \in Job |-> "absent"]
        /\ tries = [j \in Job |-> 0]

Move(j, from, to) == /\ stage[j] = from
                     /\ stage' = [stage EXCEPT ![j] = to]
                     /\ UNCHANGED tries

Accept(j) == Move(j, "absent", "pending")

(* A claim takes a whole batch of pending jobs that have attempts left. *)
Begin(S) == /\ \A j \in S : stage[j] = "pending" /\ tries[j] < Limit
            /\ stage' = [j \in Job |-> IF j \in S THEN "processing" ELSE stage[j]]
            /\ tries' = [j \in Job |-> IF j \in S THEN tries[j] + 1 ELSE tries[j]]

Finish(j) == Move(j, "processing", "done")

GiveBack(j) == tries[j] < Limit /\ Move(j, "processing", "pending")

GiveUp(j) == tries[j] = Limit /\ Move(j, "processing", "dead")

Next == \/ \E j \in Job : Accept(j) \/ Finish(j) \/ GiveBack(j) \/ GiveUp(j)
        \/ \E S \in SUBSET Job : Begin(S)

Spec == Init /\ [][Next]_contractVars
=============================================================================
