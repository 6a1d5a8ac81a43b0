---------------------------- MODULE IngestProofs ----------------------------
(***************************************************************************)
(* The inductive invariant of Ingest, what the steps of its handlers and   *)
(* workers may do to requests, jobs, executions of bodies and their        *)
(* effects, and, from these moves, that the invariant is inductive and     *)
(* what follows from it.  For any devices, bodies, idempotency keys,       *)
(* stores, token lifetimes, numbers of requests, attempts and upsets.      *)
(***************************************************************************)
EXTENDS Ingest, TLAPS

Phases == {"unsent", "received", "ok", "unheard", "error"}
Stages == {"absent", "pending", "processing", "done", "dead"}
Steps == {"idle", "begun", "forwarded", "refused", "local", "s3", "provisioned",
          "done", "kept", "gone"}

ReqTypes ==
  /\ phase \in [Send -> Phases]
  /\ payload \in [Send -> Payload \cup {NoKey}]
  /\ who \in [Send -> Device \cup {Zero, Open, Nobody}]
  /\ job \in [Send -> Send \cup {0}]
  /\ open \in [Send -> SUBSET Send]

WorkTypes ==
  /\ stage \in [Send -> Stages]
  /\ tries \in [Send -> Nat]
  /\ step \in [Run -> Steps]
  /\ effects \in [Run -> [Effect -> Nat]]
  /\ prov \in [Device -> Send \cup {0}]
  /\ applied \subseteq Send
  /\ swallowed \subseteq Run
  /\ unrecorded \subseteq Run

ClientTypes ==
  /\ settings \in [requireToken : BOOLEAN, queue : BOOLEAN, bodies : Loads, budget : Budgets]
  /\ now \in Nat
  /\ token \in [Device -> [cuid : Device \cup {Nobody}, exp : Nat]]
  /\ \A d \in Device : token[d].cuid \in {d, Nobody}

Types == ReqTypes /\ WorkTypes /\ ClientTypes

(* Whom a request with body p may count for.                               *)
Fits(p, w) ==
  /\ w \in {Origin[p], Zero, Open, Nobody}
  /\ Topic[p] = "enroll" => w \in {Origin[p], Nobody}
  /\ Topic[p] = "telemetry" /\ Origin[p] \in SendsUuid =>
       w \in {IF settings.requireToken THEN Origin[p] ELSE Open, Nobody}

ReqOK(s) ==
  /\ phase[s] = "unsent" => who[s] = Nobody
  /\ phase[s] # "unsent" => payload[s] \in Payload /\ Fits(payload[s], who[s])
  /\ phase[s] = "received" \/ stage[s] # "absent" => who[s] # Nobody
  /\ job[s] # 0 => /\ who[s] # Nobody
                   /\ job[s] \in Jobs /\ DedupeKey(job[s]) = DedupeKey(s)

KeysUnique == \A i, j \in Jobs : DedupeKey(i) = DedupeKey(j) => i = j

ConnsOK == conns \subseteq {Origin[payload[s]] : s \in Sent} \cup {Zero}

(* Executions, the queue and the requests agree.                           *)
ExecOK(s) == /\ step[<<s, "job">>] # "idle" <=> stage[s] = "processing"
             /\ step[<<s, "direct">>] \notin {"idle", "gone"} => phase[s] = "received"

(* Requests arrive one after the other, and what is unsettled now was so   *)
(* whenever a later request arrived.                                       *)
OrderOK ==
  /\ \A n \in Sent : 1..(n - 1) \subseteq Sent
  /\ \A i, n \in Sent : i < n /\ Unsettled(i) => i \in open[n]
  /\ \A n \in applied : n \in Sent /\ prov[Origin[payload[n]]] # 0
  /\ OnlyUnsettledOvertake

(* How far an execution is tells which of its effects it has had; spans    *)
(* come last, so that only an execution near its end has stored them.      *)
RunOK(r) ==
  /\ step[r] \in {"forwarded", "refused", "kept"} => TopicOf(r) = "telemetry"
  /\ step[r] \in {"local", "s3", "provisioned"} => TopicOf(r) = "enroll"
  /\ step[r] = "forwarded" => effects[r]["upstream"] > 0
  /\ step[r] \in {"local", "s3", "provisioned"} /\ "local" \in Stores => effects[r]["local"] > 0
  /\ step[r] \in {"s3", "provisioned"} /\ "s3" \in Stores => effects[r]["s3"] > 0
  /\ step[r] = "provisioned" => r[1] \in applied \/ r \in swallowed
  /\ step[r] = "done" => EffectsHad(r)

Late(r) == \/ step[r] \in {"done", "kept", "gone"}
           \/ r[2] = "job" /\ stage[r[1]] = "done"
           \/ r[2] = "direct" /\ phase[r[1]] \notin {"unsent", "received"}

SpanOK(r) ==
  r \notin unrecorded => \/ effects[r]["spans"] = 0
                         \/ effects[r]["spans"] = 1 /\ Late(r)

IInv == /\ Types
        /\ \A s \in Send : ReqOK(s)
        /\ KeysUnique
        /\ ConnsOK
        /\ \A s \in Send : ExecOK(s)
        /\ OrderOK
        /\ \A r \in Run : RunOK(r) /\ SpanOK(r)
        /\ NothingPretended

-----------------------------------------------------------------------------
(* What any step may do to a request: nothing, receive it, or end it.      *)
ReqMove(s) ==
  \/ /\ phase'[s] = phase[s] /\ payload'[s] = payload[s] /\ who'[s] = who[s]
     /\ job'[s] = job[s] /\ open'[s] = open[s]
  \/ /\ phase[s] = "unsent" /\ phase'[s] \in {"received", "error"}
     /\ 1..(s - 1) \subseteq Sent
     /\ payload'[s] \in Payload /\ Fits(payload'[s], who'[s])
     /\ who'[s] = Nobody => phase'[s] = "error"
     /\ job'[s] = job[s] /\ open'[s] = {r \in Sent : Unsettled(r)}
  \/ /\ phase[s] = "received" /\ phase'[s] \in {"ok", "unheard", "error"}
     /\ payload'[s] = payload[s] /\ who'[s] = who[s] /\ open'[s] = open[s]
     /\ \/ job'[s] = job[s]
        \/ /\ job'[s] \in Send /\ stage'[job'[s]] # "absent"
           /\ DedupeKey(job'[s]) = DedupeKey(s)

(* And to a job, of which at most one is new.                              *)
StageMove(s) ==
  \/ stage'[s] = stage[s]
  \/ /\ stage[s] = "absent" /\ stage'[s] = "pending"
     /\ phase[s] = "received" /\ Same(s) = {}
     /\ \A t \in Send : t # s => stage'[t] = stage[t]
  \/ stage[s] = "pending" /\ stage'[s] = "processing"
  \/ stage[s] = "processing" /\ stage'[s] \in {"pending", "dead", "done"}

Moves == \A s \in Send : ReqMove(s) /\ StageMove(s)

-----------------------------------------------------------------------------
(* The steps of an execution keep the types of what they touch.            *)
LEMMA RaisesTypes ==
  ASSUME Types, NEW r \in Run, Raises(r)
  PROVE  ReqTypes' /\ stage' \in [Send -> Stages] /\ tries' \in [Send -> Nat]
         /\ step' \in [Run -> Steps]
<1>1. r[1] \in Send
  BY Zenon DEF Run
<1>2. step' \in [Run -> Steps]
  BY Zenon DEF Raises, Types, WorkTypes, Steps
<1>3. CASE r[2] = "job"
  BY <1>1, <1>2, <1>3, Zenon DEF Raises, Types, WorkTypes, ReqTypes, Queue!GiveBack, Queue!GiveUp, Queue!Move, Stages, reqVars
<1>4. CASE r[2] # "job"
  BY <1>1, <1>2, <1>4, Zenon DEF Raises, Types, WorkTypes, ReqTypes, Ends, queueVars, Phases
<1> QED
  BY <1>3, <1>4, Zenon

(* An effect is counted once, for its own run.                             *)
LEMMA DidTypes ==
  ASSUME Types, NEW r \in Run, NEW e \in Effect, Did(r, e)
  PROVE  /\ effects' \in [Run -> [Effect -> Nat]]
         /\ effects'[r][e] = effects[r][e] + 1
         /\ \A f \in Effect : f # e => effects'[r][f] = effects[r][f]
         /\ \A q \in Run : q # r => effects'[q] = effects[q]
<1> DEFINE g == [effects[r] EXCEPT ![e] = effects[r][e] + 1]
<1>1. effects[r] \in [Effect -> Nat] /\ effects \in [Run -> [Effect -> Nat]]
  BY Zenon DEF Types, WorkTypes
<1>2. effects' = [effects EXCEPT ![r] = g]
  BY Zenon DEF Did
<1>3. g \in [Effect -> Nat] /\ g[e] = effects[r][e] + 1
      /\ \A f \in Effect : f # e => g[f] = effects[r][f]
  BY <1>1
<1> HIDE DEF g
<1> QED
  BY <1>1, <1>2, <1>3, Zenon

(* A request that arrives keeps the types of the requests.                 *)
LEMMA ArriveTypes ==
  ASSUME Types, NEW s \in Send, NEW p \in Payload, NEW c \in Device \cup {Zero, Open, Nobody},
         NEW f \in Phases, Arrives(s, p, c, f)
  PROVE  ReqTypes'
<1>1. {r \in Sent : Unsettled(r)} \in SUBSET Send
  BY Zenon DEF Sent
<1> QED
  BY <1>1, Zenon DEF Arrives, Types, ReqTypes

(* The identity a telemetry request is given is a device or one of the     *)
(* three constants.                                                        *)
LEMMA ClientType ==
  ASSUME Types, NEW d \in Device
  PROVE  ClientUuid(d) \in {d, Zero, Open, Nobody}
BY Zenon DEF Types, ClientTypes, ClientUuid

-----------------------------------------------------------------------------
(* Steps that touch neither requests nor jobs are moves; so are steps that *)
(* touch only one of the two, if they move it.                             *)
LEMMA KeptMoves == ASSUME UNCHANGED <<reqVars, queueVars>> PROVE Moves
BY Zenon DEF Moves, ReqMove, StageMove, reqVars, queueVars

(* A step that leaves the requests alone.                                  *)
LEMMA KeptReq == ASSUME UNCHANGED reqVars, \A s \in Send : StageMove(s) PROVE Moves
BY Zenon DEF Moves, ReqMove, reqVars

(* A step that leaves the queue alone.                                     *)
LEMMA KeptQueue == ASSUME UNCHANGED queueVars, \A s \in Send : ReqMove(s) PROVE Moves
BY Zenon DEF Moves, StageMove, queueVars

(* An arrival.                                                             *)
LEMMA ArriveMoves ==
  ASSUME IInv, NEW s \in Send, NEW p \in Payload, NEW c \in Device \cup {Zero, Open, Nobody},
         NEW f \in {"received", "error"}, Arrives(s, p, c, f), NextSend(s), Fits(p, c),
         c = Nobody => f = "error", UNCHANGED <<settings, queueVars>>
  PROVE  Moves /\ ReqTypes'
<1>1. ReqTypes'
  BY ArriveTypes, Zenon DEF IInv, Phases
<1>2. phase[s] = "unsent"
  BY Zenon DEF NextSend, Sent
<1>3. ReqMove(s)
  BY <1>2, Zenon DEF IInv, Types, ReqTypes, Arrives, ReqMove, NextSend
<1>4. ASSUME NEW t \in Send, t # s PROVE ReqMove(t)
  BY <1>4, Zenon DEF IInv, Types, ReqTypes, Arrives, ReqMove
<1> QED
  BY <1>1, <1>3, <1>4, KeptQueue, Zenon

(* The end of a request that is being processed.                           *)
LEMMA EndMoves ==
  ASSUME IInv, NEW s \in Send, NEW f \in {"ok", "unheard", "error"}, Ends(s, f),
         phase[s] = "received", UNCHANGED <<job, queueVars>>
  PROVE  Moves /\ ReqTypes'
<1>1. ReqTypes'
  BY Zenon DEF IInv, Types, ReqTypes, Ends, Phases
<1>2. \A t \in Send : ReqMove(t)
  BY Zenon DEF IInv, Types, ReqTypes, Ends, ReqMove
<1> QED
  BY <1>1, <1>2, KeptQueue, Zenon

(* A failed execution gives its job back or up, or ends its request.       *)
LEMMA RaisesMoves ==
  ASSUME IInv, NEW r \in Run, Raises(r), step[r] \notin {"idle", "gone"}
  PROVE  Moves
<1>1. r[1] \in Send /\ r = <<r[1], r[2]>> /\ r[2] \in {"job", "direct"}
  BY DEF Run
<1>2. CASE r[2] = "job"
  <2>1. UNCHANGED reqVars /\ (Queue!GiveBack(r[1]) \/ Queue!GiveUp(r[1]))
    BY <1>2, Zenon DEF Raises
  <2>2. \A s \in Send : StageMove(s)
    BY <1>1, <2>1, Zenon DEF IInv, Types, WorkTypes, StageMove, Queue!GiveBack, Queue!GiveUp, Queue!Move
  <2> QED
    BY <2>1, <2>2, KeptReq, Zenon
<1>3. CASE r[2] = "direct"
  <2>1. Ends(r[1], "error") /\ UNCHANGED <<job, queueVars>>
    BY <1>3, Zenon DEF Raises
  <2>2. phase[r[1]] = "received"
    BY <1>1, <1>3, Zenon DEF IInv, ExecOK
  <2> QED
    BY <1>1, <2>1, <2>2, EndMoves, Zenon
<1> QED
  BY <1>1, <1>2, <1>3, Zenon

(* The INSERT ... ON CONFLICT of enqueue adds the request's job or finds   *)
(* the one with its key.                                                   *)
LEMMA InsertMoves ==
  ASSUME IInv, NEW s \in Send, Insert(s), phase[s] = "received"
  PROVE  /\ \A t \in Send : StageMove(t)
         /\ stage' \in [Send -> Stages] /\ tries' \in [Send -> Nat]
         /\ JobOf(s) \in Send /\ stage'[JobOf(s)] # "absent"
         /\ DedupeKey(JobOf(s)) = DedupeKey(s)
         /\ \A t \in Send : stage'[t] = "processing" <=> stage[t] = "processing"
<1> stage \in [Send -> Stages] /\ tries \in [Send -> Nat]
  BY Zenon DEF IInv, Types, WorkTypes
<1>1. CASE Same(s) = {}
  <2>1. stage[s] = "absent" /\ stage' = [stage EXCEPT ![s] = "pending"] /\ UNCHANGED tries
    BY <1>1, Zenon DEF Insert, Queue!Accept, Queue!Move
  <2>2. JobOf(s) = s
    BY <1>1, Zenon DEF JobOf
  <2> QED
    BY <1>1, <2>1, <2>2, Zenon DEF StageMove, Stages
<1>2. CASE Same(s) # {}
  <2>1. UNCHANGED queueVars
    BY <1>2, Zenon DEF Insert
  <2>2. JobOf(s) \in Same(s)
    BY <1>2, Zenon DEF JobOf
  <2> QED
    BY <2>1, <2>2, Zenon DEF queueVars, Same, Jobs, StageMove
<1> QED
  BY <1>1, <1>2, Zenon

(* So the enqueue of a request ends it with that job, or leaves it in      *)
(* progress.                                                               *)
LEMMA EnqueueMoves ==
  ASSUME IInv, NEW s \in Send, Enqueue(s)
  PROVE  Moves /\ ReqTypes' /\ stage' \in [Send -> Stages] /\ tries' \in [Send -> Nat]
<1> phase[s] = "received"
  BY Zenon DEF Enqueue, InProgress
<1> ReqTypes /\ stage \in [Send -> Stages] /\ tries \in [Send -> Nat]
  BY Zenon DEF IInv, Types, WorkTypes
<1>1. ASSUME Insert(s), NEW end \in {"ok", "unheard"}, Answer(s, end),
             job' = [job EXCEPT ![s] = JobOf(s)]
      PROVE  Moves /\ ReqTypes' /\ stage' \in [Send -> Stages] /\ tries' \in [Send -> Nat]
  <2>1. ReqTypes'
    BY <1>1, InsertMoves, Zenon DEF ReqTypes, Answer, Ends, Phases
  <2>2. ReqMove(s)
    BY <1>1, InsertMoves, Zenon DEF ReqMove, ReqTypes, Answer, Ends
  <2>3. ASSUME NEW t \in Send, t # s PROVE ReqMove(t)
    BY <1>1, <2>3, Zenon DEF ReqMove, ReqTypes, Answer, Ends
  <2> QED
    BY <1>1, <2>1, <2>2, <2>3, InsertMoves, Zenon DEF Moves
<1>2. ASSUME Insert(s) \/ UNCHANGED queueVars, Ends(s, "error"), UNCHANGED job
      PROVE  Moves /\ ReqTypes' /\ stage' \in [Send -> Stages] /\ tries' \in [Send -> Nat]
  <2>1. ReqTypes'
    BY <1>2, Zenon DEF ReqTypes, Ends, Phases
  <2>2. \A t \in Send : ReqMove(t)
    BY <1>2, Zenon DEF ReqMove, ReqTypes, Ends
  <2>3. /\ stage' \in [Send -> Stages] /\ tries' \in [Send -> Nat]
        /\ \A t \in Send : StageMove(t)
    BY <1>2, InsertMoves, Zenon DEF queueVars, StageMove
  <2> QED
    BY <2>1, <2>2, <2>3, Zenon DEF Moves
<1>3. ASSUME Insert(s) \/ UNCHANGED queueVars, UNCHANGED reqVars
      PROVE  Moves /\ ReqTypes' /\ stage' \in [Send -> Stages] /\ tries' \in [Send -> Nat]
  <2>1. ReqTypes'
    BY <1>3, Zenon DEF ReqTypes, reqVars
  <2>2. /\ stage' \in [Send -> Stages] /\ tries' \in [Send -> Nat]
        /\ \A t \in Send : StageMove(t)
    BY <1>3, InsertMoves, Zenon DEF queueVars, StageMove
  <2> QED
    BY <1>3, <2>1, <2>2, KeptReq, Zenon
<1> QED
  BY <1>1, <1>2, <1>3, Zenon DEF Enqueue

(* A claim takes one pending job.                                          *)
LEMMA BeginMoves ==
  ASSUME IInv, NEW j \in Send, Begin(j)
  PROVE  Moves /\ stage' \in [Send -> Stages] /\ tries' \in [Send -> Nat]
         /\ stage[j] = "pending" /\ stage'[j] = "processing"
         /\ \A t \in Send : t # j => stage'[t] = stage[t]
<1> stage \in [Send -> Stages] /\ tries \in [Send -> Nat]
  BY Zenon DEF IInv, Types, WorkTypes
<1>1. /\ stage[j] = "pending"
      /\ stage' = [i \in Send |-> IF i \in {j} THEN "processing" ELSE stage[i]]
      /\ tries' = [i \in Send |-> IF i \in {j} THEN tries[i] + 1 ELSE tries[i]]
      /\ UNCHANGED reqVars
  BY Zenon DEF Begin, Queue!Begin
<1>2. \A t \in Send : StageMove(t)
  BY <1>1, Zenon DEF StageMove
<1> QED
  BY <1>1, <1>2, KeptReq DEF Stages

(* complete() settles a job that is being processed.                       *)
LEMMA FinishMoves ==
  ASSUME IInv, NEW j \in Send, Queue!Finish(j), UNCHANGED reqVars
  PROVE  Moves /\ stage' \in [Send -> Stages] /\ tries' \in [Send -> Nat]
<1> stage \in [Send -> Stages] /\ tries \in [Send -> Nat]
  BY Zenon DEF IInv, Types, WorkTypes
<1>1. stage[j] = "processing" /\ stage' = [stage EXCEPT ![j] = "done"] /\ UNCHANGED tries
  BY Zenon DEF Queue!Finish, Queue!Move
<1>2. \A t \in Send : StageMove(t)
  BY <1>1, Zenon DEF StageMove
<1> QED
  BY <1>1, <1>2, KeptReq, Zenon DEF Stages

-----------------------------------------------------------------------------
(* Every action makes only such moves, and keeps the types.                *)
LEMMA ToMoves ==
  ASSUME IInv, NEW r \in Run, NEW n \in Steps, To(r, n)
  PROVE  Moves /\ ReqTypes' /\ stage' \in [Send -> Stages] /\ tries' \in [Send -> Nat]
         /\ step' \in [Run -> Steps]
<1>1. UNCHANGED <<reqVars, queueVars>> /\ step' \in [Run -> Steps]
  BY Zenon DEF To, IInv, Types, WorkTypes
<1>2. Moves
  BY <1>1, KeptMoves, Zenon
<1> QED
  BY <1>1, <1>2, Zenon DEF IInv, Types, ReqTypes, WorkTypes, reqVars, queueVars

(* The steps of process_queue_job, and of a request that does its own      *)
(* work.                                                                   *)
LEMMA RunTypes ==
  ASSUME IInv, NEW r \in Run,
         Forward(r) \/ PersistSpans(r) \/ KeepCopies(r) \/ UpsertProvisioning(r) \/ LogEnroll(r)
  PROVE  Moves /\ Types'
<1> DEFINE Good == /\ Moves /\ ReqTypes' /\ stage' \in [Send -> Stages]
                   /\ tries' \in [Send -> Nat] /\ step' \in [Run -> Steps]
           Counted == effects' \in [Run -> [Effect -> Nat]]
<1> r[1] \in Send
  BY Zenon DEF Run
<1>1. ASSUME NEW n \in Steps, To(r, n) PROVE Good
  BY <1>1, ToMoves, Zenon
<1>2. ASSUME Raises(r), step[r] \notin {"idle", "gone"} PROVE Good
  BY <1>2, RaisesMoves, RaisesTypes, Zenon DEF IInv
<1>3. ASSUME NEW e \in Effect, Did(r, e) PROVE Counted
  BY <1>3, DidTypes, Zenon DEF IInv
<1>4. UNCHANGED effects => Counted
  BY Zenon DEF IInv, Types, WorkTypes
<1>5. UNCHANGED clients => ClientTypes'
  BY Zenon DEF IInv, Types, ClientTypes, clients
<1>6. UNCHANGED history => applied' \subseteq Send /\ swallowed' \subseteq Run /\ unrecorded' \subseteq Run
  BY Zenon DEF IInv, Types, WorkTypes, history
<1>7. Swallowed(r) => applied' \subseteq Send /\ swallowed' \subseteq Run /\ unrecorded' \subseteq Run
  BY Zenon DEF IInv, Types, WorkTypes, Swallowed
<1>8. UNCHANGED prov => prov' \in [Device -> Send \cup {0}]
  BY Zenon DEF IInv, Types, WorkTypes
<1>9. "upstream" \in Effect /\ "spans" \in Effect /\ "local" \in Effect /\ "s3" \in Effect
  BY Zenon DEF Effect
<1>10. \A n \in {"forwarded", "refused", "local", "s3", "provisioned", "done", "kept"} : n \in Steps
  BY Zenon DEF Steps
<1>11. CASE Forward(r)
  <2>1. Good /\ Counted
    BY <1>1, <1>2, <1>3, <1>4, <1>9, <1>10, <1>11, Zenon DEF Forward
  <2> QED
    BY <1>5, <1>6, <1>8, <1>11, <2>1, Zenon DEF Forward, Types, WorkTypes
<1>12. CASE PersistSpans(r)
  <2>1. Good
    BY <1>1, <1>10, <1>12, Zenon DEF PersistSpans
  <2>2. Counted
    BY <1>3, <1>4, <1>9, <1>12, Zenon DEF PersistSpans
  <2>3. applied' \subseteq Send /\ swallowed' \subseteq Run /\ unrecorded' \subseteq Run
    BY <1>6, <1>7, <1>12, Zenon DEF PersistSpans
  <2> QED
    BY <1>5, <1>8, <1>12, <2>1, <2>2, <2>3, Zenon DEF PersistSpans, Types, WorkTypes
<1>13. CASE KeepCopies(r)
  <2>1. PICK store \in {"local", "s3"}, from \in {"begun", "local"} : Keep(r, store, from, store)
    BY <1>13, Zenon DEF KeepCopies
  <2>2. Good /\ Counted
    BY <1>1, <1>2, <1>3, <1>4, <1>9, <1>10, <2>1, Zenon DEF Keep
  <2> QED
    BY <1>5, <1>6, <1>8, <2>1, <2>2, Zenon DEF Keep, Types, WorkTypes
<1>14. CASE UpsertProvisioning(r)
  <2>1. Good
    BY <1>1, <1>10, <1>14, Zenon DEF UpsertProvisioning
  <2>2. applied' \subseteq Send /\ swallowed' \subseteq Run /\ unrecorded' \subseteq Run
    BY <1>7, <1>14, Zenon DEF UpsertProvisioning, IInv, Types, WorkTypes
  <2>3. prov' \in [Device -> Send \cup {0}]
    BY <1>8, <1>14, Zenon DEF UpsertProvisioning, IInv, Types, WorkTypes
  <2> QED
    BY <1>4, <1>5, <1>14, <2>1, <2>2, <2>3, Zenon DEF UpsertProvisioning, Types, WorkTypes
<1>15. CASE LogEnroll(r)
  <2>1. Good
    BY <1>1, <1>10, <1>15, Zenon DEF LogEnroll
  <2> QED
    BY <1>4, <1>5, <1>6, <1>8, <1>15, <2>1, Zenon DEF LogEnroll, Types, WorkTypes
<1> QED
  BY <1>11, <1>12, <1>13, <1>14, <1>15, Zenon

(* Steps without effects keep the types of the effects.                    *)
LEMMA WorkKept ==
  ASSUME IInv, UNCHANGED <<effects, prov, history>>
  PROVE  /\ effects' \in [Run -> [Effect -> Nat]] /\ prov' \in [Device -> Send \cup {0}]
         /\ applied' \subseteq Send /\ swallowed' \subseteq Run /\ unrecorded' \subseteq Run
BY Zenon DEF IInv, Types, WorkTypes, history

(* Steps that touch no settings, clock or token keep theirs.               *)
LEMMA ClientsKept == ASSUME IInv, UNCHANGED clients PROVE ClientTypes'
BY Zenon DEF IInv, Types, ClientTypes, clients

(* A token minted, the passing of time.                                    *)
LEMMA ClientStep ==
  ASSUME IInv, Tick \/ (\E d \in Device : GetToken(d))
  PROVE  Moves /\ Types' /\ UNCHANGED <<settings, conns, work>>
<1>1. UNCHANGED <<settings, reqVars, work, conns>>
  BY Zenon DEF Tick, GetToken
<1>2. UNCHANGED <<reqVars, queueVars, effects, prov, history, step>>
  BY <1>1, Zenon DEF work, queueVars
<1>3. Moves
  BY <1>2, KeptMoves, Zenon
<1>4. ReqTypes' /\ WorkTypes'
  BY <1>2, Zenon DEF IInv, Types, ReqTypes, WorkTypes, reqVars, queueVars, history
<1>5. ClientTypes'
  <2> token \in [Device -> [cuid : Device \cup {Nobody}, exp : Nat]] /\ now \in Nat
    BY Zenon DEF IInv, Types, ClientTypes
  <2>1. CASE Tick
    BY <2>1 DEF Tick, IInv, Types, ClientTypes
  <2>2. ASSUME NEW d \in Device, GetToken(d) PROVE ClientTypes'
    <3>1. PICK c \in {d, Nobody} : token' = [token EXCEPT ![d] = Minted(c)]
      BY <2>2, Zenon DEF GetToken
    <3>2. /\ Minted(c) \in [cuid : Device \cup {Nobody}, exp : Nat]
          /\ Minted(c).cuid = c
      BY ConstantsOK DEF Minted
    <3>3. token' \in [Device -> [cuid : Device \cup {Nobody}, exp : Nat]]
      BY <3>1, <3>2, Zenon
    <3>4. \A e \in Device : token'[e].cuid \in {e, Nobody}
      BY <3>1, <3>2, Zenon DEF IInv, Types, ClientTypes
    <3> QED
      BY <2>2, <3>3, <3>4, Zenon DEF GetToken, IInv, Types, ClientTypes
  <2> QED
    BY <2>1, <2>2, Zenon
<1> QED
  BY <1>1, <1>3, <1>4, <1>5, Zenon DEF Types

(* What a device sends is one of its bodies.                               *)
LEMMA BodyOK == ASSUME IInv, NEW p \in settings.bodies PROVE p \in Payload
BY ConstantsOK, Zenon DEF IInv, Types, ClientTypes

(* The identity of telemetry and of an enrollment fits its body.           *)
LEMMA TracesFit ==
  ASSUME IInv, NEW p \in Payload, Topic[p] = "telemetry"
  PROVE  ClientUuid(Origin[p]) \in Device \cup {Zero, Open, Nobody} /\ Fits(p, ClientUuid(Origin[p]))
<1> Origin[p] \in Device
  BY ConstantsOK, Zenon
<1>1. ClientUuid(Origin[p]) \in {Origin[p], Zero, Open, Nobody}
  BY ClientType, Zenon DEF IInv
<1>2. Origin[p] \in SendsUuid =>
        ClientUuid(Origin[p]) \in {IF settings.requireToken THEN Origin[p] ELSE Open, Nobody}
  BY Zenon DEF IInv, Types, ClientTypes, ClientUuid
<1> QED
  BY <1>1, <1>2, Zenon DEF Fits

(* The receipt of a request, with its row of the connection log.           *)
LEMMA ArrivalStep ==
  ASSUME IInv, NEW s \in Send, NEW p \in settings.bodies,
         TelemetryTraces(s, p) \/ Enroll(s, p) \/ Rejected(s, p)
  PROVE  /\ Moves /\ Types' /\ UNCHANGED <<clients, work>>
         /\ \/ UNCHANGED conns
            \/ conns' = conns \cup {who'[s]} /\ who'[s] \in Device \cup {Zero} /\ phase'[s] # "unsent"
<1> p \in Payload
  BY BodyOK, Zenon
<1> Origin[p] \in Device
  BY ConstantsOK, Zenon
<1> UNCHANGED <<clients, work>>
  BY Zenon DEF TelemetryTraces, Enroll, Rejected
<1>1. UNCHANGED <<settings, queueVars, step, effects, prov, history>>
  BY Zenon DEF work, clients, queueVars
<1>2. WorkTypes' /\ ClientTypes'
  BY <1>1, ClientsKept, WorkKept, Zenon DEF IInv, Types, WorkTypes, queueVars
<1>3. ASSUME NEW c \in Device \cup {Zero, Open, Nobody}, NEW f \in {"received", "error"},
             Arrives(s, p, c, f), NextSend(s), Fits(p, c), c = Nobody => f = "error"
      PROVE  Moves /\ Types' /\ who'[s] = c /\ phase'[s] = f
  <2>1. Moves /\ ReqTypes'
    BY <1>1, <1>3, ArriveMoves, Zenon
  <2> QED
    BY <1>2, <1>3, <2>1, Zenon DEF Arrives, IInv, Types, ReqTypes
<1>4. CASE TelemetryTraces(s, p)
  <2> DEFINE c == ClientUuid(Origin[p])
  <2>1. c \in Device \cup {Zero, Open, Nobody} /\ Fits(p, c)
    BY <1>4, TracesFit, Zenon DEF TelemetryTraces
  <2>2. CASE c = Nobody
    BY <1>3, <1>4, <2>1, <2>2, Zenon DEF TelemetryTraces
  <2>3. CASE c # Nobody
    <3>1. /\ NextSend(s) /\ Arrives(s, p, c, "received")
          /\ UNCHANGED conns \/ Logged(c)
      BY <1>4, <2>3, Zenon DEF TelemetryTraces
    <3> HIDE DEF c
    <3>2. Moves /\ Types' /\ who'[s] = c /\ phase'[s] = "received"
      BY <1>3, <2>1, <2>3, <3>1, Zenon
    <3> QED
      BY <2>1, <2>3, <3>1, <3>2, Zenon DEF Logged
  <2> QED
    BY <2>2, <2>3, Zenon
<1>5. CASE Enroll(s, p)
  <2>1. Fits(p, Origin[p]) /\ Origin[p] # Nobody
    BY <1>5, ConstantsOK, Zenon DEF Enroll, Fits, Nobody
  <2> QED
    BY <1>3, <1>5, <2>1, Zenon DEF Enroll
<1>6. CASE Rejected(s, p)
  <2>1. Fits(p, Nobody)
    BY Zenon DEF Fits
  <2> QED
    BY <1>3, <1>6, <2>1, Zenon DEF Rejected
<1> QED
  BY <1>4, <1>5, <1>6, Zenon

(* The enqueue, the claim, the completion and the answer.                  *)
LEMMA HandlingStep ==
  ASSUME IInv, NEW s \in Send,
         Enqueue(s) \/ NoQueue(s) \/ Begin(s) \/ Acknowledge(s) \/ Reply(s)
  PROVE  Moves /\ Types'
<1> <<s, "direct">> \in Run /\ <<s, "job">> \in Run
  BY Zenon DEF Run
<1> step \in [Run -> Steps] /\ "begun" \in Steps /\ "idle" \in Steps
  BY Zenon DEF IInv, Types, WorkTypes, Steps
<1>1. UNCHANGED clients /\ UNCHANGED <<effects, prov>>
  BY Zenon DEF Enqueue, NoQueue, Begin, Acknowledge, Reply
<1>2. ClientTypes'
  BY <1>1, ClientsKept, Zenon
<1>3. CASE Enqueue(s)
  <2>1. UNCHANGED <<effects, prov, history>> /\ step' \in [Run -> Steps]
    BY <1>3, Zenon DEF Enqueue
  <2> QED
    BY <1>2, <1>3, <2>1, EnqueueMoves, WorkKept, Zenon DEF Types, WorkTypes
<1>4. CASE NoQueue(s)
  <2>1. UNCHANGED <<effects, prov, history>> /\ step' \in [Run -> Steps]
    BY <1>4, Zenon DEF NoQueue
  <2>2. UNCHANGED <<reqVars, queueVars>>
    BY <1>4, Zenon DEF NoQueue
  <2>3. ReqTypes' /\ stage' \in [Send -> Stages] /\ tries' \in [Send -> Nat]
    BY <2>2, Zenon DEF IInv, Types, ReqTypes, WorkTypes, reqVars, queueVars
  <2> QED
    BY <1>2, <2>1, <2>2, <2>3, KeptMoves, WorkKept, Zenon DEF Types, WorkTypes
<1>5. CASE Begin(s)
  <2>1. UNCHANGED <<effects, prov, history>> /\ step' \in [Run -> Steps] /\ UNCHANGED reqVars
    BY <1>5, Zenon DEF Begin
  <2>2. ReqTypes'
    BY <2>1, Zenon DEF IInv, Types, ReqTypes, reqVars
  <2> QED
    BY <1>2, <1>5, <2>1, <2>2, BeginMoves, WorkKept, Zenon DEF Types, WorkTypes
<1>6. CASE Acknowledge(s)
  <2>1. step[<<s, "job">>] = "done"
    BY <1>6, Zenon DEF Acknowledge
  <2>2. CASE Queue!Finish(s) /\ UNCHANGED <<reqVars, history>> /\ step' = [step EXCEPT ![<<s, "job">>] = "idle"]
    <3>1. ReqTypes'
      BY <2>2, Zenon DEF IInv, Types, ReqTypes, reqVars
    <3>2. step' \in [Run -> Steps]
      BY <2>2, Zenon
    <3>3. UNCHANGED <<effects, prov, history>> /\ UNCHANGED reqVars
      BY <1>1, <2>2, Zenon
    <3> QED
      BY <1>2, <2>2, <3>1, <3>2, <3>3, FinishMoves, WorkKept, Zenon DEF Types, WorkTypes
  <2>3. CASE Raises(<<s, "job">>) /\ unrecorded' = unrecorded \cup {<<s, "job">>} /\ UNCHANGED <<applied, swallowed>>
    <3>1. Moves
      BY <2>1, <2>3, RaisesMoves, Zenon
    <3>2. ReqTypes' /\ stage' \in [Send -> Stages] /\ tries' \in [Send -> Nat] /\ step' \in [Run -> Steps]
      BY <2>3, RaisesTypes, Zenon DEF IInv
    <3> QED
      BY <1>1, <1>2, <2>3, <3>1, <3>2, Zenon DEF IInv, Types, WorkTypes
  <2> QED
    BY <1>6, <2>2, <2>3, Zenon DEF Acknowledge
<1>7. CASE Reply(s)
  <2>1. PICK end \in {"ok", "unheard", "error"} : Answer(s, end)
    BY <1>7, Zenon DEF Reply
  <2>2. phase[s] = "received"
    BY <1>7, Zenon DEF Reply, IInv, ExecOK
  <2>3. UNCHANGED <<job, queueVars>> /\ UNCHANGED <<effects, prov, history>> /\ step' \in [Run -> Steps]
    BY <1>7, Zenon DEF Reply
  <2>4. Moves /\ ReqTypes'
    BY <2>1, <2>2, <2>3, EndMoves, Zenon DEF Answer
  <2> QED
    BY <1>2, <2>3, <2>4, WorkKept, Zenon DEF IInv, Types, WorkTypes, queueVars
<1> QED
  BY <1>3, <1>4, <1>5, <1>6, <1>7, Zenon

(* The death of a worker, or of the process that serves a request.         *)
LEMMA DieStep ==
  ASSUME IInv, NEW r \in Run, Die(r)
  PROVE  Moves /\ Types'
<1>1. r[1] \in Send /\ r = <<r[1], r[2]>> /\ r[2] \in {"job", "direct"}
  BY DEF Run
<1>2. /\ UNCHANGED clients /\ UNCHANGED <<effects, prov, history>> /\ UNCHANGED queueVars
      /\ step' \in [Run -> Steps]
  BY Zenon DEF Die, IInv, Types, WorkTypes, Steps
<1>3. Moves /\ ReqTypes'
  <2>1. CASE r[2] = "direct"
    <3>1. phase[r[1]] = "received"
      BY <1>1, <2>1, Zenon DEF Die, IInv, ExecOK
    <3> QED
      BY <1>1, <1>2, <2>1, <3>1, EndMoves, Zenon DEF Die
  <2>2. CASE r[2] = "job"
    <3>1. UNCHANGED reqVars
      BY <2>2, Zenon DEF Die
    <3>2. ReqTypes'
      BY <3>1, Zenon DEF IInv, Types, ReqTypes, reqVars
    <3> QED
      BY <1>2, <3>1, <3>2, KeptMoves, Zenon
  <2> QED
    BY <1>1, <2>1, <2>2, Zenon
<1> QED
  BY <1>2, <1>3, ClientsKept, WorkKept, Zenon DEF IInv, Types, WorkTypes, queueVars

(* A step that changes nothing.                                            *)
LEMMA StutterStep == ASSUME IInv, UNCHANGED vars PROVE Moves /\ Types'
<1>1. UNCHANGED <<reqVars, queueVars, step, clients, effects, prov, history>>
  BY Zenon DEF vars, queueVars, clients
<1>2. ReqTypes' /\ stage' \in [Send -> Stages] /\ tries' \in [Send -> Nat] /\ step' \in [Run -> Steps]
  BY <1>1, Zenon DEF IInv, Types, ReqTypes, WorkTypes, reqVars, queueVars
<1> QED
  BY <1>1, <1>2, KeptMoves, ClientsKept, WorkKept, Zenon DEF Types, WorkTypes

(* Every step is made of such moves and keeps the types.                   *)
LEMMA NextMoves == ASSUME IInv, [Next]_vars PROVE Moves /\ Types'
BY ClientStep, ArrivalStep, HandlingStep, RunTypes, DieStep, StutterStep, Zenon DEF Next


(* Only a request that was received and is not settled is being executed.  *)
LEMMA ActiveSent ==
  ASSUME IInv, NEW r \in Run, step[r] \notin {"idle", "gone"}
  PROVE  /\ r[1] \in Sent /\ Unsettled(r[1]) /\ who[r[1]] # Nobody
         /\ payload[r[1]] \in Payload /\ Fits(payload[r[1]], who[r[1]])
         /\ r[2] = "job" => stage[r[1]] = "processing"
         /\ r[2] = "direct" => phase[r[1]] = "received"
<1>1. r[1] \in Send /\ r = <<r[1], r[2]>> /\ r[2] \in {"job", "direct"}
  BY DEF Run
<1>2. /\ r[2] = "job" => stage[r[1]] = "processing"
      /\ r[2] = "direct" => phase[r[1]] = "received"
  BY <1>1, Zenon DEF IInv, ExecOK
<1>3. who[r[1]] # Nobody
  BY <1>1, <1>2, Zenon DEF IInv, ReqOK
<1>4. phase[r[1]] # "unsent"
  BY <1>1, <1>3, Zenon DEF IInv, ReqOK
<1> QED
  BY <1>1, <1>2, <1>3, <1>4, Zenon DEF IInv, ReqOK, Sent, Unsettled, InProgress

-----------------------------------------------------------------------------
(* What any step may do to an execution: leave it alone, start it, take it *)
(* further, fail it, end it or kill it.                                    *)
Active(r) == step[r] \notin {"idle", "gone"}

Rests(r) ==
  /\ step'[r] = step[r] /\ effects'[r] = effects[r]
  /\ r[2] = "job" => stage'[r[1]] = stage[r[1]]
                     \/ {stage[r[1]], stage'[r[1]]} \subseteq {"absent", "pending"}
  /\ r[2] = "direct" => /\ Active(r) => phase'[r[1]] = phase[r[1]]
                        /\ phase'[r[1]] = "ok" /\ job'[r[1]] = 0 => phase[r[1]] = "ok"

Starts(r) ==
  /\ step[r] = "idle" /\ step'[r] = "begun" /\ effects'[r] = effects[r]
  /\ r[2] = "job" => stage[r[1]] = "pending" /\ stage'[r[1]] = "processing"
  /\ r[2] = "direct" => phase[r[1]] = "received" /\ phase'[r[1]] = "received"

Goes(r) ==
  /\ Active(r) /\ step[r] \notin {"done", "kept"} /\ step'[r] \notin {"idle", "gone"}
  /\ UNCHANGED <<phase, stage>>
  /\ \/ effects'[r]["spans"] = effects[r]["spans"]
     \/ effects'[r]["spans"] = effects[r]["spans"] + 1 /\ step'[r] \in {"done", "kept"}
  /\ RunOK(r)'

Fails(r) ==
  /\ Active(r) /\ step'[r] = "idle"
  /\ effects'[r]["spans"] = effects[r]["spans"]
  /\ r[2] = "job" => stage'[r[1]] \in {"pending", "dead"}
  /\ r[2] = "direct" => phase'[r[1]] = "error"
  /\ step[r] \in {"done", "kept"} => r \in unrecorded'

Concludes(r) ==
  /\ step[r] \in {"done", "kept"} /\ step'[r] = "idle" /\ effects'[r] = effects[r]
  /\ r[2] = "job" => step[r] = "done" /\ stage'[r[1]] = "done"
  /\ r[2] = "direct" => /\ phase'[r[1]] \in {"ok", "unheard", "error"}
                        /\ phase'[r[1]] = "ok" => step[r] = "done"

Dies(r) ==
  /\ Active(r) /\ step'[r] = "gone" /\ effects'[r] = effects[r]
  /\ r[2] = "job" => stage'[r[1]] = stage[r[1]]
  /\ r[2] = "direct" => phase'[r[1]] = "unheard"

RunMove(r) == Rests(r) \/ Starts(r) \/ Goes(r) \/ Fails(r) \/ Concludes(r) \/ Dies(r)

Grows == /\ applied \subseteq applied' /\ swallowed \subseteq swallowed'
         /\ unrecorded \subseteq unrecorded'
         /\ \A r \in Run, e \in Effect : effects'[r][e] >= effects[r][e]

-----------------------------------------------------------------------------
(* Every action moves executions like that.                                *)
OnlyRun(r) == \A q \in Run : q # r => effects'[q] = effects[q]

(* The effects of a run only grow, and spans only by keeping them.         *)
LEMMA EffectsGrow ==
  ASSUME IInv, NEW r \in Run, NEW e \in Effect, UNCHANGED effects \/ Did(r, e)
  PROVE  /\ OnlyRun(r)
         /\ \A q \in Run, f \in Effect : effects'[q][f] >= effects[q][f]
         /\ \A f \in Effect : f # e => effects'[r][f] = effects[r][f]
<1>1. effects \in [Run -> [Effect -> Nat]] /\ Types
  BY Zenon DEF IInv, Types, WorkTypes
<1>2. \A q \in Run, f \in Effect : effects[q][f] \in Nat
  BY <1>1, Zenon
<1>3. CASE UNCHANGED effects
  BY <1>2, <1>3 DEF OnlyRun
<1>4. CASE Did(r, e)
  BY <1>1, <1>2, <1>4, DidTypes DEF OnlyRun
<1> QED
  BY <1>3, <1>4, Zenon

(* A step of one execution, or its failure, leaves the others alone.       *)
LEMMA ToGoes ==
  ASSUME IInv, NEW r \in Run, NEW n \in Steps \ {"idle", "gone"}, To(r, n), OnlyRun(r),
         Active(r), step[r] \notin {"done", "kept"}, RunOK(r)',
         \/ effects'[r]["spans"] = effects[r]["spans"]
         \/ effects'[r]["spans"] = effects[r]["spans"] + 1 /\ n \in {"done", "kept"}
  PROVE  \A q \in Run : RunMove(q)
<1>1. /\ UNCHANGED <<phase, job, stage>> /\ step \in [Run -> Steps]
      /\ step' = [step EXCEPT ![r] = n]
  BY Zenon DEF To, reqVars, queueVars, IInv, Types, WorkTypes
<1>2. Goes(r)
  BY <1>1, Zenon DEF Goes
<1>3. ASSUME NEW q \in Run, q # r PROVE Rests(q)
  BY <1>1, <1>3, Zenon DEF Rests, OnlyRun
<1> QED
  BY <1>2, <1>3, Zenon DEF RunMove

(* An exception fails its execution and leaves the others alone.           *)
LEMMA RaisesFails ==
  ASSUME IInv, NEW r \in Run, Raises(r), Active(r), OnlyRun(r),
         effects'[r]["spans"] = effects[r]["spans"],
         step[r] \in {"done", "kept"} => r \in unrecorded'
  PROVE  \A q \in Run : RunMove(q)
<1>1. /\ step \in [Run -> Steps] /\ stage \in [Send -> Stages] /\ phase \in [Send -> Phases]
      /\ step' = [step EXCEPT ![r] = "idle"] /\ r[1] \in Send /\ r[2] \in {"job", "direct"}
      /\ r = <<r[1], r[2]>>
  BY DEF Raises, IInv, Types, ReqTypes, WorkTypes, Run
<1>2. CASE r[2] = "job"
  <2>1. /\ UNCHANGED <<phase, job>>
        /\ stage' = [stage EXCEPT ![r[1]] = "pending"] \/ stage' = [stage EXCEPT ![r[1]] = "dead"]
    BY <1>2, Zenon DEF Raises, reqVars, Queue!GiveBack, Queue!GiveUp, Queue!Move
  <2>2. Fails(r)
    BY <1>1, <1>2, <2>1, Zenon DEF Fails
  <2>3. ASSUME NEW q \in Run, q # r PROVE Rests(q)
    <3>1. q[2] = "job" => q[1] # r[1]
      BY <1>1, <1>2, <2>3 DEF Run
    <3>2. q[2] = "job" => stage'[q[1]] = stage[q[1]]
      BY <1>1, <2>1, <3>1, Zenon DEF Run
    <3> QED
      BY <1>1, <2>1, <2>3, <3>2, Zenon DEF Rests, OnlyRun
  <2> QED
    BY <2>2, <2>3, Zenon DEF RunMove
<1>3. CASE r[2] = "direct"
  <2>1. phase' = [phase EXCEPT ![r[1]] = "error"] /\ UNCHANGED <<job, stage>>
    BY <1>3, Zenon DEF Raises, Ends, queueVars
  <2>2. Fails(r)
    BY <1>1, <1>3, <2>1, Zenon DEF Fails
  <2>3. ASSUME NEW q \in Run, q # r PROVE Rests(q)
    <3>1. q[2] = "direct" => q[1] # r[1]
      BY <1>1, <1>3, <2>3 DEF Run
    <3>2. q[2] = "direct" => phase'[q[1]] = phase[q[1]]
      BY <1>1, <2>1, <3>1, Zenon DEF Run
    <3> QED
      BY <1>1, <2>1, <2>3, <3>2, Zenon DEF Rests, OnlyRun
  <2> QED
    BY <2>2, <2>3, Zenon DEF RunMove
<1> QED
  BY <1>1, <1>2, <1>3, Zenon

(* The upstream POST.                                                      *)
LEMMA ForwardRuns ==
  ASSUME IInv, NEW r \in Run, Forward(r)
  PROVE  (\A q \in Run : RunMove(q)) /\ Grows
<1>1. /\ Active(r) /\ step[r] = "begun" /\ TopicOf(r) = "telemetry" /\ UNCHANGED history
      /\ "upstream" \in Effect /\ "spans" \in Effect /\ "spans" # "upstream"
      /\ UNCHANGED effects \/ Did(r, "upstream")
  BY Zenon DEF Forward, Active, Effect
<1>2. /\ OnlyRun(r) /\ effects'[r]["spans"] = effects[r]["spans"]
      /\ \A q \in Run, f \in Effect : effects'[q][f] >= effects[q][f]
  BY <1>1, EffectsGrow, Zenon
<1>3. Grows
  BY <1>1, <1>2, Zenon DEF Grows, history
<1>4. ASSUME NEW n \in {"forwarded", "refused"}, To(r, n), n = "forwarded" => Did(r, "upstream")
      PROVE  \A q \in Run : RunMove(q)
  <2>1. step'[r] = n /\ TopicOf(r)' = "telemetry"
    BY <1>1, <1>4, Zenon DEF To, reqVars, TopicOf, PayloadOf, IInv, Types, WorkTypes
  <2>2. n = "forwarded" => effects'[r]["upstream"] > 0
    <3>1. effects[r]["upstream"] \in Nat /\ Types
      BY <1>1, Zenon DEF IInv, Types, WorkTypes
    <3> QED
      BY <1>1, <1>4, <3>1, DidTypes
  <2>3. RunOK(r)'
    BY <2>1, <2>2, Zenon DEF RunOK
  <2> QED
    BY <1>1, <1>2, <1>4, <2>3, ToGoes, Zenon DEF Steps
<1>5. CASE Raises(r)
  <2>1. step[r] \notin {"done", "kept"}
    BY <1>1, Zenon
  <2> QED
    BY <1>1, <1>2, <1>3, <1>5, <2>1, RaisesFails, Zenon
<1> QED
  BY <1>3, <1>4, <1>5, Zenon DEF Forward

(* The storing of spans.                                                   *)
LEMMA PersistRuns ==
  ASSUME IInv, NEW r \in Run, PersistSpans(r)
  PROVE  (\A q \in Run : RunMove(q)) /\ Grows
<1> DEFINE n == IF step[r] = "forwarded" THEN "done" ELSE "kept"
<1>1. /\ Active(r) /\ step[r] \in {"forwarded", "refused"} /\ To(r, n)
      /\ "spans" \in Effect /\ "upstream" \in Effect
      /\ \/ Did(r, "spans") /\ UNCHANGED history
         \/ UNCHANGED effects /\ Swallowed(r)
  BY Zenon DEF PersistSpans, Active, Effect
<1>2. OnlyRun(r) /\ \A q \in Run, f \in Effect : effects'[q][f] >= effects[q][f]
  BY <1>1, EffectsGrow, Zenon
<1>3. Grows
  BY <1>1, <1>2, Zenon DEF Grows, history, Swallowed
<1>4. /\ effects[r]["spans"] \in Nat /\ effects[r]["upstream"] \in Nat
      /\ effects'[r]["upstream"] = effects[r]["upstream"]
      /\ \/ effects'[r]["spans"] = effects[r]["spans"] + 1
         \/ effects'[r]["spans"] = effects[r]["spans"] /\ r \in swallowed'
  <2>1. Types /\ effects \in [Run -> [Effect -> Nat]]
    BY Zenon DEF IInv, Types, WorkTypes
  <2> QED
    BY <1>1, <2>1, DidTypes, ZenonT(40) DEF Swallowed
<1>5. TopicOf(r) = "telemetry" /\ (step[r] = "forwarded" => effects[r]["upstream"] > 0)
  BY <1>1, Zenon DEF IInv, RunOK
<1>6. step'[r] = n /\ TopicOf(r)' = "telemetry"
  BY <1>1, <1>5, Zenon DEF To, reqVars, TopicOf, PayloadOf, IInv, Types, WorkTypes
<1>7. step'[r] = "done" => EffectsHad(r)'
  BY <1>4, <1>5, <1>6 DEF EffectsHad
<1>8. RunOK(r)'
  BY <1>6, <1>7, Zenon DEF RunOK
<1> QED
  BY <1>1, <1>2, <1>3, <1>4, <1>8, ToGoes, Zenon DEF Steps

(* The copies of an enroll body.                                           *)
LEMMA KeepRuns ==
  ASSUME IInv, NEW r \in Run, KeepCopies(r)
  PROVE  (\A q \in Run : RunMove(q)) /\ Grows
<1>1. ASSUME NEW store \in {"local", "s3"}, NEW from \in {"begun", "local"}, NEW n \in {"local", "s3"},
             Keep(r, store, from, n), from = "begun" => n = "local" /\ store = "local",
             from = "local" => n = "s3" /\ store = "s3"
      PROVE  (\A q \in Run : RunMove(q)) /\ Grows
  <2>1. /\ Active(r) /\ step[r] = from /\ TopicOf(r) = "enroll" /\ UNCHANGED history
        /\ store \in Effect /\ "spans" \in Effect /\ "local" \in Effect /\ store # "spans"
        /\ UNCHANGED effects \/ Did(r, store)
    BY <1>1, Zenon DEF Keep, Active, Effect
  <2>2. /\ OnlyRun(r) /\ effects'[r]["spans"] = effects[r]["spans"]
        /\ \A q \in Run, f \in Effect : effects'[q][f] >= effects[q][f]
    BY <2>1, EffectsGrow, Zenon
  <2>3. Grows
    BY <2>1, <2>2, Zenon DEF Grows, history
  <2>4. CASE To(r, n) /\ (store \in Stores => Did(r, store))
    <3>1. step'[r] = n /\ TopicOf(r)' = "enroll"
      BY <2>1, <2>4, Zenon DEF To, reqVars, TopicOf, PayloadOf, IInv, Types, WorkTypes
    <3>2. store \in Stores => effects'[r][store] > 0
      <4>1. effects[r][store] \in Nat /\ Types
        BY <2>1, Zenon DEF IInv, Types, WorkTypes
      <4> QED
        BY <2>1, <2>4, <4>1, DidTypes
    <3>3. from = "local" /\ "local" \in Stores => effects'[r]["local"] > 0
      <4>1. effects[r]["local"] \in Nat /\ effects'[r]["local"] >= effects[r]["local"]
        BY <2>1, <2>2, Zenon DEF IInv, Types, WorkTypes
      <4>2. from = "local" => from # "begun" /\ store # "local"
        BY <1>1, Zenon
      <4>3. from = "local" /\ "local" \in Stores => effects[r]["local"] > 0
        BY <2>1, Zenon DEF IInv, RunOK
      <4>4. from = "local" => effects'[r]["local"] = effects[r]["local"]
        BY <2>1, <4>2, EffectsGrow, Zenon
      <4> QED
        BY <4>3, <4>4, Zenon
    <3>4. RunOK(r)'
      BY <1>1, <3>1, <3>2, <3>3, Zenon DEF RunOK
    <3> QED
      BY <2>1, <2>2, <2>3, <2>4, <3>4, ToGoes, Zenon DEF Steps
  <2>5. CASE Raises(r)
    BY <1>1, <2>1, <2>2, <2>3, <2>5, RaisesFails, Zenon
  <2> QED
    BY <1>1, <2>4, <2>5, Zenon DEF Keep
<1> QED
  BY <1>1, Zenon DEF KeepCopies

(* The provisioning row, and the connection log row after it.              *)
LEMMA UpsertRuns ==
  ASSUME IInv, NEW r \in Run, UpsertProvisioning(r) \/ LogEnroll(r)
  PROVE  (\A q \in Run : RunMove(q)) /\ Grows
<1> DEFINE n == IF step[r] = "s3" THEN "provisioned" ELSE "done"
<1>1. /\ Active(r) /\ step[r] \in {"s3", "provisioned"} /\ To(r, n) /\ UNCHANGED effects
      /\ applied \subseteq applied' /\ swallowed \subseteq swallowed' /\ UNCHANGED unrecorded
      /\ step[r] = "s3" => r[1] \in applied' \/ r \in swallowed'
  BY Zenon DEF UpsertProvisioning, LogEnroll, Active, Swallowed, history
<1>2. "spans" \in Effect /\ OnlyRun(r) /\ \A q \in Run, f \in Effect : effects'[q][f] >= effects[q][f]
  BY <1>1, EffectsGrow, Zenon DEF Effect
<1>3. Grows
  BY <1>1, <1>2, Zenon DEF Grows
<1>4. /\ TopicOf(r) = "enroll" /\ \A store \in Stores : effects[r][store] > 0
      /\ step[r] = "provisioned" => r[1] \in applied \/ r \in swallowed
  BY <1>1, ConstantsOK, Zenon DEF IInv, RunOK
<1>5. step'[r] = n /\ TopicOf(r)' = "enroll"
  BY <1>1, <1>4, Zenon DEF To, reqVars, TopicOf, PayloadOf, IInv, Types, WorkTypes
<1>6. r[1] \in applied' \/ r \in swallowed'
  BY <1>1, <1>4, Zenon
<1>7. EffectsHad(r)'
  BY <1>1, <1>4, <1>5, <1>6, Zenon DEF EffectsHad
<1>8. RunOK(r)'
  BY <1>1, <1>4, <1>5, <1>6, <1>7, Zenon DEF RunOK
<1>9. step[r] \notin {"done", "kept"} /\ n \in Steps \ {"idle", "gone"} /\ effects'[r]["spans"] = effects[r]["spans"]
  BY <1>1, Zenon DEF Steps
<1> HIDE DEF n
<1> QED
  BY <1>1, <1>2, <1>3, <1>8, <1>9, ToGoes, Zenon

(* Nothing is lost where nothing is done.                                  *)
LEMMA StillGrows == ASSUME IInv, UNCHANGED <<effects, history>> PROVE Grows
<1>1. \A q \in Run, f \in Effect : effects[q][f] \in Nat
  BY Zenon DEF IInv, Types, WorkTypes
<1> QED
  BY <1>1 DEF Grows, history

(* An enqueue leaves all executions alone, except that of an enrollment    *)
(* whose enqueue raised.                                                   *)
LEMMA EnqueueRuns ==
  ASSUME IInv, NEW s \in Send, Enqueue(s) \/ NoQueue(s)
  PROVE  (\A q \in Run : RunMove(q)) /\ Grows
<1> DEFINE r == <<s, "direct">>
<1>1. /\ r \in Run /\ r[1] = s /\ r[2] = "direct" /\ phase[s] = "received" /\ step[r] = "idle"
      /\ UNCHANGED <<effects, history>>
  BY Zenon DEF Enqueue, NoQueue, InProgress, Run
<1>2. step \in [Run -> Steps] /\ stage \in [Send -> Stages] /\ phase \in [Send -> Phases] /\ job \in [Send -> Send \cup {0}]
  BY Zenon DEF IInv, Types, ReqTypes, WorkTypes
<1>3. \A t \in Send : \/ stage'[t] = stage[t]
                      \/ {stage[t], stage'[t]} \subseteq {"absent", "pending"}
  BY <1>2, Zenon DEF Enqueue, NoQueue, Insert, Queue!Accept, Queue!Move, queueVars
<1>4. \A q \in Run : q[1] \in Send /\ q = <<q[1], q[2]>> /\ (q[2] = "job" => q # r) /\ (q[2] = "direct" /\ q # r => q[1] # s)
  BY DEF Run
<1> HIDE DEF r
<1>5. CASE UNCHANGED reqVars /\ step' = [step EXCEPT ![r] = "begun"]
  <2>1. UNCHANGED <<phase, job>>
    BY <1>5, Zenon DEF reqVars
  <2>2. Starts(r)
    BY <1>1, <1>2, <1>5, <2>1, Zenon DEF Starts
  <2>3. ASSUME NEW q \in Run, q # r PROVE Rests(q)
    BY <1>1, <1>2, <1>3, <1>4, <1>5, <2>1, <2>3, Zenon DEF Rests
  <2> QED
    BY <1>1, <2>2, <2>3, StillGrows, Zenon DEF RunMove
<1>6. ASSUME UNCHANGED step, NEW end \in {"ok", "unheard", "error"}, Ends(s, end),
             \/ UNCHANGED job /\ end = "error"
             \/ job' = [job EXCEPT ![s] = JobOf(s)] /\ JobOf(s) # 0
      PROVE  (\A q \in Run : RunMove(q)) /\ Grows
  <2>1. phase' = [phase EXCEPT ![s] = end]
    BY <1>6, Zenon DEF Ends
  <2>2. ASSUME NEW q \in Run PROVE Rests(q)
    <3>1. q[2] = "direct" => /\ Active(q) => phase'[q[1]] = phase[q[1]]
                             /\ phase'[q[1]] = "ok" /\ job'[q[1]] = 0 => phase[q[1]] = "ok"
      <4>1. CASE q = r
        BY <1>1, <1>2, <1>6, <2>1, <4>1, Zenon DEF Active
      <4>2. CASE q # r
        BY <1>2, <1>4, <1>6, <2>1, <4>2, Zenon
      <4> QED
        BY <4>1, <4>2, Zenon
    <3> QED
      BY <1>1, <1>3, <1>4, <1>6, <3>1, Zenon DEF Rests
  <2> QED
    BY <1>1, <2>2, StillGrows, Zenon DEF RunMove
<1>7. CASE NoQueue(s)
  BY <1>5, <1>7, Zenon DEF NoQueue, r
<1>8. CASE Enqueue(s)
  <2>1. Insert(s) => JobOf(s) # 0
    BY <1>1, InsertMoves, ConstantsOK DEF Send
  <2> QED
    BY <1>5, <1>6, <1>8, <2>1, Zenon DEF Enqueue, Answer, r
<1> QED
  BY <1>7, <1>8, Zenon

(* A claim starts the execution of its job.                                *)
LEMMA BeginRuns ==
  ASSUME IInv, NEW s \in Send, Begin(s)
  PROVE  (\A q \in Run : RunMove(q)) /\ Grows
<1> DEFINE r == <<s, "job">>
<1>1. /\ r \in Run /\ r[1] = s /\ r[2] = "job" /\ UNCHANGED <<effects, history>>
      /\ UNCHANGED <<phase, job>> /\ step' = [step EXCEPT ![r] = "begun"]
  BY Zenon DEF Begin, Run, reqVars
<1>2. /\ step \in [Run -> Steps] /\ stage[s] = "pending" /\ stage'[s] = "processing"
      /\ \A t \in Send : t # s => stage'[t] = stage[t]
  BY BeginMoves, Zenon DEF IInv, Types, WorkTypes
<1>3. step[r] = "idle"
  BY <1>2, Zenon DEF IInv, ExecOK
<1>4. \A q \in Run : q[1] \in Send /\ (q[2] = "job" /\ q # r => q[1] # s)
  BY DEF Run
<1> HIDE DEF r
<1>5. Starts(r)
  BY <1>1, <1>2, <1>3, Zenon DEF Starts
<1>6. ASSUME NEW q \in Run, q # r PROVE Rests(q)
  BY <1>1, <1>2, <1>4, <1>6, Zenon DEF Rests
<1> QED
  BY <1>1, <1>5, <1>6, StillGrows, Zenon DEF RunMove

(* complete() concludes an execution, or fails it unrecorded.              *)
LEMMA AcknowledgeRuns ==
  ASSUME IInv, NEW s \in Send, Acknowledge(s)
  PROVE  (\A q \in Run : RunMove(q)) /\ Grows
<1> DEFINE r == <<s, "job">>
<1>1. /\ r \in Run /\ r[1] = s /\ r[2] = "job" /\ UNCHANGED effects /\ step[r] = "done"
  BY Zenon DEF Acknowledge, Run
<1>2. step \in [Run -> Steps] /\ stage \in [Send -> Stages]
  BY Zenon DEF IInv, Types, WorkTypes
<1>3. \A q \in Run : q[1] \in Send /\ (q[2] = "job" /\ q # r => q[1] # s)
  BY DEF Run
<1>4. CASE Queue!Finish(s) /\ step' = [step EXCEPT ![r] = "idle"] /\ UNCHANGED <<reqVars, history>>
  <2>1. stage' = [stage EXCEPT ![s] = "done"] /\ UNCHANGED <<phase, job>>
    BY <1>4, Zenon DEF Queue!Finish, Queue!Move, reqVars
  <2> HIDE DEF r
  <2>2. Concludes(r)
    BY <1>1, <1>2, <1>4, <2>1, Zenon DEF Concludes
  <2>3. ASSUME NEW q \in Run, q # r PROVE Rests(q)
    BY <1>1, <1>2, <1>3, <1>4, <2>1, <2>3, Zenon DEF Rests
  <2>4. Grows
    BY <1>1, <1>4, StillGrows, Zenon
  <2> QED
    BY <2>2, <2>3, <2>4, Zenon DEF RunMove
<1>5. CASE Raises(r) /\ unrecorded' = unrecorded \cup {r} /\ UNCHANGED <<applied, swallowed>>
  <2>1. Active(r) /\ OnlyRun(r) /\ r \in unrecorded'
    BY <1>1, <1>5, Zenon DEF Active, OnlyRun
  <2>2. \A q \in Run, f \in Effect : effects[q][f] \in Nat
    BY Zenon DEF IInv, Types, WorkTypes
  <2>3. Grows
    BY <1>1, <1>5, <2>2 DEF Grows
  <2> HIDE DEF r
  <2> QED
    BY <1>1, <1>5, <2>1, <2>3, RaisesFails, Zenon
<1> QED
  BY <1>4, <1>5, Zenon DEF Acknowledge

(* An answer concludes the execution of the request itself.                *)
LEMMA ReplyRuns ==
  ASSUME IInv, NEW s \in Send, Reply(s)
  PROVE  (\A q \in Run : RunMove(q)) /\ Grows
<1> DEFINE r == <<s, "direct">>
<1>1. /\ r \in Run /\ r[1] = s /\ r[2] = "direct" /\ UNCHANGED <<effects, history>>
      /\ step[r] \in {"done", "kept"} /\ step' = [step EXCEPT ![r] = "idle"]
      /\ UNCHANGED <<job, stage>>
  BY Zenon DEF Reply, Run, queueVars
<1>2. step \in [Run -> Steps] /\ phase \in [Send -> Phases]
  BY Zenon DEF IInv, Types, ReqTypes, WorkTypes
<1>3. \A q \in Run : q[1] \in Send /\ (q[2] = "direct" /\ q # r => q[1] # s)
  BY DEF Run
<1>4. PICK end \in {"ok", "unheard", "error"} :
        phase' = [phase EXCEPT ![s] = end] /\ (end = "ok" => step[r] = "done")
  BY Zenon DEF Reply, Answer, Ends
<1> HIDE DEF r
<1>5. Concludes(r)
  BY <1>1, <1>2, <1>4, Zenon DEF Concludes
<1>6. ASSUME NEW q \in Run, q # r PROVE Rests(q)
  BY <1>1, <1>2, <1>3, <1>4, <1>6, Zenon DEF Rests
<1> QED
  BY <1>1, <1>5, <1>6, StillGrows, Zenon DEF RunMove

(* A dead process executes nothing any more.                               *)
LEMMA DieRuns ==
  ASSUME IInv, NEW r \in Run, Die(r)
  PROVE  (\A q \in Run : RunMove(q)) /\ Grows
<1>1. /\ Active(r) /\ step' = [step EXCEPT ![r] = "gone"] /\ UNCHANGED <<effects, history>>
      /\ UNCHANGED <<job, stage>> /\ r[1] \in Send /\ r[2] \in {"job", "direct"}
  BY Zenon DEF Die, Active, queueVars, reqVars, Run
<1>2. step \in [Run -> Steps] /\ phase \in [Send -> Phases]
  BY Zenon DEF IInv, Types, ReqTypes, WorkTypes
<1>3. \/ r[2] = "job" /\ UNCHANGED phase
      \/ r[2] = "direct" /\ phase' = [phase EXCEPT ![r[1]] = "unheard"]
  BY <1>1, Zenon DEF Die, Ends, reqVars
<1>4. Dies(r)
  BY <1>1, <1>2, <1>3, Zenon DEF Dies
<1>5. ASSUME NEW q \in Run, q # r PROVE Rests(q)
  <2>1. q[1] \in Send /\ (q[2] = "direct" /\ r[2] = "direct" => q[1] # r[1])
    BY <1>5 DEF Run
  <2> QED
    BY <1>1, <1>2, <1>3, <1>5, <2>1, Zenon DEF Rests
<1> QED
  BY <1>1, <1>4, <1>5, StillGrows, Zenon DEF RunMove

(* An arrival starts nothing: its request has no execution yet.            *)
LEMMA ArrivalRuns ==
  ASSUME IInv, NEW s \in Send, NEW p \in settings.bodies,
         TelemetryTraces(s, p) \/ Enroll(s, p) \/ Rejected(s, p)
  PROVE  (\A q \in Run : RunMove(q)) /\ Grows
<1>1. UNCHANGED <<effects, history>> /\ UNCHANGED <<step, stage, job>>
  BY Zenon DEF TelemetryTraces, Enroll, Rejected, Arrives, work
<1>2. phase \in [Send -> Phases] /\ phase[s] = "unsent"
  BY Zenon DEF IInv, Types, ReqTypes, TelemetryTraces, Enroll, Rejected, NextSend, Sent
<1>3. PICK first \in {"received", "error"} : phase' = [phase EXCEPT ![s] = first]
  BY Zenon DEF TelemetryTraces, Enroll, Rejected, Arrives
<1>4. ASSUME NEW q \in Run PROVE Rests(q)
  <2>1. Active(q) /\ q[2] = "direct" => q[1] # s
    BY <1>2, ActiveSent, Zenon DEF Active
  <2>2. q[1] \in Send
    BY Zenon DEF Run
  <2> QED
    BY <1>1, <1>2, <1>3, <2>1, <2>2, Zenon DEF Rests
<1> QED
  BY <1>1, <1>4, StillGrows, Zenon DEF RunMove

(* Tokens and time concern no execution.                                   *)
LEMMA QuietRuns ==
  ASSUME IInv, Tick \/ (\E d \in Device : GetToken(d)) \/ UNCHANGED vars
  PROVE  (\A q \in Run : RunMove(q)) /\ Grows
<1>1. UNCHANGED <<effects, history>> /\ UNCHANGED <<step, stage, job, phase>>
  BY Zenon DEF Tick, GetToken, vars, work, reqVars
<1>2. \A q \in Run : Rests(q)
  BY <1>1, Zenon DEF Rests
<1> QED
  BY <1>1, <1>2, StillGrows, Zenon DEF RunMove

(* Every step moves executions like that.                                  *)
LEMMA NextRuns ==
  ASSUME IInv, [Next]_vars
  PROVE  (\A q \in Run : RunMove(q)) /\ Grows
BY QuietRuns, ArrivalRuns, EnqueueRuns, BeginRuns, AcknowledgeRuns, ReplyRuns, ForwardRuns,
   PersistRuns, KeepRuns, UpsertRuns, DieRuns, ZenonT(40) DEF Next


-----------------------------------------------------------------------------
(* What follows from the moves alone.                                      *)

(* The deployment's settings never change.                                 *)
LEMMA SettingsKept == [Next]_vars => settings' = settings
BY ZenonT(40) DEF Next, vars, Tick, GetToken, TelemetryTraces, Enroll, Rejected, Enqueue, NoQueue,
       Begin, Forward, PersistSpans, KeepCopies, Keep, UpsertProvisioning, LogEnroll,
       Acknowledge, Reply, Die, clients

(* A job's request was received.                                           *)
LEMMA JobSent == ASSUME IInv, NEW s \in Jobs PROVE s \in Sent
BY Zenon DEF IInv, ReqOK, Jobs, Sent

(* A request keeps its body, its client and so its dedupe key.             *)
LEMMA SentKept ==
  ASSUME IInv, Moves, NEW s \in Sent
  PROVE  /\ s \in Sent' /\ payload'[s] = payload[s] /\ who'[s] = who[s]
         /\ open'[s] = open[s] /\ DedupeKey(s)' = DedupeKey(s)
         /\ Unsettled(s)' => Unsettled(s)
<1>1. s \in Send /\ phase[s] # "unsent" /\ ReqMove(s) /\ StageMove(s)
  BY Zenon DEF Sent, Moves
<1>2. /\ phase'[s] # "unsent" /\ payload'[s] = payload[s] /\ who'[s] = who[s]
      /\ open'[s] = open[s]
      /\ phase'[s] = "received" => phase[s] = "received"
  BY <1>1, Zenon DEF ReqMove
<1>3. stage'[s] \in {"pending", "processing"} => Unsettled(s)
  BY <1>1, Zenon DEF StageMove, Unsettled, InProgress
<1> QED
  BY <1>1, <1>2, <1>3, Zenon DEF Sent, DedupeKey, Unsettled, InProgress

(* Requests stay well attributed, and their answers name their own job.    *)
LEMMA ReqKept ==
  ASSUME IInv, Moves, settings' = settings, NEW s \in Send
  PROVE  ReqOK(s)'
<1> ReqMove(s) /\ StageMove(s) /\ ReqOK(s)
  BY Zenon DEF Moves, IInv
<1> \A p, w : Fits(p, w)' = Fits(p, w)
  BY Zenon DEF Fits, Zero, Open, Nobody
<1>1. /\ phase'[s] = "unsent" => who'[s] = Nobody
      /\ phase'[s] # "unsent" => payload'[s] \in Payload /\ Fits(payload'[s], who'[s])
  BY Zenon DEF ReqMove, ReqOK, Nobody
<1>2. phase'[s] = "received" \/ stage'[s] # "absent" => who'[s] # Nobody
  BY Zenon DEF ReqMove, StageMove, ReqOK, Nobody
<1>3. ASSUME job'[s] # 0
      PROVE  who'[s] # Nobody /\ job'[s] \in Jobs' /\ DedupeKey(job[s])' = DedupeKey(s)'
  <2>1. CASE job'[s] = job[s]
    <3>1. who[s] # Nobody /\ job[s] \in Jobs /\ DedupeKey(job[s]) = DedupeKey(s)
      BY <1>3, <2>1, Zenon DEF ReqOK
    <3>2. s \in Sent
      BY <3>1, Zenon DEF ReqOK, Sent
    <3>3. stage'[job[s]] # "absent" /\ job[s] \in Send
      BY <3>1, Zenon DEF Moves, StageMove, Jobs
    <3>4. job[s] \in Sent
      BY <3>1, JobSent, Zenon
    <3>5. DedupeKey(s)' = DedupeKey(s) /\ who'[s] = who[s]
      BY <3>2, SentKept, Zenon
    <3>6. \A t \in Sent : DedupeKey(t)' = DedupeKey(t)
      BY SentKept, Zenon
    <3>7. job'[s] \in Sent /\ DedupeKey(job[s])' = DedupeKey(job[s])
      BY <2>1, <3>4, <3>6, Zenon DEF DedupeKey
    <3> QED
      BY <2>1, <3>1, <3>3, <3>5, <3>7, Zenon DEF Jobs
  <2>2. CASE job'[s] # job[s]
    <3>1. /\ phase[s] = "received" /\ job'[s] \in Send /\ stage'[job'[s]] # "absent"
          /\ DedupeKey(job'[s]) = DedupeKey(s) /\ who'[s] = who[s]
      BY <2>2, Zenon DEF ReqMove
    <3>2. s \in Sent /\ who[s] # Nobody
      BY <3>1, Zenon DEF ReqOK, Sent
    <3>3. job'[s] \in Sent
      <4>1. stage[job'[s]] # "absent" \/ phase[job'[s]] = "received"
        BY <3>1, Zenon DEF Moves, StageMove
      <4> QED
        BY <3>1, <4>1, JobSent, Zenon DEF Jobs, Sent
    <3>4. DedupeKey(s)' = DedupeKey(s)
      BY <3>2, SentKept, Zenon
    <3>5. payload'[job'[s]] = payload[job'[s]] /\ who'[job'[s]] = who[job'[s]]
      BY <3>3, SentKept, Zenon
    <3>6. DedupeKey(job[s])' = DedupeKey(job'[s])
      BY <3>5, Zenon DEF DedupeKey
    <3> QED
      BY <3>1, <3>2, <3>4, <3>6, Zenon DEF Jobs
  <2> QED
    BY <2>1, <2>2, Zenon
<1> QED
  BY <1>1, <1>2, <1>3, Zenon DEF ReqOK, Nobody

(* A new job's key was in use by no other.                                 *)
LEMMA KeysKept == ASSUME IInv, Moves PROVE KeysUnique'
<1> SUFFICES ASSUME NEW i \in Jobs', NEW j \in Jobs', DedupeKey(i)' = DedupeKey(j)', i # j
             PROVE  FALSE
  BY Zenon DEF KeysUnique
<1>1. \A k \in Jobs' : k \in Sent /\ k \in Send /\ StageMove(k)
  <2> SUFFICES ASSUME NEW k \in Jobs' PROVE k \in Sent /\ k \in Send /\ StageMove(k)
    BY Zenon
  <2>1. k \in Send /\ StageMove(k) /\ stage'[k] # "absent"
    BY Zenon DEF Jobs, Moves
  <2>2. stage[k] # "absent" \/ phase[k] = "received"
    BY <2>1, Zenon DEF StageMove
  <2> QED
    BY <2>1, <2>2, JobSent, Zenon DEF Jobs, Sent
<1>2. DedupeKey(i) = DedupeKey(j)
  BY <1>1, SentKept, Zenon
<1>3. CASE i \in Jobs /\ j \in Jobs
  BY <1>2, <1>3, Zenon DEF IInv, KeysUnique
<1>4. CASE i \notin Jobs
  <2>1. Same(i) = {} /\ stage'[j] = stage[j]
    BY <1>1, <1>4, Zenon DEF StageMove, Jobs
  <2>2. j \in Same(i)
    BY <1>1, <1>2, <2>1, Zenon DEF Same, Jobs
  <2> QED
    BY <2>1, <2>2, Zenon
<1>5. CASE j \notin Jobs
  <2>1. Same(j) = {} /\ stage'[i] = stage[i]
    BY <1>1, <1>5, Zenon DEF StageMove, Jobs
  <2>2. i \in Same(j)
    BY <1>1, <1>2, <2>1, Zenon DEF Same, Jobs
  <2> QED
    BY <2>1, <2>2, Zenon
<1> QED
  BY <1>3, <1>4, <1>5, Zenon

(* The connection log only gains the client of a request.                  *)
LEMMA ConnsMove ==
  ASSUME IInv, [Next]_vars
  PROVE  \/ conns' = conns
         \/ \E s \in Sent' : /\ conns' = conns \cup {who'[s]}
                             /\ who'[s] \in Device \cup {Zero}
<1>1. ASSUME NEW s \in Send, NEW p \in settings.bodies,
             TelemetryTraces(s, p) \/ Enroll(s, p) \/ Rejected(s, p)
      PROVE  \/ conns' = conns
             \/ \E t \in Sent' : conns' = conns \cup {who'[t]} /\ who'[t] \in Device \cup {Zero}
  BY <1>1, ArrivalStep, Zenon DEF Sent
<1>2. ASSUME NEW r \in Run, LogEnroll(r)
      PROVE  \/ conns' = conns
             \/ \E t \in Sent' : conns' = conns \cup {who'[t]} /\ who'[t] \in Device \cup {Zero}
  <2>1. /\ r[1] \in Sent /\ who[r[1]] # Nobody /\ payload[r[1]] \in Payload
        /\ Fits(payload[r[1]], who[r[1]])
    BY <1>2, ActiveSent, Zenon DEF LogEnroll
  <2>2. who[r[1]] \in Device \cup {Zero, Open}
    BY <2>1, ConstantsOK, Zenon DEF Fits
  <2>3. UNCHANGED <<phase, who>> /\ (conns' = conns \/ Logged(who[r[1]]))
    BY <1>2, Zenon DEF LogEnroll, To, reqVars
  <2>4. r[1] \in Sent'
    BY <2>1, <2>3, Zenon DEF Sent
  <2> QED
    BY <2>2, <2>3, <2>4, Zenon DEF Logged
<1>3. CASE Tick \/ (\E d \in Device : GetToken(d)) \/ UNCHANGED vars
  BY <1>3, Zenon DEF Tick, GetToken, vars
<1>4. CASE \E s \in Send : Enqueue(s) \/ NoQueue(s) \/ Begin(s) \/ Acknowledge(s) \/ Reply(s)
  BY <1>4, Zenon DEF Enqueue, NoQueue, Begin, Acknowledge, Reply
<1>5. CASE \E r \in Run : \/ Forward(r) \/ PersistSpans(r) \/ KeepCopies(r)
                          \/ UpsertProvisioning(r) \/ Die(r)
  BY <1>5, Zenon DEF Forward, PersistSpans, KeepCopies, Keep, UpsertProvisioning, Die
<1> QED
  BY <1>1, <1>2, <1>3, <1>4, <1>5, Zenon DEF Next

(* So the connection log still knows only devices that sent something.     *)
LEMMA ConnsKept == ASSUME IInv, [Next]_vars PROVE ConnsOK'
<1>1. Moves /\ settings' = settings
  BY NextMoves, SettingsKept, Zenon
<1>2. \A s \in Sent : s \in Sent' /\ payload'[s] = payload[s]
  BY <1>1, SentKept, Zenon
<1>3. conns \subseteq {Origin[payload'[s]] : s \in Sent'} \cup {Zero}
  BY <1>2 DEF IInv, ConnsOK
<1>4. \A s \in Sent' : who'[s] \in Device \cup {Zero} => who'[s] \in {Origin[payload'[s]], Zero}
  <2> SUFFICES ASSUME NEW s \in Sent', who'[s] \in Device \cup {Zero}
               PROVE  who'[s] \in {Origin[payload'[s]], Zero}
    BY Zenon
  <2>1. s \in Send /\ phase'[s] # "unsent"
    BY Zenon DEF Sent
  <2>2. who'[s] \in {Origin[payload'[s]], Zero, Open, Nobody}
    BY <1>1, <2>1, ReqKept, Zenon DEF ReqOK, Fits, Zero, Open, Nobody
  <2> QED
    BY <2>2, ConstantsOK, Zenon DEF Zero, Open, Nobody
<1> QED
  BY <1>3, <1>4, ConnsMove, Zenon DEF ConnsOK, Zero

(* A provisioning row only changes to the request of an execution, or of a *)
(* job, that is under way.                                                 *)
LEMMA ProvMove ==
  ASSUME IInv, [Next]_vars
  PROVE  \/ UNCHANGED <<applied, prov>>
         \/ \E r \in Run : /\ step[r] = "s3" /\ UNCHANGED reqVars
                           /\ prov' = [prov EXCEPT ![DeviceOf(r)] = r[1]]
                           /\ applied' = applied \cup {r[1]}
<1>1. CASE \E s \in Send, p \in settings.bodies :
             TelemetryTraces(s, p) \/ Enroll(s, p) \/ Rejected(s, p)
  BY <1>1, ZenonT(40) DEF TelemetryTraces, Enroll, Rejected, work, history
<1>2. CASE \E r \in Run : UpsertProvisioning(r)
  BY <1>2, Zenon DEF UpsertProvisioning, To, Swallowed
<1>3. CASE Tick \/ (\E d \in Device : GetToken(d)) \/ UNCHANGED vars
  BY <1>3, Zenon DEF Tick, GetToken, vars, work, history
<1>4. CASE \E s \in Send : Enqueue(s) \/ NoQueue(s) \/ Begin(s) \/ Acknowledge(s) \/ Reply(s)
  BY <1>4, Zenon DEF Enqueue, NoQueue, Begin, Acknowledge, Reply, history
<1>5. CASE \E r \in Run : \/ Forward(r) \/ PersistSpans(r) \/ KeepCopies(r)
                          \/ LogEnroll(r) \/ Die(r)
  BY <1>5, Zenon DEF Forward, PersistSpans, KeepCopies, Keep, LogEnroll, Die, Swallowed, history
<1> QED
  BY <1>1, <1>2, <1>3, <1>4, <1>5, Zenon DEF Next

(* What is unsettled was so at every later arrival, so that an overtaking  *)
(* execution is one the newer enrollment found unsettled.                  *)
LEMMA OrderKept == ASSUME IInv, [Next]_vars PROVE OrderOK'
<1>1. Moves
  BY NextMoves, Zenon
<1>2. \A s \in Sent : /\ s \in Sent' /\ payload'[s] = payload[s] /\ open'[s] = open[s]
                      /\ Unsettled(s)' => Unsettled(s)
  BY <1>1, SentKept, Zenon
<1>3. \A n \in Sent' : n \in Send /\ (n \notin Sent => /\ 1..(n - 1) \subseteq Sent
                                                       /\ open'[n] = {r \in Sent : Unsettled(r)})
  BY <1>1, Zenon DEF Moves, ReqMove, Sent
<1>4. \A n \in Sent' : 1..(n - 1) \subseteq Sent
  BY <1>3, Zenon DEF IInv, OrderOK
<1>4a. \A i, n \in Sent : i < n /\ Unsettled(i) => i \in open[n]
  BY Zenon DEF IInv, OrderOK
<1>5. ASSUME NEW i \in Sent', NEW n \in Sent', i < n, Unsettled(i)'
      PROVE  i \in open'[n]
  <2>1. i \in Sent
    <3>1. i \in 1..(n - 1)
      BY <1>3, <1>5 DEF Send
    <3> QED
      BY <1>4, <3>1, Zenon
  <2>2. Unsettled(i)
    BY <1>2, <1>5, <2>1, Zenon
  <2>3. CASE n \in Sent
    <3>1. i \in open[n]
      BY <1>5, <1>4a, <2>1, <2>2, <2>3, Zenon
    <3>2. open'[n] = open[n]
      BY <1>2, <2>3, Zenon
    <3> QED
      BY <3>1, <3>2, Zenon
  <2>4. CASE n \notin Sent
    <3>1. i \in {r \in Sent : Unsettled(r)}
      BY <2>1, <2>2, Zenon
    <3>2. open'[n] = {r \in Sent : Unsettled(r)}
      BY <1>3, <2>4, Zenon
    <3> QED
      BY <3>1, <3>2, Zenon
  <2> QED
    BY <2>3, <2>4, Zenon
<1>6. \A n \in applied : n \in Sent /\ payload[n] \in Payload
  BY Zenon DEF IInv, OrderOK, ReqOK, Sent
<1>7. /\ \A n \in applied' : n \in Sent' /\ prov'[Origin[payload'[n]]] # 0
      /\ OnlyUnsettledOvertake'
  <2>1. CASE UNCHANGED <<applied, prov>>
    <3>1. \A n \in applied : prov[Origin[payload[n]]] # 0
      BY Zenon DEF IInv, OrderOK
    <3>2. \A n \in applied : prov[Origin[payload[n]]] < n => prov[Origin[payload[n]]] \in open[n]
      BY Zenon DEF IInv, OrderOK, OnlyUnsettledOvertake
    <3> QED
      BY <1>2, <1>6, <2>1, <3>1, <3>2, Zenon DEF OnlyUnsettledOvertake
  <2>2. ASSUME NEW r \in Run, step[r] = "s3", UNCHANGED reqVars,
               prov' = [prov EXCEPT ![DeviceOf(r)] = r[1]],
               applied' = applied \cup {r[1]}
        PROVE  /\ \A n \in applied' : n \in Sent' /\ prov'[Origin[payload'[n]]] # 0
               /\ OnlyUnsettledOvertake'
    <3>1. r[1] \in Sent /\ Unsettled(r[1]) /\ payload[r[1]] \in Payload
      BY <2>2, ActiveSent, Zenon
    <3>2. /\ prov \in [Device -> Send \cup {0}] /\ DeviceOf(r) \in Device /\ r[1] \in Send
          /\ payload' = payload /\ open' = open
      BY <2>2, <3>1, ConstantsOK, Zenon DEF IInv, Types, WorkTypes, DeviceOf, PayloadOf, reqVars, Sent
    <3>3. \A n \in applied' : n \in Sent /\ n \in Send /\ Origin[payload[n]] \in Device
      BY <1>6, <2>2, <3>1, ConstantsOK, Zenon DEF Sent
    <3>4. \A n \in applied' : prov'[Origin[payload[n]]] =
                               IF Origin[payload[n]] = DeviceOf(r) THEN r[1]
                               ELSE prov[Origin[payload[n]]]
      BY <2>2, <3>2, <3>3, Zenon
    <3>5. \A n \in applied' : prov'[Origin[payload[n]]] # 0
      <4>1. r[1] # 0
        BY <3>2, ConstantsOK DEF Send
      <4>2. DeviceOf(r) = Origin[payload[r[1]]]
        BY Zenon DEF DeviceOf, PayloadOf
      <4> QED
        BY <2>2, <3>4, <4>1, <4>2, SMTT(30) DEF IInv, OrderOK
    <3>6. ASSUME NEW n \in applied', prov'[Origin[payload[n]]] < n
          PROVE  prov'[Origin[payload[n]]] \in open[n]
      <4>1. CASE Origin[payload[n]] = DeviceOf(r)
        <5>1. prov'[Origin[payload[n]]] = r[1] /\ r[1] < n
          BY <3>4, <3>6, <4>1, Zenon
        <5>2. r[1] \in open[n]
          BY <1>4a, <3>1, <3>3, <5>1, Zenon
        <5> QED
          BY <5>1, <5>2, Zenon
      <4>2. CASE Origin[payload[n]] # DeviceOf(r)
        <5>1. prov'[Origin[payload[n]]] = prov[Origin[payload[n]]] /\ n \in applied
          BY <2>2, <3>4, <4>2, Zenon DEF DeviceOf, PayloadOf
        <5> QED
          BY <3>6, <5>1, Zenon DEF IInv, OrderOK, OnlyUnsettledOvertake
      <4> QED
        BY <4>1, <4>2, Zenon
    <3> QED
      BY <1>2, <3>2, <3>3, <3>5, <3>6, Zenon DEF OnlyUnsettledOvertake
  <2> QED
    BY <2>1, <2>2, ProvMove, Zenon
<1>8. \A n \in Sent' : 1..(n - 1) \subseteq Sent'
  BY <1>2, <1>4, Zenon
<1> QED
  BY <1>5, <1>7, <1>8, Zenon DEF OrderOK

-----------------------------------------------------------------------------
(* Effects that were had are not lost.                                     *)
LEMMA HadKept ==
  ASSUME IInv, Moves, Types', Grows, NEW r \in Run, r[1] \in Sent, EffectsHad(r)
  PROVE  EffectsHad(r)'
<1>1. TopicOf(r)' = TopicOf(r)
  BY SentKept, Zenon DEF TopicOf, PayloadOf
<1>2. \A e \in Effect : effects[r][e] \in Nat /\ effects'[r][e] \in Nat /\ effects'[r][e] >= effects[r][e]
  BY ZenonT(40) DEF IInv, Types, WorkTypes, Grows
<1>3. \A e \in Effect : effects[r][e] > 0 => effects'[r][e] > 0
  BY <1>2
<1>4. "upstream" \in Effect /\ "spans" \in Effect /\ Stores \subseteq Effect
  BY ConstantsOK, Zenon DEF Effect
<1>5. (r[1] \in applied => r[1] \in applied') /\ (r \in swallowed => r \in swallowed')
  BY Zenon DEF Grows
<1>6. CASE TopicOf(r) = "telemetry"
  BY <1>1, <1>3, <1>4, <1>5, <1>6, Zenon DEF EffectsHad
<1>7. CASE TopicOf(r) # "telemetry"
  BY <1>1, <1>3, <1>4, <1>5, <1>7, Zenon DEF EffectsHad
<1> QED
  BY <1>6, <1>7, Zenon

(* Executions stay in step with the queue and with their request.          *)
LEMMA ExecKept ==
  ASSUME IInv, Types', \A r \in Run : RunMove(r), NEW s \in Send
  PROVE  ExecOK(s)'
<1> DEFINE j == <<s, "job">>
           d == <<s, "direct">>
<1>1. j \in Run /\ d \in Run /\ j[1] = s /\ j[2] = "job" /\ d[1] = s /\ d[2] = "direct"
  BY Zenon DEF Run
<1>2. (step[j] # "idle" <=> stage[s] = "processing") /\ (Active(d) => phase[s] = "received")
  BY Zenon DEF IInv, ExecOK, Active
<1>3. RunMove(j) /\ RunMove(d)
  BY <1>1, Zenon
<1> HIDE DEF j, d
<1>4. step'[j] # "idle" <=> stage'[s] = "processing"
  <2>1. CASE Rests(j)
    BY <1>1, <1>2, <2>1, Zenon DEF Rests, Active
  <2>2. CASE Starts(j)
    BY <1>1, <1>2, <2>2, Zenon DEF Starts, Active
  <2>3. CASE Goes(j)
    BY <1>1, <1>2, <2>3, Zenon DEF Goes, Active
  <2>4. CASE Fails(j)
    BY <1>1, <1>2, <2>4, Zenon DEF Fails, Active
  <2>5. CASE Concludes(j)
    BY <1>1, <1>2, <2>5, Zenon DEF Concludes, Active
  <2>6. CASE Dies(j)
    BY <1>1, <1>2, <2>6, Zenon DEF Dies, Active
  <2> QED
    BY <1>3, <2>1, <2>2, <2>3, <2>4, <2>5, <2>6, Zenon DEF RunMove
<1>5. step'[d] \notin {"idle", "gone"} => phase'[s] = "received"
  <2>1. CASE Rests(d)
    BY <1>1, <1>2, <2>1, Zenon DEF Rests, Active
  <2>2. CASE Starts(d)
    BY <1>1, <1>2, <2>2, Zenon DEF Starts, Active
  <2>3. CASE Goes(d)
    BY <1>1, <1>2, <2>3, Zenon DEF Goes, Active
  <2>4. CASE Fails(d)
    BY <1>1, <1>2, <2>4, Zenon DEF Fails, Active
  <2>5. CASE Concludes(d)
    BY <1>1, <1>2, <2>5, Zenon DEF Concludes, Active
  <2>6. CASE Dies(d)
    BY <1>1, <1>2, <2>6, Zenon DEF Dies, Active
  <2> QED
    BY <1>3, <2>1, <2>2, <2>3, <2>4, <2>5, <2>6, ZenonT(40) DEF RunMove
<1> QED
  BY <1>4, <1>5, Zenon DEF ExecOK, j, d

(* How far an execution is still tells its effects, spans still come last. *)
LEMMA RunKept ==
  ASSUME IInv, Moves, Types', Grows, NEW r \in Run, RunMove(r)
  PROVE  RunOK(r)' /\ SpanOK(r)'
<1>1. r[1] \in Send /\ r[2] \in {"job", "direct"} /\ RunOK(r) /\ SpanOK(r)
  BY Zenon DEF Run, IInv
<1>2. \A e \in Effect : effects[r][e] \in Nat /\ effects'[r][e] \in Nat
  BY Zenon DEF IInv, Types, WorkTypes
<1>3. "spans" \in Effect
  BY Zenon DEF Effect
<1>4. r \notin unrecorded' => r \notin unrecorded
  BY Zenon DEF Grows
<1>5. Active(r) => /\ r[2] = "job" => stage[r[1]] = "processing"
                   /\ r[2] = "direct" => phase[r[1]] = "received"
  BY ActiveSent, Zenon DEF Active
<1>6. CASE Rests(r)
  <2>1. step'[r] = step[r] /\ effects'[r] = effects[r]
    BY <1>6, Zenon DEF Rests
  <2>2. RunOK(r)'
    <3>1. CASE ~Active(r)
      BY <2>1, <3>1, Zenon DEF RunOK, Active
    <3>2. CASE Active(r)
      <4>1. r[1] \in Sent
        BY <3>2, ActiveSent, Zenon DEF Active
      <4>2. TopicOf(r)' = TopicOf(r)
        BY <4>1, SentKept, Zenon DEF TopicOf, PayloadOf
      <4>3. EffectsHad(r) => EffectsHad(r)'
        BY <4>1, HadKept, Zenon
      <4> QED
        BY <1>1, <2>1, <4>2, <4>3, Zenon DEF RunOK, Grows
    <3> QED
      BY <3>1, <3>2, Zenon
  <2>3. Late(r) => Late(r)'
    <3>1. stage[r[1]] = "done" => stage'[r[1]] = "done"
      BY <1>1, Zenon DEF Moves, StageMove
    <3>2. phase[r[1]] \notin {"unsent", "received"} => phase'[r[1]] \notin {"unsent", "received"}
      BY <1>1, Zenon DEF Moves, ReqMove
    <3> QED
      BY <2>1, <3>1, <3>2, Zenon DEF Late
  <2> QED
    BY <1>1, <1>4, <2>1, <2>2, <2>3, Zenon DEF SpanOK
<1>7. CASE Starts(r)
  <2>1. ~Late(r)
    BY <1>1, <1>7, Zenon DEF Starts, Late
  <2> QED
    BY <1>1, <1>4, <1>7, <2>1, Zenon DEF Starts, SpanOK, RunOK
<1>8. CASE Goes(r)
  <2>1. ~Late(r)
    BY <1>1, <1>5, <1>8, Zenon DEF Goes, Late, Active
  <2>2. r \notin unrecorded' => effects[r]["spans"] = 0
    BY <1>1, <1>4, <2>1, Zenon DEF SpanOK
  <2> QED
    BY <1>2, <1>3, <1>8, <2>2 DEF Goes, SpanOK, Late
<1>9. CASE Fails(r)
  <2>1. r \notin unrecorded' => ~Late(r)
    BY <1>1, <1>5, <1>9, Zenon DEF Fails, Late, Active
  <2> QED
    BY <1>1, <1>4, <1>9, <2>1, Zenon DEF Fails, SpanOK, RunOK
<1>10. CASE Concludes(r)
  <2>1. Late(r)' /\ RunOK(r)'
    BY <1>1, <1>10, Zenon DEF Concludes, Late, RunOK
  <2> QED
    BY <1>1, <1>4, <1>10, <2>1, Zenon DEF Concludes, SpanOK
<1>11. CASE Dies(r)
  <2>1. Late(r)' /\ RunOK(r)'
    BY <1>11, Zenon DEF Dies, Late, RunOK
  <2> QED
    BY <1>1, <1>4, <1>11, <2>1, Zenon DEF Dies, SpanOK
<1> QED
  BY <1>6, <1>7, <1>8, <1>9, <1>10, <1>11, Zenon DEF RunMove

(* Only an execution that had its effects is concluded as a success.       *)
LEMMA NothingPretendedKept ==
  ASSUME IInv, Moves, Types', Grows, \A r \in Run : RunMove(r)
  PROVE  NothingPretended'
<1>1. \A r \in Run : step[r] = "done" => EffectsHad(r) /\ r[1] \in Sent
  BY ActiveSent, Zenon DEF IInv, RunOK
<1>2. ASSUME NEW s \in Send, stage'[s] = "done" PROVE EffectsHad(<<s, "job">>)'
  <2> DEFINE r == <<s, "job">>
  <2>1. r \in Run /\ r[1] = s /\ r[2] = "job" /\ RunMove(r)
    BY Zenon DEF Run
  <2>2. Active(r) => stage[s] = "processing"
    BY <2>1, ActiveSent, Zenon DEF Active
  <2> HIDE DEF r
  <2>3. stage[s] = "done" \/ step[r] = "done"
    BY <1>2, <2>1, <2>2, Zenon DEF RunMove, Rests, Starts, Goes, Fails, Concludes, Dies
  <2>4. CASE stage[s] = "done"
    <3>1. EffectsHad(r)
      BY <2>4, Zenon DEF IInv, NothingPretended, r
    <3>2. s \in Sent
      BY <2>4, JobSent, Zenon DEF Jobs
    <3> QED
      BY <2>1, <3>1, <3>2, HadKept, Zenon DEF r
  <2>5. CASE step[r] = "done"
    BY <1>1, <2>1, <2>5, HadKept, Zenon DEF r
  <2> QED
    BY <2>3, <2>4, <2>5, Zenon
<1>3. ASSUME NEW s \in Sent', phase'[s] = "ok", job'[s] = 0 PROVE EffectsHad(<<s, "direct">>)'
  <2> DEFINE r == <<s, "direct">>
  <2>1. s \in Send /\ r \in Run /\ r[1] = s /\ r[2] = "direct" /\ RunMove(r)
    BY Zenon DEF Run, Sent
  <2>2. Active(r) => phase[s] = "received"
    BY <2>1, ActiveSent, Zenon DEF Active
  <2> HIDE DEF r
  <2>3. phase[s] = "ok" \/ step[r] = "done"
    BY <1>3, <2>1, <2>2, ZenonT(40) DEF RunMove, Rests, Starts, Goes, Fails, Concludes, Dies
  <2>4. CASE phase[s] = "ok"
    <3>1. job[s] = 0 /\ s \in Sent
      BY <1>3, <2>1, <2>4, Zenon DEF Moves, ReqMove, Sent
    <3>2. EffectsHad(r)
      BY <2>4, <3>1, Zenon DEF IInv, NothingPretended, r
    <3> QED
      BY <2>1, <3>1, <3>2, HadKept, Zenon DEF r
  <2>5. CASE step[r] = "done"
    BY <1>1, <2>1, <2>5, HadKept, Zenon DEF r
  <2> QED
    BY <2>3, <2>4, <2>5, Zenon
<1> QED
  BY <1>2, <1>3, Zenon DEF NothingPretended

-----------------------------------------------------------------------------
(* The inductive invariant and what it implies.                            *)
LEMMA InitIInv == ASSUME Init PROVE IInv
<1>1. ReqTypes
  BY Zenon DEF Init, ReqTypes, Phases
<1>2. WorkTypes
  BY Zenon DEF Init, WorkTypes, Stages, Steps, Queue!Init
<1>3. ClientTypes
  BY Zenon DEF Init, ClientTypes, NoToken
<1>4. Sent = {} /\ Jobs = {}
  BY Zenon DEF Init, Sent, Jobs, Queue!Init
<1>5. ASSUME NEW s \in Send PROVE ReqOK(s) /\ ExecOK(s)
  <2>1. <<s, "job">> \in Run /\ <<s, "direct">> \in Run
    BY Zenon DEF Run
  <2>2. /\ phase[s] = "unsent" /\ who[s] = Nobody /\ stage[s] = "absent" /\ job[s] = 0
        /\ step[<<s, "job">>] = "idle" /\ step[<<s, "direct">>] = "idle"
    BY <2>1, Zenon DEF Init, Queue!Init
  <2> QED
    BY <2>2, Zenon DEF ReqOK, ExecOK
<1>6. ASSUME NEW r \in Run PROVE RunOK(r) /\ SpanOK(r)
  BY Zenon DEF Init, RunOK, SpanOK, Effect
<1>7. KeysUnique /\ ConnsOK
  BY <1>4, Zenon DEF KeysUnique, ConnsOK, Init
<1>8. OrderOK
  BY <1>4, Zenon DEF OrderOK, OnlyUnsettledOvertake, Init
<1>9. NothingPretended
  BY <1>4, Zenon DEF NothingPretended, Init, Queue!Init
<1> QED
  BY <1>1, <1>2, <1>3, <1>5, <1>6, <1>7, <1>8, <1>9, Zenon DEF IInv, Types

(* Every handler and worker step preserves the invariant.                  *)
LEMMA NextIInv == ASSUME IInv, [Next]_vars PROVE IInv'
<1>1. Moves /\ Types' /\ settings' = settings
  BY NextMoves, SettingsKept, Zenon
<1>2. (\A r \in Run : RunMove(r)) /\ Grows
  BY NextRuns, Zenon
<1>3. \A s \in Send : ReqOK(s)' /\ ExecOK(s)'
  BY <1>1, <1>2, ReqKept, ExecKept, Zenon
<1>4. \A r \in Run : RunOK(r)' /\ SpanOK(r)'
  BY <1>1, <1>2, RunKept, Zenon
<1>5. KeysUnique' /\ ConnsOK' /\ OrderOK' /\ NothingPretended'
  BY <1>1, <1>2, KeysKept, ConnsKept, OrderKept, NothingPretendedKept, Zenon
<1> QED
  BY <1>1, <1>3, <1>4, <1>5, Zenon DEF IInv

(* Requests, jobs, executions, the connection log and the provisioning     *)
(* rows agree throughout (IInv).                                           *)
THEOREM Inductive == Spec => []IInv
<1>1. IInv /\ [Next]_vars => IInv'
  BY NextIInv, Zenon
<1>2. Init => IInv
  BY InitIInv, Zenon
<1> QED
  BY <1>1, <1>2, PTL DEF Spec

(* The job a request was answered with has its dedupe key, so that it has  *)
(* the same client and the same topic, or is the request's own job.        *)
LEMMA JobsAgree ==
  ASSUME IInv, NEW s \in Send, NEW j \in Jobs, who[s] # Nobody, DedupeKey(j) = DedupeKey(s)
  PROVE  \/ j = s
         \/ who[j] = who[s] /\ Topic[payload[j]] = Topic[payload[s]]
<1>1. j \in Sent /\ s \in Sent
  BY JobSent, Zenon DEF IInv, ReqOK, Sent
<1>2. Topic[payload[j]] # "none" /\ Topic[payload[s]] # "none"
  BY <1>1, ConstantsOK, Zenon DEF IInv, ReqOK, Sent
<1> QED
  BY <1>2, Zenon DEF DedupeKey

(* Two devices never share a dedupe key unless both are anonymous.         *)
LEMMA CollideAnonymous == ASSUME IInv PROVE OnlyAnonymousCollide
<1> SUFFICES ASSUME NEW s \in Sent, job[s] # 0,
                    Origin[payload[s]] # Origin[payload[job[s]]]
             PROVE  who[s] \in {Zero, Open} /\ Topic[payload[s]] = "telemetry"
  BY Zenon DEF OnlyAnonymousCollide
<1>1. /\ s \in Send /\ who[s] # Nobody /\ job[s] \in Jobs /\ DedupeKey(job[s]) = DedupeKey(s)
      /\ payload[s] \in Payload /\ Fits(payload[s], who[s])
  BY Zenon DEF IInv, ReqOK, Sent
<1>2. job[s] \in Sent
  BY <1>1, JobSent, Zenon
<1>3. payload[job[s]] \in Payload /\ Fits(payload[job[s]], who[job[s]])
  BY <1>2, Zenon DEF IInv, ReqOK, Sent
<1>4. who[job[s]] = who[s]
  BY <1>1, JobsAgree, Zenon
<1>5. Origin[payload[s]] \notin {Zero, Open, Nobody}
  BY <1>1, ConstantsOK, Zenon DEF Zero, Open, Nobody
<1>6. who[s] \in {Zero, Open}
  BY <1>1, <1>3, <1>4, <1>5, Zenon DEF Fits
<1>7. Topic[payload[s]] # "enroll"
  BY <1>1, <1>5, <1>6, Zenon DEF Fits
<1> QED
  BY <1>1, <1>6, <1>7, ConstantsOK, Zenon

(* A device that names itself has one dedupe key per body.                 *)
LEMMA RepeatedUnnamed == ASSUME IInv PROVE RepeatedOnlyUnnamed
<1> SUFFICES ASSUME NEW i \in Jobs, NEW j \in Jobs, i # j, payload[i] = payload[j],
                    IdemKey[payload[i]] # NoKey,
                    ~(Topic[payload[i]] = "telemetry" /\ Origin[payload[i]] \notin SendsUuid)
             PROVE  FALSE
  BY Zenon DEF RepeatedOnlyUnnamed
<1>1. ASSUME NEW k \in Jobs PROVE who[k] # Nobody /\ payload[k] \in Payload /\ Fits(payload[k], who[k])
  BY JobSent, Zenon DEF IInv, ReqOK, Jobs, Sent
<1>2. who[i] = who[j]
  BY <1>1, ConstantsOK, Zenon DEF Fits
<1>3. DedupeKey(i) = DedupeKey(j)
  BY <1>2, Zenon DEF DedupeKey
<1> QED
  BY <1>3, Zenon DEF IInv, KeysUnique

(* Spans that were stored before the end was recorded are stored once.     *)
LEMMA SpansOnceHolds == ASSUME IInv PROVE SpansOnce
<1>1. ASSUME NEW r \in Run PROVE effects[r]["spans"] > 1 => r \in unrecorded
  <2>1. r \notin unrecorded => effects[r]["spans"] \in {0, 1}
    BY Zenon DEF IInv, SpanOK
  <2> QED
    BY <2>1
<1> QED
  BY <1>1, Zenon DEF SpansOnce

(* The identities the handlers give are those of the senders.              *)
LEMMA AttributedHolds == ASSUME IInv PROVE Attributed
<1>1. \A s \in Sent : who[s] \in {Origin[payload[s]], Zero, Open, Nobody}
  BY Zenon DEF IInv, ReqOK, Sent, Fits
<1> QED
  BY <1>1, Zenon DEF IInv, ConnsOK, Attributed

(* telemetry_traces and enroll attribute every request to the device that  *)
(* produced it or to nobody, and the connection log counts no other.       *)
THEOREM AttributedThm == Spec => []Attributed
<1>1. IInv => Attributed
  BY AttributedHolds, Zenon
<1> QED
  BY <1>1, Inductive, PTL

(* An enqueue drops a body of one device for a body of another only among  *)
(* anonymous telemetry.                                                    *)
THEOREM OnlyAnonymousCollideThm == Spec => []OnlyAnonymousCollide
<1>1. IInv => OnlyAnonymousCollide
  BY CollideAnonymous, ZenonT(40)
<1> QED
  BY <1>1, Inductive, PTL

(* A body sent again under its idempotency key becomes a second job only   *)
(* when the device does not name itself in X-Client-UUID.                  *)
THEOREM RepeatedOnlyUnnamedThm == Spec => []RepeatedOnlyUnnamed
<1>1. IInv => RepeatedOnlyUnnamed
  BY RepeatedUnnamed, Zenon
<1> QED
  BY <1>1, Inductive, PTL

(* A job is marked done, and a request is answered as processed, only when *)
(* every effect was had or its database error was swallowed by the code.   *)
THEOREM NothingPretendedThm == Spec => []NothingPretended
<1>1. IInv => NothingPretended
  BY ZenonT(40) DEF IInv
<1> QED
  BY <1>1, Inductive, PTL

(* Spans are stored twice only after an execution whose completion could   *)
(* not be recorded.                                                        *)
THEOREM SpansOnceThm == Spec => []SpansOnce
<1>1. IInv => SpansOnce
  BY SpansOnceHolds, Zenon
<1> QED
  BY <1>1, Inductive, PTL

(* A provisioning row shows an older enrollment over a newer one only if   *)
(* the older was unsettled when the newer arrived.                         *)
THEOREM OnlyUnsettledOvertakeThm == Spec => []OnlyUnsettledOvertake
<1>1. IInv => OnlyUnsettledOvertake
  BY Zenon DEF IInv, OrderOK
<1> QED
  BY <1>1, Inductive, PTL

=============================================================================
