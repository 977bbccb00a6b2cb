------------------------------ MODULE Sequence ------------------------------
(***************************************************************************)
(* Enrollments: journeys of contacts through the steps of a sequence.  The *)
(* scheduler of each Tick moves active enrollments from a snapshot it read *)
(* at the start; a send step, or a delay at the end, leaves the enrollment *)
(* waiting for a job, which the same Tick or a later one claims and which  *)
(* moves the enrollment on.  Operators pause, resume, cancel and migrate   *)
(* enrollments; recipients leave; the provider reports; the process may    *)
(* die.  Every database statement or transaction is one step, as in        *)
(* Dispatch.                                                               *)
(*                                                                         *)
(* Enrollments belong to different contacts and to sequences on one list.  *)
(* Two jobs with the same payload are interchangeable, so the queue counts *)
(* them by payload; settled jobs are forgotten.  A next_at, run_at or      *)
(* lease_until may have passed at any Tick.                                *)
(***************************************************************************)
EXTENDS Naturals, DeliveryRules

CONSTANTS
  Enrollments,
  Releases,         \* releases that define the sequence
  Steps,            \* step IDs of all of them
  End,              \* the empty string a terminal step has for its next
  Graph,            \* the steps of each release: type, next, else
  First,            \* the first step of each release
  NoJob,            \* the worker holds no job
  NoRelease,        \* not in the snapshot; no migration planned
  MaxDisturbances,  \* bound: pauses, refusals, crashes, failures per behaviour
  MaxQueued         \* bound: an enrollment with so many equal jobs is not scheduled

StepTypes == {"send", "delay", "condition", "complete"}

\* What manifest validation accepts: successors exist, a condition has both
\* branches, a complete step has none.
ASSUME GraphOK ==
  \A r \in Releases :
    /\ First[r] \in DOMAIN Graph[r] /\ DOMAIN Graph[r] \subseteq Steps
    /\ \A s \in DOMAIN Graph[r] :
         LET g == Graph[r][s] IN
         /\ g.type \in StepTypes
         /\ g.next \in DOMAIN Graph[r] \cup {End} /\ g.else \in DOMAIN Graph[r] \cup {End}
         /\ g.type = "condition" => g.next /= End /\ g.else /= End
         /\ g.type = "complete" => g.next = End

\* A job is <<enrollment, step, next>> as in its payload; an enrollment_complete
\* job, the end of a terminal delay, has no step.
SendJobs ==
  {j \in Enrollments \X Steps \X (Steps \cup {End}) :
     \E r \in Releases : /\ j[2] \in DOMAIN Graph[r]
                         /\ Graph[r][j[2]].type = "send" /\ Graph[r][j[2]].next = j[3]}
Jobs == SendJobs \cup Enrollments \X {End} \X {End}
Keys == Enrollments \X Steps

ASSUME ConstantsOK ==
  /\ End \notin Steps /\ NoRelease \notin Releases /\ NoJob \notin Jobs
  /\ MaxDisturbances \in Nat /\ MaxQueued \in Nat

VARIABLES
  standing,     \* consent of each contact: its row for the list, and suppression
  stops,        \* "retired": lists.retired; "project": projects.paused
  enrollment,   \* enrollments.state, "none" before the row exists
  step,         \* enrollments.current_step
  release,      \* enrollments.release_id
  completions,  \* sequence.completed rows in the outbox
  pending,      \* jobs in state pending, by payload
  leased,       \* jobs in state dispatching, by payload
  delivery,     \* deliveries.state, by enrollment and step
  pc,           \* where the worker is
  snapshot,     \* release and step of the enrollments the scheduler has yet to move
  at,           \* the job the worker holds
  verdict,      \* what reserveDelivery, Send or recordSMTPResult told it
  plan,         \* target release of the enrollments a migration request is about to move
  visited,      \* history: every current_step the enrollment has had
  crossed,      \* history: enrollments migrated while a job or the scheduler still had them
  copies,       \* history: copies of the mail the next server took
  lateSends,    \* history: attempts since the enrollment was last deliverable
  exited,       \* history: enrollments completed by their exit condition
  budget        \* disturbances left

place   == <<step, visited>>
journey == <<enrollment, place, release>>
ends    == <<completions, exited>>
queue   == <<pending, leased>>
worker  == <<pc, snapshot, at, verdict>>
migration == <<plan, crossed>>
history == <<copies, lateSends>>
vars == <<standing, stops, journey, ends, queue, delivery, worker, migration, history, budget>>

Ended == {"completed", "cancelled", "failed"}
Standings == {"confirmed", "unconfirmed", "suppressed", "deleted"}
NotDue == <<NoRelease, End>>

TypeOK ==
  /\ standing \in [Enrollments -> Standings]
  /\ stops \subseteq {"retired", "project"}
  /\ enrollment \in [Enrollments -> {"none", "active", "waiting", "paused"} \cup Ended]
  /\ step \in [Enrollments -> Steps]
  /\ release \in [Enrollments -> Releases]
  /\ completions \in [Enrollments -> Nat]
  /\ pending \in [Jobs -> Nat] /\ leased \in [Jobs -> Nat]
  /\ delivery \in [Keys -> DeliveryStates]
  /\ pc \in {"idle", "schedule", "claim", "check", "gates", "consent", "prepare",
             "reserve", "send", "record", "finish", "complete", "settle", "advance"}
  /\ snapshot \in [Enrollments -> (Releases \X Steps) \cup {NotDue}]
  /\ at \in Jobs \cup {NoJob}
  /\ verdict \in {"new", "retry"} \cup DeliveryStates
  /\ plan \in [Enrollments -> Releases \cup {NoRelease}]
  /\ visited \in [Enrollments -> SUBSET Steps] /\ crossed \subseteq Enrollments
  /\ copies \in [Keys -> Nat] /\ lateSends \in [Enrollments -> Nat]
  /\ exited \subseteq Enrollments
  /\ budget \in 0..MaxDisturbances

Init ==
  /\ standing \in [Enrollments -> {"confirmed", "unconfirmed"}]
  /\ stops = {}
  /\ enrollment = [e \in Enrollments |-> "none"]
  /\ release \in [Enrollments -> Releases]
  /\ step = [e \in Enrollments |-> First[release[e]]]
  /\ completions = [e \in Enrollments |-> 0]
  /\ pending = [j \in Jobs |-> 0] /\ leased = [j \in Jobs |-> 0]
  /\ delivery = [k \in Keys |-> "none"]
  /\ pc = "idle" /\ at = NoJob /\ verdict = "none"
  /\ snapshot = [e \in Enrollments |-> NotDue]
  /\ plan = [e \in Enrollments |-> NoRelease]
  /\ visited = [e \in Enrollments |-> {step[e]}] /\ crossed = {}
  /\ copies = [k \in Keys |-> 0] /\ lateSends = [e \in Enrollments |-> 0]
  /\ exited = {}
  /\ budget = MaxDisturbances

-----------------------------------------------------------------------------
(* Helpers *)

\* The final eligibility check of reserveDelivery: a waiting enrollment, consent,
\* nothing paused, list not retired.
EligibleInAnyState(e) == standing[e] = "confirmed" /\ stops = {}
Eligible(e) == enrollment[e] = "waiting" /\ standing[e] = "confirmed" /\ stops = {}

\* What "may be mailed now" means to a recipient and an operator.
Deliverable(e) ==
  /\ enrollment[e] = "waiting"
  /\ standing[e] = "confirmed"
  /\ "retired" \notin stops /\ "project" \notin stops

Recount == lateSends' = [e \in Enrollments |-> IF Deliverable(e)' THEN 0 ELSE lateSends[e]]

Disturb == budget > 0 /\ budget' = budget - 1

\* The scheduler's and the worker's UPDATE of an enrollment, which misses when
\* the enrollment is no longer in the state it was read in.
MoveKeepingStep(e, from, to, s) ==
  /\ enrollment' = [enrollment EXCEPT ![e] = IF @ = from THEN to ELSE @]
  /\ step' = [step EXCEPT ![e] = IF enrollment[e] = from /\ from = "waiting" THEN s ELSE @]
  /\ visited' = [visited EXCEPT ![e] = @ \cup {step'[e]}]
Move(e, from, to, s) ==
  IF enrollment[e] = from
  THEN /\ enrollment' = [enrollment EXCEPT ![e] = to]
       /\ step' = [step EXCEPT ![e] = s]
       /\ visited' = [visited EXCEPT ![e] = @ \cup {s}]
  ELSE UNCHANGED <<enrollment, place>>

\* completeEnrollment: the state and its outbox row, in one transaction.
CompleteOnTheWay(e, byExit) ==
  /\ enrollment' = [enrollment EXCEPT ![e] = "completed"]
  /\ completions' = [completions EXCEPT ![e] = @ + 1]
  /\ exited' = IF byExit THEN exited \cup {e} ELSE exited
CompleteActive(e, byExit) ==
  IF enrollment[e] = "active" /\ completions[e] = 0
  THEN /\ enrollment' = [enrollment EXCEPT ![e] = "completed"]
       /\ completions' = [completions EXCEPT ![e] = @ + 1]
       /\ exited' = IF byExit THEN exited \cup {e} ELSE exited
  ELSE UNCHANGED <<enrollment, ends>>
CompleteEnrollment(e, byExit) ==
  IF enrollment[e] \in {"active", "waiting"} /\ completions[e] = 0
  THEN /\ enrollment' = [enrollment EXCEPT ![e] = "completed"]
       /\ completions' = [completions EXCEPT ![e] = @ + 1]
       /\ exited' = IF byExit THEN exited \cup {e} ELSE exited
  ELSE UNCHANGED <<enrollment, ends>>

Enqueue(j) == pending' = [pending EXCEPT ![j] = @ + 1]

\* finishJob and retryJob: the job the worker holds goes, or goes back.
Settle(j) == leased' = [leased EXCEPT ![j] = @ - 1] /\ UNCHANGED pending
Retry(j) == leased' = [leased EXCEPT ![j] = @ - 1] /\ Enqueue(j)

\* finishJob, or retryJob, and dispatch returns to runJob.
Return(settle) ==
  /\ settle
  /\ pc' = "advance" /\ verdict' = "none"
  /\ UNCHANGED <<standing, stops, journey, ends, delivery, snapshot, at, migration, history>>

Goto(label) ==
  /\ pc' = label
  /\ UNCHANGED <<standing, stops, journey, ends, queue, delivery,
                 snapshot, at, verdict, migration, history>>

\* Back between two jobs of the same Tick.
Release == pc' = "claim" /\ at' = NoJob /\ verdict' = "none" /\ UNCHANGED snapshot

\* The mail of the job the worker holds.
Key == <<at[1], at[2]>>

\* A job of the enrollment is queued, leased or in the worker's hands.
HasJob(e) ==
  \/ \E j \in Jobs : j[1] = e /\ pending[j] + leased[j] > 0
  \/ pc \notin {"idle", "schedule", "claim"} /\ at[1] = e

\* An operation that ends every journey of the contact, from the given states.
CancelFrom(e, states) ==
  enrollment' = [enrollment EXCEPT ![e] = IF @ \in states THEN "cancelled" ELSE @]

-----------------------------------------------------------------------------
(* HTTP handlers and the mail provider *)

\* doEvents and consent confirm: the contact enters the sequence, once.
Enroll(e) ==
  /\ enrollment[e] = "none" /\ standing[e] /= "deleted"
  /\ enrollment' = [enrollment EXCEPT ![e] = "active"]
  /\ UNCHANGED <<standing, stops, place, release, ends, queue, delivery, worker,
                 migration, history, budget>>

\* doEnrollments: pause, resume and cancel; queued jobs stay queued.
PauseEnrollment(e) ==
  /\ enrollment[e] \in {"active", "waiting"} /\ Disturb
  /\ enrollment' = [enrollment EXCEPT ![e] = "paused"]
  /\ UNCHANGED <<standing, stops, place, release, ends, queue, delivery, worker,
                 migration, history>>

ResumeEnrollment(e) ==
  /\ enrollment[e] = "paused"
  /\ enrollment' = [enrollment EXCEPT ![e] = "active"]
  /\ UNCHANGED <<standing, stops, place, release, ends, queue, delivery, worker,
                 migration, history, budget>>

CancelEnrollment(e) ==
  /\ enrollment[e] \in {"active", "waiting", "paused"}
  /\ enrollment' = [enrollment EXCEPT ![e] = "cancelled"]
  /\ UNCHANGED <<standing, stops, place, release, ends, queue, delivery, worker,
                 migration, history, budget>>

\* migrateEnrollments reads which enrollments the target release can take (their
\* current step exists there), and then moves exactly those or none.
PlanMigration(r) ==
  /\ \A e \in Enrollments : plan[e] = NoRelease
  /\ plan' = [e \in Enrollments |->
                IF /\ enrollment[e] \in {"active", "waiting", "paused"}
                   /\ release[e] /= r /\ step[e] \in DOMAIN Graph[r]
                THEN r ELSE NoRelease]
  /\ plan' /= plan
  /\ UNCHANGED <<crossed, standing, stops, journey, ends, queue, delivery, worker, history, budget>>

ApplyMigration ==
  LET planned == {e \in Enrollments : plan[e] /= NoRelease}
      moved == IF \A e \in planned : enrollment[e] \in {"active", "waiting", "paused"}
               THEN planned ELSE {} IN
  /\ planned /= {}
  /\ release' = [e \in Enrollments |-> IF e \in moved THEN plan[e] ELSE release[e]]
  /\ plan' = [e \in Enrollments |-> NoRelease]
  /\ crossed' = crossed \cup {e \in moved : HasJob(e) \/ snapshot[e] /= NotDue}
  /\ UNCHANGED <<standing, stops, enrollment, place, ends, queue, delivery, worker,
                 history, budget>>

\* Operators and the circuit breaker pause a project; operators resume it.
PauseProject ==
  /\ "project" \notin stops /\ Disturb
  /\ stops' = stops \cup {"project"}
  /\ UNCHANGED <<standing, journey, ends, queue, delivery, worker, migration, history>>

ResumeProject ==
  /\ "project" \in stops
  /\ stops' = stops \ {"project"}
  /\ UNCHANGED <<standing, journey, ends, queue, delivery, worker, migration, copies, budget>>
  /\ Recount

\* A deployment that retires the list or brings it back; a new policy also moves
\* confirmed consent back to pending.  Enrollments are left alone.
Deploy(retire, newPolicy) ==
  /\ newPolicy \/ retire /= ("retired" \in stops)
  /\ stops' = (stops \ {"retired"}) \cup (IF retire THEN {"retired"} ELSE {})
  /\ standing' = [e \in Enrollments |-> IF newPolicy /\ standing[e] = "confirmed"
                                        THEN "unconfirmed" ELSE standing[e]]
  /\ IF retire \/ newPolicy THEN Disturb ELSE UNCHANGED budget
  /\ UNCHANGED <<journey, ends, queue, delivery, worker, migration, copies>>
  /\ Recount

Confirm(e) ==
  /\ standing[e] = "unconfirmed"
  /\ standing' = [standing EXCEPT ![e] = "confirmed"]
  /\ UNCHANGED <<stops, journey, ends, queue, delivery, worker, migration, copies, budget>>
  /\ Recount

\* consent unsubscribe, from the list or project-wide: a paused enrollment stays.
Unsubscribe(e, projectWide) ==
  /\ standing[e] /= "deleted" /\ Disturb
  /\ standing' = [standing EXCEPT ![e] = IF projectWide \/ @ = "suppressed"
                                         THEN "suppressed" ELSE "unconfirmed"]
  /\ CancelFrom(e, {"active", "waiting"})
  /\ UNCHANGED <<stops, place, release, ends, queue, delivery, worker, migration, history>>

\* contacts delete: the jobs that name the contact go, the end of a delay does not.
DeleteContact(e) ==
  /\ standing[e] /= "deleted" /\ Disturb
  /\ standing' = [standing EXCEPT ![e] = "deleted"]
  /\ CancelFrom(e, {"active", "waiting", "paused"})
  /\ pending' = [j \in Jobs |-> IF j[1] = e /\ j[2] /= End THEN 0 ELSE pending[j]]
  /\ UNCHANGED <<stops, place, release, ends, leased, delivery, worker, migration, history>>

\* Feedback about an existing delivery: a bounce or complaint suppresses and ends
\* the journey; a complaint pauses the project, a bounce may.
Feedback(k, kind) ==
  LET e == k[1] IN
  /\ delivery[k] /= "none" /\ standing[e] /= "deleted" /\ Disturb
  /\ delivery' = [delivery EXCEPT ![k] = AfterFeedback(@, kind)]
  /\ IF kind = "delivered"
     THEN UNCHANGED <<standing, stops, enrollment>>
     ELSE /\ standing' = [standing EXCEPT ![e] = "suppressed"]
          /\ CancelFrom(e, {"active", "waiting", "paused"})
          /\ \/ stops' = stops \cup {"project"}
             \/ kind = "bounce" /\ UNCHANGED stops
  /\ UNCHANGED <<place, release, ends, queue, worker, migration, history>>

-----------------------------------------------------------------------------
(* The scheduler, scheduleDueEnrollments *)

\* Tick: the enrollments that are active and due now, as they are now.
StartTick(active) ==
  /\ pc = "idle" /\ \A e \in active : enrollment[e] = "active"
  /\ \A j \in Jobs : j[1] \in active => pending[j] + leased[j] < MaxQueued
  /\ snapshot' = [e \in Enrollments |->
                    IF e \in active THEN <<release[e], step[e]>> ELSE NotDue]
  /\ pc' = "schedule"
  /\ UNCHANGED <<standing, stops, journey, ends, queue, delivery, at, verdict,
                 migration, history, budget>>

\* One enrollment of the snapshot, at the step (or the missing one) it was read at.
Schedule(e, change) ==
  /\ pc = "schedule" /\ snapshot[e] /= NotDue
  /\ change
  /\ snapshot' = [snapshot EXCEPT ![e] = NotDue]
  /\ UNCHANGED <<standing, stops, release, leased, delivery, pc, at, verdict,
                 migration, copies, budget>>
  /\ Recount

Scheduled(e) == Graph[snapshot[e][1]][snapshot[e][2]]
Present(e) == snapshot[e] /= NotDue /\ snapshot[e][2] \in DOMAIN Graph[snapshot[e][1]]
IsAt(e, type) == Present(e) /\ Scheduled(e).type = type

\* The exit condition holds.
ScheduleExit(e) ==
  Schedule(e, CompleteEnrollment(e, TRUE) /\ UNCHANGED <<place, pending>>)

\* The step is not in the release: failed, whatever became of the enrollment; the
\* error of that UPDATE is ignored.
ScheduleMissing(e) ==
  /\ ~Present(e)
  /\ \/ Schedule(e, /\ enrollment' = [enrollment EXCEPT ![e] = "failed"]
                    /\ UNCHANGED <<place, ends, pending>>)
     \/ /\ pc = "schedule" /\ snapshot[e] /= NotDue /\ Disturb
        /\ snapshot' = [snapshot EXCEPT ![e] = NotDue]
        /\ UNCHANGED <<standing, stops, journey, ends, queue, delivery, pc, at, verdict,
                       migration, history>>

ScheduleComplete(e) ==
  /\ IsAt(e, "complete")
  /\ Schedule(e, CompleteEnrollment(e, FALSE) /\ UNCHANGED <<place, pending>>)

\* A delay with a successor only moves next_at; a terminal one waits for a job,
\* which is queued even when the enrollment is no longer active.
ScheduleDelay(e) ==
  LET s == snapshot[e][2]  next == Scheduled(e).next IN
  /\ IsAt(e, "delay")
  /\ Schedule(e, /\ IF next = End
                    THEN /\ enrollment' = [enrollment EXCEPT
                                             ![e] = IF @ = "active" THEN "waiting" ELSE @]
                         /\ Enqueue(<<e, End, End>>) /\ UNCHANGED place
                    ELSE Move(e, "active", "active", next) /\ UNCHANGED pending
                 /\ UNCHANGED ends)

ScheduleCondition(e) ==
  /\ IsAt(e, "condition")
  /\ \E next \in {Scheduled(e).next, Scheduled(e).else} :
       Schedule(e, Move(e, "active", "active", next) /\ UNCHANGED <<ends, pending>>)

\* The job is queued only if the enrollment is still active.
ScheduleSend(e) ==
  /\ IsAt(e, "send")
  /\ Schedule(e, /\ IF enrollment[e] = "active"
                    THEN /\ enrollment' = [enrollment EXCEPT ![e] = "waiting"]
                         /\ Enqueue(<<e, snapshot[e][2], Scheduled(e).next>>)
                    ELSE UNCHANGED <<enrollment, pending>>
                 /\ UNCHANGED <<place, ends>>)

\* Tick: leases that have passed belong to Ticks that died; their jobs end uncertain.
KeepLeases(lapsed) ==
  /\ pc = "schedule" /\ \A e \in Enrollments : snapshot[e] = NotDue
  /\ pc' = "claim"
  /\ UNCHANGED <<standing, stops, journey, ends, queue, delivery, snapshot, at,
                 verdict, migration, history, budget>>
ExpireLeases(lapsed) ==
  /\ pc = "schedule" /\ \A e \in Enrollments : snapshot[e] = NotDue
  /\ leased' = [j \in Jobs |-> IF j \in lapsed THEN 0 ELSE leased[j]]
  /\ pc' = "claim"
  /\ UNCHANGED <<standing, stops, journey, ends, pending, delivery, snapshot, at,
                 verdict, migration, history, budget>>

-----------------------------------------------------------------------------
(* The worker *)

Claim(j) ==
  /\ pc = "claim" /\ pending[j] > 0
  /\ pending' = [pending EXCEPT ![j] = @ - 1]
  /\ leased' = [leased EXCEPT ![j] = @ + 1]
  /\ at' = j
  /\ pc' = IF j[2] = End THEN "check" ELSE "gates"
  /\ UNCHANGED <<standing, stops, journey, ends, delivery, snapshot, verdict,
                 migration, history, budget>>

EndTick == pc = "claim" /\ Goto("idle") /\ UNCHANGED budget

\* runJob, "enrollment_complete": its first read.
CheckEnrollment ==
  /\ pc = "check"
  /\ UNCHANGED budget
  /\ \/ enrollment[at[1]] = "waiting" /\ Goto("complete")
     \/ /\ enrollment[at[1]] /= "waiting"
        /\ IF enrollment[at[1]] = "paused" THEN Retry(at) ELSE Settle(at)
        /\ Release
        /\ UNCHANGED <<standing, stops, journey, ends, delivery, migration, history>>

\* completeEnrollment at the end of a delay, or because dispatch found the exit
\* condition true; there a failure is ignored.
Complete ==
  /\ pc = "complete"
  /\ \/ CompleteEnrollment(at[1], at[2] /= End) /\ UNCHANGED budget
     \/ at[2] /= End /\ Disturb /\ UNCHANGED <<enrollment, ends>>
  /\ pc' = "settle"
  /\ UNCHANGED <<standing, stops, place, release, queue, delivery, snapshot, at, verdict,
                 migration, history>>

\* finishJob after it: complete at the end of a delay, else cancelled.
SettleAfterCompletion ==
  /\ pc = "settle" /\ Settle(at)
  /\ IF at[2] = End THEN Release ELSE pc' = "advance" /\ UNCHANGED <<snapshot, at, verdict>>
  /\ UNCHANGED <<standing, stops, journey, ends, delivery, migration, history, budget>>

\* The exit condition is evaluated at three points of dispatch.
FindExit == pc \in {"consent", "prepare", "reserve"} /\ Goto("complete") /\ UNCHANGED budget

CheckGates ==
  /\ pc = "gates"
  /\ UNCHANGED budget
  /\ \/ standing[at[1]] = "deleted" /\ Return(Settle(at))
     \/ standing[at[1]] /= "deleted" /\ "project" \in stops /\ Return(Retry(at))
     \/ standing[at[1]] /= "deleted" /\ "project" \notin stops /\ Goto("consent")

CheckConsent ==
  /\ pc = "consent"
  /\ UNCHANGED budget
  /\ IF standing[at[1]] = "confirmed" THEN Goto("prepare") ELSE Return(Settle(at))

\* The reads of these two steps, and the one of the release, end the job when they
\* fail, as if the row were missing; the Tick goes on.
LoseRead == pc \in {"gates", "consent"} /\ Disturb /\ Return(Settle(at))

\* Content, artifacts, rendering and transport can fail the job, the rate limit
\* puts it back.
Prepare ==
  /\ pc = "prepare"
  /\ \/ UNCHANGED budget /\ (Goto("reserve") \/ Return(Settle(at)))
     \/ Disturb /\ Return(Retry(at))

\* reserveDelivery: eligibility and the intent in one transaction.
Reserve ==
  /\ pc = "reserve"
  /\ UNCHANGED budget
  /\ \/ ~(Eligible(at[1]) /\ MayReserve(delivery[Key])) /\ Return(Settle(at))
     \/ /\ Eligible(at[1]) /\ MayReserve(delivery[Key])
        /\ verdict' = IF delivery[Key] = "none" THEN "new" ELSE "retry"
        /\ delivery' = [delivery EXCEPT ![Key] = "dispatching"]
        /\ pc' = "send"
        /\ UNCHANGED <<standing, stops, journey, ends, queue, snapshot, at, migration, history>>

\* A retry first reads the frozen message back; if it cannot, no mail is sent.
LoseFrozenMessage ==
  /\ pc = "send" /\ verdict = "retry"
  /\ UNCHANGED budget
  /\ Return(Settle(at))

Send(o) ==
  /\ pc = "send"
  /\ IF o.result = "transient" THEN Disturb ELSE UNCHANGED budget
  /\ copies' = [copies EXCEPT ![Key] = @ + o.copy]
  /\ lateSends' = IF Deliverable(at[1]) THEN lateSends
                  ELSE [lateSends EXCEPT ![at[1]] = @ + 1]
  /\ verdict' = o.result
  /\ pc' = "record"
  /\ UNCHANGED <<standing, stops, journey, ends, queue, delivery, snapshot, at, migration>>

\* recordSMTPResult; a statement that fails leaves the row and counts as uncertain.
Record ==
  /\ pc = "record"
  /\ \/ /\ UNCHANGED budget
        /\ delivery' = [delivery EXCEPT ![Key] = AfterSmtp(@, verdict)]
        /\ verdict' = AfterSmtp(delivery[Key], verdict)
     \/ Disturb /\ verdict' = "uncertain" /\ UNCHANGED delivery
  /\ pc' = "finish"
  /\ UNCHANGED <<standing, stops, journey, ends, queue, snapshot, at, migration, history>>

Finish ==
  /\ pc = "finish"
  /\ UNCHANGED budget
  /\ Return(IF JobAfterSend(verdict) = "pending" THEN Retry(at) ELSE Settle(at))

\* runJob, "sequence", however dispatch ended: an accepted delivery of this step
\* moves a waiting enrollment on.
MovesOnAnyReport(state) == state \notin {"none", "dispatching", "transient"}
MovesOn(state) == state = "accepted"

Advance ==
  LET e == at[1]  next == at[3] IN
  /\ pc = "advance"
  /\ \/ MovesOn(delivery[Key]) /\ next = End /\ CompleteEnrollment(e, FALSE) /\ UNCHANGED place
     \/ MovesOn(delivery[Key]) /\ next /= End /\ Move(e, "waiting", "active", next)
        /\ UNCHANGED ends
     \/ ~MovesOn(delivery[Key]) /\ UNCHANGED <<enrollment, place, ends>>
  /\ Release
  /\ UNCHANGED <<standing, stops, release, queue, delivery, migration, history, budget>>

\* When the read of the delivery fails the enrollment stays where it is.
LoseAdvance ==
  /\ pc = "advance" /\ Disturb /\ Release
  /\ UNCHANGED <<standing, stops, journey, ends, queue, delivery, migration, history>>

\* A database error or a cancelled context ends the Tick wherever it is.
FailTick ==
  /\ pc /= "idle" /\ Disturb
  /\ pc' = "idle" /\ at' = NoJob /\ verdict' = "none"
  /\ snapshot' = [e \in Enrollments |-> NotDue]
  /\ UNCHANGED <<standing, stops, journey, ends, queue, delivery, migration, history>>

\* The process dies and starts again: the Tick and the migration request are gone.
Crash ==
  /\ Disturb
  /\ pc' = "idle" /\ at' = NoJob /\ verdict' = "none"
  /\ snapshot' = [e \in Enrollments |-> NotDue]
  /\ plan' = [e \in Enrollments |-> NoRelease]
  /\ UNCHANGED <<standing, stops, journey, ends, queue, delivery, crossed, history>>

-----------------------------------------------------------------------------
Operators ==
  \/ \E e \in Enrollments : PauseEnrollment(e) \/ ResumeEnrollment(e) \/ CancelEnrollment(e)
  \/ (\E r \in Releases : PlanMigration(r)) \/ ApplyMigration
  \/ PauseProject \/ ResumeProject
  \/ \E retire, newPolicy \in BOOLEAN : Deploy(retire, newPolicy)

Recipients ==
  \/ \E e \in Enrollments :
       Enroll(e) \/ Confirm(e) \/ DeleteContact(e)
         \/ \E wide \in BOOLEAN : Unsubscribe(e, wide)
  \/ \E k \in Keys, kind \in FeedbackKinds : Feedback(k, kind)

Scheduler ==
  \/ \E active \in SUBSET Enrollments : StartTick(active)
  \/ \E e \in Enrollments :
       \/ ScheduleExit(e) \/ ScheduleMissing(e) \/ ScheduleComplete(e)
       \/ ScheduleDelay(e) \/ ScheduleCondition(e) \/ ScheduleSend(e)
  \/ \E lapsed \in SUBSET {j \in Jobs : leased[j] > 0} : ExpireLeases(lapsed)

Worker ==
  \/ (\E j \in Jobs : Claim(j)) \/ EndTick
  \/ CheckEnrollment \/ Complete \/ SettleAfterCompletion
  \/ FindExit \/ CheckGates \/ CheckConsent \/ LoseRead \/ Prepare \/ Reserve
  \/ LoseFrozenMessage \/ (\E o \in SendOutcomes : Send(o)) \/ Record \/ Finish
  \/ Advance \/ LoseAdvance

Next == Operators \/ Recipients \/ Scheduler \/ Worker \/ FailTick \/ Crash

Spec == Init /\ [][Next]_vars

\* The Tick loop runs on (main.go); due enrollments and jobs are served oldest
\* first; leases lapse; operators resume what they paused.
Fairness ==
  /\ WF_vars(Scheduler \/ Worker)
  /\ \A e \in Enrollments :
       SF_vars(\E active \in SUBSET Enrollments : e \in active /\ StartTick(active))
  /\ \A j \in Jobs :
       /\ SF_vars(Claim(j))
       /\ SF_vars(\E lapsed \in SUBSET Jobs : j \in lapsed /\ leased[j] > 0 /\ ExpireLeases(lapsed))
  /\ WF_vars(ResumeProject) /\ \A e \in Enrollments : WF_vars(ResumeEnrollment(e))

FairSpec == Spec /\ Fairness

-----------------------------------------------------------------------------
(* Properties *)

\* An enrollment gets at most one copy of a step's mail, also when pausing and
\* resuming, a restarted delay or a stale job queue the same step again
\* (reserveDelivery finds the row by enrollment and step).
OneCopyPerStep == \A k \in Keys : copies[k] <= 1

\* Once an enrollment is cancelled, completed or paused, its contact withdraws, or
\* the project stops, at most the attempt already committed still leaves (HANDOFF.md:
\* the final delivery-intent transaction requires a waiting enrollment).
EndLetsOneAttemptOut == \A e \in Enrollments : lateSends[e] <= 1

\* sequence.completed is emitted once, exactly for completed enrollments, although
\* the scheduler, the end of a delay, a terminal send and the exit condition at
\* three points of dispatch may all complete it (completeEnrollment).
CompletedOnce ==
  \A e \in Enrollments : completions[e] = IF enrollment[e] = "completed" THEN 1 ELSE 0

\* Mail of a send step that an enrollment has left behind was handed over: the
\* server accepted it or the provider reported on it.
HandedOver(e, r, s) ==
  Graph[r][s].type = "send" => delivery[<<e, s>>] \in {"accepted"} \cup FeedbackKinds

\* Every step an enrollment has come to is a first step or follows one it had come to
\* before and whose mail was handed over; and an enrollment completes, other than by
\* its exit condition, only when it had come to a last step of its own release whose
\* mail, if it sends one, was handed over (runJob moves an enrollment on by the
\* delivery row, whatever job happens to run).  The second half does not hold for an
\* enrollment migrated while a job or the scheduler had it: the job of a terminal delay
\* it left, which names no step, then completes it wherever it waits.
JourneyIsEarned ==
  \A e \in Enrollments :
    /\ \A s \in visited[e] : \E r \in Releases :
         \/ s = First[r]
         \/ \E p \in visited[e] \cap DOMAIN Graph[r] :
              s \in {Graph[r][p].next, Graph[r][p].else} /\ HandedOver(e, r, p)
    /\ enrollment[e] = "completed" /\ e \notin exited \cup crossed =>
         \E s \in visited[e] \cap DOMAIN Graph[release[e]] :
           Graph[release[e]][s].next = End /\ HandedOver(e, release[e], s)

\* A completed, cancelled or failed enrollment never runs again, whatever snapshot
\* or job of it is still around.
EndedStaysEnded ==
  [][\A e \in Enrollments : enrollment[e] \in Ended => enrollment'[e] \in Ended]_vars

\* A queued job is always taken from the queue in the end, and so is a leased one.
QueueMoves ==
  \A j \in Jobs : pending[j] + leased[j] > 0 ~> pending[j] + leased[j] = 0

\* An active enrollment does not stay active for ever: steps follow a graph
\* without cycles to one that waits or ends.
JourneyMoves ==
  \A e \in Enrollments : enrollment[e] = "active" ~> enrollment[e] /= "active"

\* The pipeline implements the ledger of mails, one per enrollment and step.
Ledger ==
  [k \in Keys |-> IF delivery[k] \in {"none", "transient"} THEN "open"
                  ELSE IF delivery[k] = "dispatching" THEN "attempted" ELSE "closed"]

Mail == INSTANCE MailLedger WITH Mails <- Keys, ledger <- Ledger

ImplementsMailLedger == Mail!Spec

\* As in Dispatch: consent and deployments keep to the contract.
Willing == {e \in Enrollments : standing[e] = "confirmed"}
Barred == {e \in Enrollments : standing[e] \in {"suppressed", "deleted"}}

Circle == INSTANCE Audience WITH People <- Enrollments, willing <- Willing,
                                 barred <- Barred, closed <- "retired" \in stops

ImplementsAudience == Circle!Spec

\* A waiting enrollment nothing will move on.
WaitsInVain(e) == enrollment[e] = "waiting" /\ ~HasJob(e)

\* An enrollment comes to wait in vain only by a lapsed lease, by a job that ended
\* without an accepted mail, or by a failure between the end of the job and the UPDATE
\* that follows it (runJob, "sequence"): never by pauses, duplicates, migrations, the
\* scheduler or the completion of another path.
WaitsInVainByAccident ==
  [][\A e \in Enrollments : ~WaitsInVain(e) /\ WaitsInVain(e)' =>
       \/ pc = "schedule" /\ pc' = "claim"
       \/ pc = "advance" /\ (~MovesOn(delivery[Key]) \/ budget' < budget)]_vars

\* explainReason tells of every waiting enrollment with confirmed consent that its
\* "delivery job is queued or in progress".
WaitingHasAJob ==
  \A e \in Enrollments :
    enrollment[e] = "waiting" /\ standing[e] = "confirmed" =>
      \/ \E j \in Jobs : j[1] = e /\ pending[j] + leased[j] > 0
      \/ at /= NoJob /\ at[1] = e
=============================================================================
