--------------------------- MODULE SequenceProofs ---------------------------
(***************************************************************************)
(* Machine-checked proofs about Sequence, for every set of contacts, every *)
(* set of releases with valid step graphs and every bound.                 *)
(***************************************************************************)
EXTENDS Sequence, TLAPS

(***************************************************************************)
(* The inductive invariant.                                                *)
(***************************************************************************)
Holding == {"check", "gates", "consent", "prepare", "reserve", "send", "record",
            "finish", "complete", "settle"}
AtSend == {"gates", "consent", "prepare", "reserve", "send", "record", "finish", "advance"}

\* The worker holds a leased job of the right kind; the scheduler's snapshot is
\* only there while it runs, and holds no enrollment that has completed.
WorkerOK ==
  /\ pc \in Holding \cup {"advance"} => at \in Jobs
  /\ pc \in Holding => leased[at] > 0
  /\ pc \in AtSend => at \in SendJobs
  /\ pc = "check" => at[2] = End
  /\ pc = "record" => verdict \in SmtpResults
  /\ \A e \in Enrollments : snapshot[e] /= NotDue =>
       pc = "schedule" /\ enrollment[e] \notin {"none", "completed"}

\* No copy is out where the row could lead to another attempt.
CopyOK ==
  /\ \A k \in Keys : copies[k] <= 1
  /\ \A k \in Keys : delivery[k] \in {"none", "transient"} => copies[k] = 0
  /\ pc \in {"send", "record"} => delivery[Key] \in {"dispatching"} \cup FeedbackKinds
  /\ pc = "send" => copies[Key] = 0
  /\ pc = "record" /\ verdict = "transient" => copies[Key] = 0

\* A committed intent was eligible when it was made.
LateOK ==
  /\ \A e \in Enrollments : lateSends[e] <= 1
  /\ pc = "send" => lateSends[at[1]] = 0
  /\ \A e \in Enrollments : Deliverable(e) => lateSends[e] = 0

\* An enrollment has been where it stands and where the scheduler read it, and only a
\* migration takes it from the release it was read in.
TrailOK ==
  \A e \in Enrollments :
    /\ step[e] \in visited[e]
    /\ snapshot[e] /= NotDue =>
         snapshot[e][2] \in visited[e] /\ (e \notin crossed => snapshot[e][1] = release[e])

\* A job is of a step the enrollment has come to; unless a migration crossed it, its
\* successor is the one of the enrollment's release, and the end of a delay is there.
Live(j) == pending[j] + leased[j] > 0 \/ (pc = "advance" /\ at = j)

Fits(j) ==
  LET e == j[1] IN
  /\ j[2] /= End => j[2] \in visited[e]
  /\ e \notin crossed =>
       IF j[2] = End
       THEN \E s \in visited[e] \cap DOMAIN Graph[release[e]] :
              Graph[release[e]][s].type = "delay" /\ Graph[release[e]][s].next = End
       ELSE j[2] \in DOMAIN Graph[release[e]] /\ Graph[release[e]][j[2]].next = j[3]

JobsOK == \A j \in Jobs : Live(j) => Fits(j)

\* The job at the end of a delay is settled behind the journey it was for.
SettleOK == pc = "settle" /\ at[2] = End => enrollment[at[1]] /= "waiting"

IInv == /\ TypeOK /\ WorkerOK /\ CopyOK /\ LateOK /\ CompletedOnce /\ TrailOK /\ JobsOK
        /\ JourneyIsEarned /\ SettleOK

-----------------------------------------------------------------------------
(* What the constants give. *)

\* What one SMTP attempt can report (SMTP.Send, classified): a transient result
\* never leaves a copy behind.
LEMMA SendOutcomesOK ==
  ASSUME NEW o \in SendOutcomes
  PROVE  /\ o.result \in SmtpResults
         /\ o.copy \in {0, 1}
         /\ o.result = "transient" => o.copy = 0
  BY DEF SendOutcomes, Classified, SmtpResults

\* A valid release leads from step to step or to the end (manifest validation).
LEMMA GraphFacts ==
  ASSUME NEW r \in Releases, NEW s \in DOMAIN Graph[r]
  PROVE  /\ s \in Steps /\ s /= End
         /\ Graph[r][s].next \in Steps \cup {End} /\ Graph[r][s].else \in Steps \cup {End}
         /\ Graph[r][s].type = "condition" =>
              Graph[r][s].next \in Steps /\ Graph[r][s].else \in Steps
         /\ Graph[r][s].type = "complete" => Graph[r][s].next = End
  BY GraphOK, ConstantsOK DEF GraphOK, ConstantsOK

\* A job belongs to an enrollment; it is for a send step or for the end of a delay.
LEMMA JobFacts ==
  ASSUME NEW j \in Jobs
  PROVE  /\ j[1] \in Enrollments /\ j[3] \in Steps \cup {End}
         /\ j[2] /= End => j \in SendJobs
         /\ j \in SendJobs => <<j[1], j[2]>> \in Keys /\ j[2] \in Steps /\ j[2] /= End
  BY ConstantsOK DEF ConstantsOK, Jobs, SendJobs, Keys

\* The end of a delay is a job that every enrollment may have.
LEMMA EndJob ==
  ASSUME NEW e \in Enrollments
  PROVE  <<e, End, End>> \in Jobs
  BY DEF Jobs

\* A queued job is one more.
LEMMA EnqueueType ==
  ASSUME pending \in [Jobs -> Nat], NEW j \in Jobs, Enqueue(j)
  PROVE  pending' \in [Jobs -> Nat]
  BY DEF Enqueue

\* A settled or retried job leaves the leased ones.
LEMMA SettleType ==
  ASSUME pending \in [Jobs -> Nat], leased \in [Jobs -> Nat], NEW j \in Jobs, leased[j] > 0,
         Settle(j) \/ Retry(j)
  PROVE  pending' \in [Jobs -> Nat] /\ leased' \in [Jobs -> Nat]
  BY DEF Settle, Retry, Enqueue

\* What the scheduler reads of an enrollment in its snapshot.
LEMMA SnapshotFacts ==
  ASSUME TypeOK, NEW e \in Enrollments, Present(e)
  PROVE  /\ snapshot[e][1] \in Releases /\ snapshot[e][2] \in DOMAIN Graph[snapshot[e][1]]
         /\ snapshot[e][2] \in Steps
         /\ Scheduled(e) = Graph[snapshot[e][1]][snapshot[e][2]]
         /\ Scheduled(e).next \in Steps \cup {End}
         /\ Scheduled(e).type = "condition" =>
              Scheduled(e).next \in Steps /\ Scheduled(e).else \in Steps
         /\ Scheduled(e).type = "complete" => Scheduled(e).next = End
         /\ Scheduled(e).type = "send" =>
              <<e, snapshot[e][2], Scheduled(e).next>> \in SendJobs
<1>1. snapshot[e] \in Releases \X Steps /\ snapshot[e][2] \in DOMAIN Graph[snapshot[e][1]]
  BY DEF TypeOK, Present
<1>2. Scheduled(e) = Graph[snapshot[e][1]][snapshot[e][2]]
  BY DEF Scheduled
<1>3. /\ Scheduled(e).next \in Steps \cup {End}
      /\ Scheduled(e).type = "condition" =>
           Scheduled(e).next \in Steps /\ Scheduled(e).else \in Steps
      /\ Scheduled(e).type = "complete" => Scheduled(e).next = End
  BY <1>1, <1>2, GraphFacts
<1> QED
  BY <1>1, <1>2, <1>3 DEF SendJobs

\* The empty database and an idle worker satisfy the invariant.
LEMMA InitIInv == Init => IInv
<1> SUFFICES ASSUME Init PROVE IInv
  OBVIOUS
<1> USE ConstantsOK DEF ConstantsOK, Init
<1>1. TypeOK
  BY GraphOK DEF GraphOK, TypeOK, DeliveryStates, Standings
<1>2. WorkerOK /\ CopyOK /\ TrailOK /\ JobsOK /\ SettleOK
  BY DEF WorkerOK, CopyOK, TrailOK, JobsOK, Live, SettleOK, Holding, AtSend
<1>3. LateOK /\ CompletedOnce
  BY DEF LateOK, CompletedOnce, Deliverable
<1>4. JourneyIsEarned
  BY DEF JourneyIsEarned
<1> QED
  BY <1>1, <1>2, <1>3, <1>4 DEF IInv

-----------------------------------------------------------------------------
(* Every part of the invariant is kept by every step. *)

\* Every step writes states the code knows, and steps of a valid release; no step
\* takes a job from the queue that is not there.
LEMMA TypeStep == TypeOK /\ WorkerOK /\ [Next]_vars => TypeOK'
<1> SUFFICES ASSUME TypeOK /\ WorkerOK, [Next]_vars PROVE TypeOK'
  OBVIOUS
<1> USE ConstantsOK DEF ConstantsOK, TypeOK, WorkerOK, Holding, AtSend, Ended, Standings,
    DeliveryStates, SmtpResults, FeedbackKinds, journey, place, migration, ends, queue, worker, history
<1>1. ASSUME NEW e \in Enrollments, PauseEnrollment(e) PROVE TypeOK'
  BY <1>1 DEF PauseEnrollment, Disturb
<1>2. ASSUME NEW e \in Enrollments, ResumeEnrollment(e) PROVE TypeOK'
  BY <1>2 DEF ResumeEnrollment
<1>3. ASSUME NEW e \in Enrollments, CancelEnrollment(e) PROVE TypeOK'
  BY <1>3 DEF CancelEnrollment
<1>4. ASSUME NEW r \in Releases, PlanMigration(r) PROVE TypeOK'
  BY <1>4 DEF PlanMigration
<1>5. CASE ApplyMigration
  BY <1>5 DEF ApplyMigration
<1>6. CASE PauseProject
  BY <1>6 DEF PauseProject, Disturb
<1>7. CASE ResumeProject
  BY <1>7 DEF ResumeProject, Recount
<1>8. ASSUME NEW retire \in BOOLEAN, NEW newPolicy \in BOOLEAN, Deploy(retire, newPolicy)
      PROVE  TypeOK'
  BY <1>8 DEF Deploy, Disturb, Recount
<1>9. ASSUME NEW e \in Enrollments, Enroll(e) PROVE TypeOK'
  BY <1>9 DEF Enroll
<1>10. ASSUME NEW e \in Enrollments, Confirm(e) PROVE TypeOK'
  BY <1>10 DEF Confirm, Recount
<1>11. ASSUME NEW e \in Enrollments, DeleteContact(e) PROVE TypeOK'
  BY <1>11 DEF DeleteContact, Disturb, CancelFrom
<1>12. ASSUME NEW e \in Enrollments, NEW wide \in BOOLEAN, Unsubscribe(e, wide) PROVE TypeOK'
  BY <1>12 DEF Unsubscribe, Disturb, CancelFrom
<1>13. ASSUME NEW k \in Keys, NEW kind \in FeedbackKinds, Feedback(k, kind) PROVE TypeOK'
  <2>1. k[1] \in Enrollments
    BY DEF Keys
  <2>2. AfterFeedback(delivery[k], kind) \in DeliveryStates
    BY DEF AfterFeedback
  <2>3. delivery' \in [Keys -> DeliveryStates]
    BY <1>13, <2>2 DEF Feedback
  <2>4. standing' \in [Enrollments -> Standings]
    BY <1>13, <2>1 DEF Feedback
  <2>5. stops' = stops \/ stops' = stops \cup {"project"}
    BY <1>13 DEF Feedback
  <2>6. stops' \subseteq {"retired", "project"}
    <3>1. CASE stops' = stops
      BY <3>1
    <3>2. CASE stops' = stops \cup {"project"}
      BY <3>2
    <3> QED
      BY <2>5, <3>1, <3>2
  <2>7. enrollment' \in [Enrollments -> {"none", "active", "waiting", "paused"} \cup Ended]
    BY <1>13, <2>1 DEF Feedback, CancelFrom
  <2> QED
    BY <1>13, <2>3, <2>4, <2>6, <2>7 DEF Feedback, Disturb
<1>14. ASSUME NEW active \in SUBSET Enrollments, StartTick(active) PROVE TypeOK'
  BY <1>14 DEF StartTick
<1>15. ASSUME NEW e \in Enrollments, ScheduleExit(e) PROVE TypeOK'
  BY <1>15 DEF ScheduleExit, Schedule, CompleteEnrollment, Recount
<1>16. ASSUME NEW e \in Enrollments, ScheduleMissing(e) PROVE TypeOK'
  <2>1. CASE Schedule(e, /\ enrollment' = [enrollment EXCEPT ![e] = "failed"]
                         /\ UNCHANGED <<place, ends, pending>>)
    BY <2>1 DEF Schedule, Recount
  <2>2. CASE Disturb /\ snapshot' = [snapshot EXCEPT ![e] = NotDue]
             /\ UNCHANGED <<standing, stops, journey, ends, queue, delivery, pc, at, verdict,
                            migration, history>>
    BY <2>2 DEF Disturb
  <2> QED
    BY <1>16, <2>1, <2>2 DEF ScheduleMissing
<1>17. ASSUME NEW e \in Enrollments, ScheduleComplete(e) PROVE TypeOK'
  BY <1>17 DEF ScheduleComplete, Schedule, CompleteEnrollment, Recount
<1>18. ASSUME NEW e \in Enrollments, ScheduleDelay(e) PROVE TypeOK'
  <2>1. Present(e) /\ Scheduled(e).next \in Steps \cup {End}
    BY <1>18, SnapshotFacts DEF ScheduleDelay, IsAt
  <2>2. pending' \in [Jobs -> Nat]
    BY <1>18, EndJob, EnqueueType DEF ScheduleDelay, Schedule
  <2>3. /\ enrollment' \in [Enrollments -> {"none", "active", "waiting", "paused"} \cup Ended]
        /\ step' \in [Enrollments -> Steps] /\ visited' \in [Enrollments -> SUBSET Steps]
    BY <1>18, <2>1 DEF ScheduleDelay, Schedule, Move
  <2> QED
    BY <1>18, <2>2, <2>3 DEF ScheduleDelay, Schedule, Recount
<1>19. ASSUME NEW e \in Enrollments, ScheduleCondition(e) PROVE TypeOK'
  <2>1. PICK next \in {Scheduled(e).next, Scheduled(e).else} :
          Schedule(e, Move(e, "active", "active", next) /\ UNCHANGED <<ends, pending>>)
    BY <1>19 DEF ScheduleCondition
  <2>2. next \in Steps
    BY <1>19, <2>1, SnapshotFacts DEF ScheduleCondition, IsAt
  <2>3. /\ enrollment' \in [Enrollments -> {"none", "active", "waiting", "paused"} \cup Ended]
        /\ step' \in [Enrollments -> Steps] /\ visited' \in [Enrollments -> SUBSET Steps]
    BY <2>1, <2>2 DEF Schedule, Move
  <2> QED
    BY <2>1, <2>3 DEF Schedule, Recount
<1>20. ASSUME NEW e \in Enrollments, ScheduleSend(e) PROVE TypeOK'
  <2>1. <<e, snapshot[e][2], Scheduled(e).next>> \in Jobs
    BY <1>20, SnapshotFacts DEF ScheduleSend, IsAt, Jobs
  <2>2. pending' \in [Jobs -> Nat]
    BY <1>20, <2>1, EnqueueType DEF ScheduleSend, Schedule
  <2>3. enrollment' \in [Enrollments -> {"none", "active", "waiting", "paused"} \cup Ended]
    BY <1>20 DEF ScheduleSend, Schedule
  <2> QED
    BY <1>20, <2>2, <2>3 DEF ScheduleSend, Schedule, Recount
<1>21. ASSUME NEW lapsed, ExpireLeases(lapsed) PROVE TypeOK'
  BY <1>21 DEF ExpireLeases
<1>22. ASSUME NEW j \in Jobs, Claim(j) PROVE TypeOK'
  BY <1>22, JobFacts DEF Claim
<1>23. CASE EndTick
  BY <1>23 DEF EndTick, Goto
<1>24. CASE CheckEnrollment
  <2>1. at \in Jobs /\ leased[at] > 0 /\ at[1] \in Enrollments
    BY <1>24, JobFacts DEF CheckEnrollment
  <2>2. pending' \in [Jobs -> Nat] /\ leased' \in [Jobs -> Nat]
    BY <1>24, <2>1, SettleType DEF CheckEnrollment, Goto
  <2> QED
    BY <1>24, <2>1, <2>2 DEF CheckEnrollment, Goto, Release
<1>25. CASE Complete
  <2>1. at[1] \in Enrollments
    BY <1>25, JobFacts DEF Complete
  <2> QED
    BY <1>25, <2>1 DEF Complete, CompleteEnrollment, Disturb
<1>26. CASE SettleAfterCompletion
  <2>1. at \in Jobs /\ leased[at] > 0 /\ at[1] \in Enrollments
    BY <1>26, JobFacts DEF SettleAfterCompletion
  <2>2. pending' \in [Jobs -> Nat] /\ leased' \in [Jobs -> Nat]
    BY <1>26, <2>1, SettleType DEF SettleAfterCompletion
  <2> QED
    BY <1>26, <2>1, <2>2 DEF SettleAfterCompletion, Release
<1>27. CASE FindExit
  BY <1>27 DEF FindExit, Goto
<1>28. CASE CheckGates
  <2>1. at \in Jobs /\ leased[at] > 0 /\ at[1] \in Enrollments
    BY <1>28, JobFacts DEF CheckGates
  <2>2. pending' \in [Jobs -> Nat] /\ leased' \in [Jobs -> Nat]
    BY <1>28, <2>1, SettleType DEF CheckGates, Goto, Return
  <2> QED
    BY <1>28, <2>1, <2>2 DEF CheckGates, Goto, Return
<1>29. CASE CheckConsent
  <2>1. at \in Jobs /\ leased[at] > 0 /\ at[1] \in Enrollments
    BY <1>29, JobFacts DEF CheckConsent
  <2>2. pending' \in [Jobs -> Nat] /\ leased' \in [Jobs -> Nat]
    BY <1>29, <2>1, SettleType DEF CheckConsent, Goto, Return
  <2> QED
    BY <1>29, <2>1, <2>2 DEF CheckConsent, Goto, Return
<1>read. CASE LoseRead
  <2>1. at \in Jobs /\ leased[at] > 0 /\ at[1] \in Enrollments
    BY <1>read, JobFacts DEF LoseRead
  <2>2. pending' \in [Jobs -> Nat] /\ leased' \in [Jobs -> Nat]
    BY <1>read, <2>1, SettleType DEF LoseRead, Return
  <2>3. budget' \in 0..MaxDisturbances
    BY <1>read DEF LoseRead, Disturb
  <2> QED
    BY <1>read, <2>2, <2>3 DEF LoseRead, Return
<1>30. CASE Prepare
  <2>1. at \in Jobs /\ leased[at] > 0 /\ at[1] \in Enrollments
    BY <1>30, JobFacts DEF Prepare
  <2>2. pending' \in [Jobs -> Nat] /\ leased' \in [Jobs -> Nat]
    BY <1>30, <2>1, SettleType DEF Prepare, Goto, Return
  <2>3. budget' \in 0..MaxDisturbances
    BY <1>30 DEF Prepare, Disturb
  <2> QED
    BY <1>30, <2>2, <2>3 DEF Prepare, Goto, Return
<1>31. CASE Reserve
  <2>1. at \in Jobs /\ leased[at] > 0 /\ at[1] \in Enrollments
    BY <1>31, JobFacts DEF Reserve
  <2>2. pending' \in [Jobs -> Nat] /\ leased' \in [Jobs -> Nat]
    BY <1>31, <2>1, SettleType DEF Reserve, Return
  <2> QED
    BY <1>31, <2>1, <2>2 DEF Reserve, Return, Key
<1>32. CASE LoseFrozenMessage
  <2>1. at \in Jobs /\ leased[at] > 0 /\ at[1] \in Enrollments
    BY <1>32, JobFacts DEF LoseFrozenMessage
  <2>2. pending' \in [Jobs -> Nat] /\ leased' \in [Jobs -> Nat]
    BY <1>32, <2>1, SettleType DEF LoseFrozenMessage, Return
  <2> QED
    BY <1>32, <2>1, <2>2 DEF LoseFrozenMessage, Return
<1>33. ASSUME NEW o \in SendOutcomes, Send(o) PROVE TypeOK'
  BY <1>33, SendOutcomesOK, JobFacts DEF Send, Disturb, Key
<1>34. CASE Record
  <2>1. Key \in Keys
    BY <1>34, JobFacts DEF Record, Key
  <2>2. AfterSmtp(delivery[Key], verdict) \in DeliveryStates
    BY <1>34, <2>1 DEF Record, AfterSmtp
  <2>3. delivery' \in [Keys -> DeliveryStates] /\ verdict' \in DeliveryStates
    BY <1>34, <2>1, <2>2 DEF Record
  <2> QED
    BY <1>34, <2>3 DEF Record, Disturb
<1>35. CASE Finish
  <2>1. at \in Jobs /\ leased[at] > 0 /\ at[1] \in Enrollments
    BY <1>35, JobFacts DEF Finish
  <2>2. pending' \in [Jobs -> Nat] /\ leased' \in [Jobs -> Nat]
    BY <1>35, <2>1, SettleType DEF Finish, Return
  <2> QED
    BY <1>35, <2>1, <2>2 DEF Finish, Return
<1>36. CASE Advance
  <2>1. at[1] \in Enrollments /\ at[3] \in Steps \cup {End}
    BY <1>36, JobFacts DEF Advance
  <2>2. /\ enrollment' \in [Enrollments -> {"none", "active", "waiting", "paused"} \cup Ended]
        /\ step' \in [Enrollments -> Steps] /\ visited' \in [Enrollments -> SUBSET Steps]
    BY <1>36, <2>1 DEF Advance, Move, CompleteEnrollment
  <2>3. completions' \in [Enrollments -> Nat] /\ exited' \subseteq Enrollments
    BY <1>36, <2>1 DEF Advance, CompleteEnrollment
  <2> QED
    BY <1>36, <2>2, <2>3 DEF Advance, Release
<1>stay. CASE LoseAdvance
  BY <1>stay DEF LoseAdvance, Release, Disturb, journey, place, migration, ends, queue, history
<1>37. CASE FailTick
  BY <1>37 DEF FailTick, Disturb
<1>38. CASE Crash
  BY <1>38 DEF Crash, Disturb
<1>39. CASE UNCHANGED vars
  BY <1>39 DEF vars
<1>40. CASE Operators
  BY <1>1, <1>2, <1>3, <1>4, <1>5, <1>6, <1>7, <1>8, <1>40 DEF Operators
<1>41. CASE Recipients
  BY <1>9, <1>10, <1>11, <1>12, <1>13, <1>41 DEF Recipients
<1>42. CASE Scheduler
  BY <1>14, <1>15, <1>16, <1>17, <1>18, <1>19, <1>20, <1>21, <1>42 DEF Scheduler
<1>43. CASE Worker
  BY <1>22, <1>23, <1>24, <1>25, <1>26, <1>27, <1>28, <1>29, <1>30, <1>31, <1>32, <1>33,
     <1>34, <1>35, <1>36, <1>read, <1>stay, <1>43 DEF Worker
<1> QED
  BY <1>37, <1>38, <1>39, <1>40, <1>41, <1>42, <1>43 DEF Next

\* While the worker holds a job, that job stays leased to it: a lease only
\* expires between two Ticks, and deletions take pending jobs only.
LEMMA WorkerStep == TypeOK /\ WorkerOK /\ [Next]_vars => WorkerOK'
<1> SUFFICES ASSUME TypeOK /\ WorkerOK, [Next]_vars PROVE WorkerOK'
  OBVIOUS
<1> USE ConstantsOK DEF ConstantsOK, TypeOK, WorkerOK, Holding, AtSend, NotDue, journey, place, migration, ends,
    queue, worker, history
<1>1. ASSUME UNCHANGED <<pc, at, verdict, leased, snapshot, enrollment>> PROVE WorkerOK'
  BY <1>1
<1>2. ASSUME NEW r \in Releases, PlanMigration(r)
      PROVE  WorkerOK'
  BY <1>1, <1>2 DEF PlanMigration, journey, place, migration, queue, worker
<1>3. CASE ApplyMigration \/ PauseProject \/ ResumeProject
  BY <1>1, <1>3 DEF ApplyMigration, PauseProject, ResumeProject, journey, place, migration, queue, worker
<1>4. ASSUME NEW retire \in BOOLEAN, NEW newPolicy \in BOOLEAN, Deploy(retire, newPolicy)
      PROVE  WorkerOK'
  BY <1>1, <1>4 DEF Deploy, journey, place, migration, queue, worker
<1>5. ASSUME NEW e \in Enrollments, Confirm(e)
      PROVE  WorkerOK'
  BY <1>1, <1>5 DEF Confirm, journey, place, migration, queue, worker
<1>6. ASSUME NEW e \in Enrollments, PauseEnrollment(e) PROVE WorkerOK'
  BY <1>6 DEF PauseEnrollment, Disturb
<1>7. ASSUME NEW e \in Enrollments, ResumeEnrollment(e) PROVE WorkerOK'
  BY <1>7 DEF ResumeEnrollment
<1>8. ASSUME NEW e \in Enrollments, CancelEnrollment(e) PROVE WorkerOK'
  BY <1>8 DEF CancelEnrollment
<1>9. ASSUME NEW e \in Enrollments, Enroll(e) PROVE WorkerOK'
  BY <1>9 DEF Enroll
<1>10. ASSUME NEW e \in Enrollments, DeleteContact(e) PROVE WorkerOK'
  BY <1>10 DEF DeleteContact, Disturb, CancelFrom
<1>11. ASSUME NEW e \in Enrollments, NEW wide \in BOOLEAN, Unsubscribe(e, wide)
      PROVE  WorkerOK'
  BY <1>11 DEF Unsubscribe, Disturb, CancelFrom
<1>12. ASSUME NEW k \in Keys, NEW kind \in FeedbackKinds, Feedback(k, kind) PROVE WorkerOK'
  BY <1>12 DEF Feedback, Disturb, CancelFrom
<1>13. ASSUME NEW active \in SUBSET Enrollments, StartTick(active) PROVE WorkerOK'
  BY <1>13 DEF StartTick
<1>14. ASSUME NEW e \in Enrollments, ScheduleExit(e) PROVE WorkerOK'
  BY <1>14 DEF ScheduleExit, Schedule, CompleteEnrollment, Recount
<1>15. ASSUME NEW e \in Enrollments, ScheduleMissing(e) PROVE WorkerOK'
  BY <1>15 DEF ScheduleMissing, Disturb, Schedule, Recount
<1>16. ASSUME NEW e \in Enrollments, ScheduleComplete(e) PROVE WorkerOK'
  BY <1>16 DEF ScheduleComplete, Schedule, CompleteEnrollment, Recount
<1>17. ASSUME NEW e \in Enrollments, ScheduleDelay(e) PROVE WorkerOK'
  BY <1>17 DEF ScheduleDelay, Schedule, IsAt, Move, Enqueue, Recount
<1>18. ASSUME NEW e \in Enrollments, ScheduleCondition(e) PROVE WorkerOK'
  BY <1>18 DEF ScheduleCondition, Schedule, IsAt, Move, Recount
<1>19. ASSUME NEW e \in Enrollments, ScheduleSend(e) PROVE WorkerOK'
  BY <1>19 DEF ScheduleSend, Schedule, IsAt, Enqueue, Recount
<1>20. ASSUME NEW lapsed, ExpireLeases(lapsed) PROVE WorkerOK'
  BY <1>20 DEF ExpireLeases
<1>21. ASSUME NEW j \in Jobs, Claim(j) PROVE WorkerOK'
  <2>1. j[2] /= End => j \in SendJobs
    BY JobFacts
  <2> QED
    BY <1>21, <2>1 DEF Claim
<1>22. CASE EndTick
  BY <1>22 DEF EndTick, Goto
<1>23. CASE CheckEnrollment
  BY <1>23, JobFacts DEF CheckEnrollment, Goto, Settle, Retry, Enqueue, Release
<1>24. CASE Complete
  BY <1>24, JobFacts DEF Complete, Disturb, CompleteEnrollment
<1>25. CASE SettleAfterCompletion
  BY <1>25, JobFacts DEF SettleAfterCompletion, Settle, Release
<1>26. CASE FindExit
  BY <1>26 DEF FindExit, Goto
<1>27. CASE CheckGates
  BY <1>27 DEF CheckGates, Goto, Return, Settle, Retry, Enqueue
<1>28. CASE CheckConsent
  BY <1>28 DEF CheckConsent, Goto, Return, Settle
<1>read. CASE LoseRead
  BY <1>read DEF LoseRead, Disturb, Return, Settle
<1>29. CASE Prepare
  BY <1>29 DEF Prepare, Disturb, Goto, Return, Settle, Retry, Enqueue
<1>30. CASE Reserve
  BY <1>30 DEF Reserve, Return, Settle
<1>31. CASE LoseFrozenMessage
  BY <1>31 DEF LoseFrozenMessage, Return, Settle
<1>32. ASSUME NEW o \in SendOutcomes, Send(o) PROVE WorkerOK'
  BY <1>32, SendOutcomesOK DEF Send, Disturb
<1>33. CASE Record
  BY <1>33 DEF Record, Disturb
<1>34. CASE Finish
  BY <1>34 DEF Finish, Return, Settle, Retry, Enqueue
<1>35. CASE Advance
  BY <1>35 DEF Advance, CompleteEnrollment, Move, Release
<1>stay. CASE LoseAdvance
  BY <1>stay DEF LoseAdvance, Release, Disturb, journey, place, migration, queue
<1>36. CASE FailTick
  BY <1>36 DEF FailTick, Disturb
<1>37. CASE Crash
  BY <1>37 DEF Crash, Disturb
<1>38. CASE UNCHANGED vars
  BY <1>1, <1>38 DEF vars, journey, place, migration, queue, worker
<1>39. CASE Operators
  BY <1>2, <1>3, <1>4, <1>6, <1>7, <1>8, <1>39 DEF Operators
<1>40. CASE Recipients
  BY <1>5, <1>9, <1>10, <1>11, <1>12, <1>40 DEF Recipients
<1>41. CASE Scheduler
  BY <1>13, <1>14, <1>15, <1>16, <1>17, <1>18, <1>19, <1>20, <1>41 DEF Scheduler
<1>42. CASE Worker
  BY <1>21, <1>22, <1>23, <1>24, <1>25, <1>26, <1>27, <1>28, <1>29, <1>30, <1>31, <1>32,
     <1>33, <1>34, <1>35, <1>read, <1>stay, <1>42 DEF Worker
<1> QED
  BY <1>36, <1>37, <1>38, <1>39, <1>40, <1>41, <1>42 DEF Next

\* What a step does to the deliveries, whoever takes it.
LEMMA DeliveryEffect ==
  ASSUME TypeOK, WorkerOK, [Next]_vars
  PROVE  \/ UNCHANGED delivery
         \/ \E k \in Keys, kind \in FeedbackKinds :
              delivery' = [delivery EXCEPT ![k] = AfterFeedback(@, kind)]
         \/ /\ Key \in Keys /\ MayReserve(delivery[Key])
            /\ delivery' = [delivery EXCEPT ![Key] = "dispatching"]
         \/ Record
<1>1. ASSUME NEW k \in Keys, NEW kind \in FeedbackKinds, Feedback(k, kind)
      PROVE  delivery' = [delivery EXCEPT ![k] = AfterFeedback(@, kind)]
  BY <1>1 DEF Feedback
<1>2. CASE Recipients
  BY <1>1, <1>2 DEF Recipients, Enroll, Confirm, DeleteContact, Unsubscribe
<1>3. CASE Operators
  BY <1>3 DEF Operators, PauseEnrollment, ResumeEnrollment, CancelEnrollment, PlanMigration,
              ApplyMigration, PauseProject, ResumeProject, Deploy
<1>4. CASE Scheduler
  BY <1>4 DEF Scheduler, StartTick, ScheduleExit, ScheduleMissing, Disturb, ScheduleComplete,
              ScheduleDelay, ScheduleCondition, ScheduleSend, Schedule, ExpireLeases
<1>5. CASE Reserve
  BY <1>5, JobFacts DEF Reserve, Return, WorkerOK, Holding, AtSend, Key
<1>6. CASE Worker /\ ~Reserve /\ ~Record
  BY <1>6 DEF Worker, Claim, EndTick, CheckEnrollment, Complete, SettleAfterCompletion,
              FindExit, CheckGates, CheckConsent, LoseRead, Prepare, LoseFrozenMessage, Send,
              Finish, Advance, LoseAdvance, Return, Goto
<1>7. CASE FailTick \/ Crash \/ UNCHANGED vars
  BY <1>7 DEF FailTick, Crash, vars
<1> QED
  BY <1>2, <1>3, <1>4, <1>5, <1>6, <1>7 DEF Next

\* A copy is only out for a row past its intent, and never for a row that
\* reserveDelivery would open again.
LEMMA CopyStep == TypeOK /\ WorkerOK /\ CopyOK /\ [Next]_vars => CopyOK'
<1> SUFFICES ASSUME TypeOK /\ WorkerOK /\ CopyOK, [Next]_vars PROVE CopyOK'
  OBVIOUS
<1>0. pc \in AtSend => Key \in Keys
  BY JobFacts DEF WorkerOK, Holding, Key, AtSend
<1> USE DEF TypeOK, WorkerOK, CopyOK, Holding, AtSend, SmtpResults, FeedbackKinds, Key
<1>1. ASSUME UNCHANGED <<copies, delivery>>, pc' \in {"send", "record"} => UNCHANGED <<pc, at,
            verdict>>
      PROVE  CopyOK'
  BY <1>1
<1>2. ASSUME NEW e \in Enrollments, PauseEnrollment(e) \/ ResumeEnrollment(e) \/
            CancelEnrollment(e) \/ Enroll(e)
      PROVE  CopyOK'
  BY <1>1, <1>2 DEF PauseEnrollment, ResumeEnrollment, CancelEnrollment, Enroll, history,
     worker
<1>3. ASSUME NEW e \in Enrollments, Confirm(e) \/ DeleteContact(e) \/ ScheduleExit(e) \/
            ScheduleMissing(e)
      PROVE  CopyOK'
  BY <1>1, <1>3 DEF Confirm, DeleteContact, ScheduleExit, ScheduleMissing, Disturb, Schedule,
     history, worker
<1>4. ASSUME NEW e \in Enrollments, ScheduleComplete(e) \/ ScheduleDelay(e) \/
            ScheduleCondition(e) \/ ScheduleSend(e)
      PROVE  CopyOK'
  BY <1>1, <1>4 DEF ScheduleComplete, ScheduleDelay, ScheduleCondition, ScheduleSend,
     Schedule, history, worker
<1>5. ASSUME NEW r \in Releases, PlanMigration(r)
      PROVE  CopyOK'
  BY <1>1, <1>5 DEF PlanMigration, history, worker
<1>6. CASE ApplyMigration \/ PauseProject \/ ResumeProject \/ EndTick
  BY <1>1, <1>6 DEF ApplyMigration, PauseProject, ResumeProject, EndTick, Goto, history,
     worker
<1>7. CASE CheckEnrollment \/ Complete \/ SettleAfterCompletion \/ FindExit
  BY <1>1, <1>7 DEF CheckEnrollment, Complete, SettleAfterCompletion, FindExit, Goto,
     Release, history, worker
<1>8. CASE CheckGates \/ CheckConsent \/ LoseRead \/ Prepare \/ LoseFrozenMessage
  BY <1>1, <1>8 DEF CheckGates, CheckConsent, LoseRead, Prepare, LoseFrozenMessage, Goto, Return,
     history, worker
<1>9. CASE Finish \/ Advance \/ LoseAdvance \/ FailTick \/ Crash
  BY <1>1, <1>9 DEF Finish, Advance, LoseAdvance, FailTick, Crash, Return, Release, history,
     worker
<1>10. ASSUME NEW retire \in BOOLEAN, NEW newPolicy \in BOOLEAN, Deploy(retire, newPolicy)
      PROVE  CopyOK'
  BY <1>1, <1>10 DEF Deploy, history, worker
<1>11. ASSUME NEW e \in Enrollments, NEW wide \in BOOLEAN, Unsubscribe(e, wide)
      PROVE  CopyOK'
  BY <1>1, <1>11 DEF Unsubscribe, history, worker
<1>12. ASSUME NEW active \in SUBSET Enrollments, StartTick(active)
      PROVE  CopyOK'
  BY <1>1, <1>12 DEF StartTick, history, worker
<1>13. ASSUME NEW lapsed, ExpireLeases(lapsed)
      PROVE  CopyOK'
  BY <1>1, <1>13 DEF ExpireLeases, history, worker
<1>14. ASSUME NEW k \in Keys, NEW kind \in FeedbackKinds, Feedback(k, kind) PROVE CopyOK'
  <2>1. AfterFeedback(delivery[k], kind) \in FeedbackKinds
    BY DEF AfterFeedback
  <2> QED
    BY <1>14, <2>1 DEF Feedback, worker, history
<1>15. ASSUME NEW j \in Jobs, Claim(j) PROVE CopyOK'
  BY <1>1, <1>15 DEF Claim, history
<1>16. CASE Reserve
  <2>1. CASE ~(Eligible(at[1]) /\ MayReserve(delivery[Key]))
    BY <1>1, <1>16, <2>1 DEF Reserve, Return, history
  <2>2. CASE Eligible(at[1]) /\ MayReserve(delivery[Key])
    BY <1>0, <1>16, <2>2 DEF Reserve, MayReserve, history
  <2> QED
    BY <2>1, <2>2
<1>17. ASSUME NEW o \in SendOutcomes, Send(o) PROVE CopyOK'
  <2>1. /\ Key \in Keys /\ copies[Key] = 0 /\ delivery[Key] \notin {"none", "transient"}
        /\ copies' = [copies EXCEPT ![Key] = @ + o.copy]
    BY <1>0, <1>17 DEF Send
  <2>2. o.copy \in {0, 1} /\ (o.result = "transient" => o.copy = 0) /\ o.result \in SmtpResults
    BY SendOutcomesOK
  <2> QED
    BY <1>17, <2>1, <2>2 DEF Send
<1>18. CASE Record
  <2>1. Key \in Keys /\ UNCHANGED <<copies, at>> /\ pc' = "finish"
    BY <1>0, <1>18 DEF Record, history
  <2>2. \/ UNCHANGED delivery
        \/ delivery' = [delivery EXCEPT ![Key] = AfterSmtp(@, verdict)]
    BY <1>18 DEF Record
  <2> QED
    BY <1>18, <2>1, <2>2 DEF Record, AfterSmtp
<1>19. CASE UNCHANGED vars
  BY <1>1, <1>19 DEF vars, history, worker
<1>20. CASE Operators
  BY <1>2, <1>5, <1>6, <1>10, <1>20 DEF Operators
<1>21. CASE Recipients
  BY <1>2, <1>3, <1>11, <1>14, <1>21 DEF Recipients
<1>22. CASE Scheduler
  BY <1>3, <1>4, <1>12, <1>13, <1>22 DEF Scheduler
<1>23. CASE Worker
  BY <1>6, <1>7, <1>8, <1>9, <1>15, <1>16, <1>17, <1>18, <1>23 DEF Worker
<1> QED
  BY <1>9, <1>19, <1>20, <1>21, <1>22, <1>23 DEF Next

\* Attempts are counted from the moment an enrollment stops being deliverable;
\* reserveDelivery commits to none while it is not.
LEMMA LateStep == TypeOK /\ WorkerOK /\ LateOK /\ [Next]_vars => LateOK'
<1> SUFFICES ASSUME TypeOK /\ WorkerOK /\ LateOK, [Next]_vars PROVE LateOK'
  OBVIOUS
<1>0. pc \in Holding \cup {"advance"} => at[1] \in Enrollments
  BY JobFacts DEF WorkerOK
<1> USE DEF TypeOK, WorkerOK, LateOK, Holding, AtSend
<1>1. ASSUME UNCHANGED <<enrollment, standing, stops, lateSends>>, pc' = "send" => UNCHANGED
            <<pc, at>>
      PROVE  LateOK'
  BY <1>1 DEF Deliverable
<1>2. ASSUME NEW r \in Releases, PlanMigration(r)
      PROVE  LateOK'
  BY <1>1, <1>2 DEF PlanMigration, journey, place, migration, history, worker
<1>3. CASE ApplyMigration \/ EndTick \/ CheckEnrollment \/ SettleAfterCompletion
  BY <1>1, <1>3 DEF ApplyMigration, EndTick, CheckEnrollment, SettleAfterCompletion, Goto,
     Release, journey, place, migration, history, worker
<1>4. CASE FindExit \/ CheckGates \/ CheckConsent \/ LoseRead \/ Prepare
  BY <1>1, <1>4 DEF FindExit, CheckGates, CheckConsent, LoseRead, Prepare, Goto, Return, journey, place, migration,
     history, worker
<1>5. CASE LoseFrozenMessage \/ Record \/ Finish \/ LoseAdvance \/ FailTick
  BY <1>1, <1>5 DEF LoseFrozenMessage, Record, Finish, LoseAdvance, FailTick, Return, Release,
     journey, place, migration, history, worker
<1>6. CASE Crash
  BY <1>1, <1>6 DEF Crash, journey, place, migration, history, worker
<1>7. ASSUME NEW active \in SUBSET Enrollments, StartTick(active)
      PROVE  LateOK'
  BY <1>1, <1>7 DEF StartTick, journey, place, migration, history, worker
<1>8. ASSUME NEW lapsed, ExpireLeases(lapsed)
      PROVE  LateOK'
  BY <1>1, <1>8 DEF ExpireLeases, journey, place, migration, history, worker
<1>9. ASSUME NEW j \in Jobs, Claim(j)
      PROVE  LateOK'
  BY <1>1, <1>9 DEF Claim, journey, place, migration, history, worker
<1>10. ASSUME Recount, pc' = "send" => UNCHANGED <<pc, at>> PROVE LateOK'
  BY <1>0, <1>10 DEF Recount
<1>11. CASE ResumeProject
  BY <1>10, <1>11 DEF ResumeProject, worker
<1>12. ASSUME NEW retire \in BOOLEAN, NEW newPolicy \in BOOLEAN, Deploy(retire, newPolicy)
      PROVE  LateOK'
  BY <1>10, <1>12 DEF Deploy, worker
<1>13. ASSUME NEW e \in Enrollments, Confirm(e) \/ ScheduleExit(e) \/ ScheduleMissing(e) \/
            ScheduleComplete(e)
      PROVE  LateOK'
  BY <1>10, <1>13 DEF Confirm, ScheduleExit, ScheduleMissing, Disturb, ScheduleComplete, Schedule,
     Recount, Deliverable, journey, history, worker
<1>14. ASSUME NEW e \in Enrollments, ScheduleDelay(e) \/ ScheduleCondition(e) \/
            ScheduleSend(e)
      PROVE  LateOK'
  BY <1>10, <1>14 DEF ScheduleDelay, ScheduleCondition, ScheduleSend, Schedule, worker
<1>15. ASSUME NEW e \in Enrollments, PauseEnrollment(e) PROVE LateOK'
  BY <1>15 DEF PauseEnrollment, Disturb, Deliverable, journey, place, migration, history, worker
<1>16. ASSUME NEW e \in Enrollments, ResumeEnrollment(e) PROVE LateOK'
  BY <1>16 DEF ResumeEnrollment, Deliverable, journey, place, migration, history, worker
<1>17. ASSUME NEW e \in Enrollments, CancelEnrollment(e) PROVE LateOK'
  BY <1>17 DEF CancelEnrollment, Deliverable, journey, place, migration, history, worker
<1>18. CASE PauseProject
  BY <1>18 DEF PauseProject, Disturb, Deliverable, journey, place, migration, history, worker
<1>19. ASSUME NEW e \in Enrollments, Enroll(e) PROVE LateOK'
  BY <1>19 DEF Enroll, Deliverable, journey, place, migration, history, worker
<1>20. ASSUME NEW e \in Enrollments, DeleteContact(e) PROVE LateOK'
  BY <1>20 DEF DeleteContact, Disturb, CancelFrom, Deliverable, journey, place, migration, history, worker
<1>21. ASSUME NEW e \in Enrollments, NEW wide \in BOOLEAN, Unsubscribe(e, wide) PROVE LateOK'
  BY <1>21 DEF Unsubscribe, Disturb, CancelFrom, Deliverable, journey, place, migration, history, worker
<1>22. ASSUME NEW k \in Keys, NEW kind \in FeedbackKinds, Feedback(k, kind) PROVE LateOK'
  BY <1>22 DEF Feedback, Disturb, CancelFrom, Deliverable, journey, place, migration, history, worker
<1>23. CASE Complete
  BY <1>23, <1>0 DEF Complete, Disturb, CompleteEnrollment, Deliverable, journey, place, migration, history,
     worker
<1>24. CASE Reserve
  <2>1. CASE ~(Eligible(at[1]) /\ MayReserve(delivery[Key]))
    BY <1>1, <1>24, <2>1 DEF Reserve, Return, journey, place, migration, history
  <2>2. CASE Eligible(at[1]) /\ MayReserve(delivery[Key])
    <3>1. Deliverable(at[1]) /\ at[1] \in Enrollments
      BY <1>0, <1>24, <2>2 DEF Reserve, Eligible, Deliverable
    <3> QED
      BY <1>24, <2>2, <3>1 DEF Reserve, Deliverable, journey, place, migration, history
  <2> QED
    BY <2>1, <2>2
<1>25. ASSUME NEW o \in SendOutcomes, Send(o) PROVE LateOK'
  BY <1>0, <1>25 DEF Send, Deliverable, journey, place, migration
<1>26. CASE Advance
  BY <1>26, <1>0 DEF Advance, CompleteEnrollment, Move, Release, Deliverable, journey, place, migration,
     history, worker
<1>27. CASE UNCHANGED vars
  BY <1>1, <1>27 DEF vars, journey, place, migration, history, worker
<1>28. CASE Operators
  BY <1>2, <1>3, <1>11, <1>12, <1>15, <1>16, <1>17, <1>18, <1>28 DEF Operators
<1>29. CASE Recipients
  BY <1>13, <1>19, <1>20, <1>21, <1>22, <1>29 DEF Recipients
<1>30. CASE Scheduler
  BY <1>7, <1>8, <1>13, <1>14, <1>30 DEF Scheduler
<1>31. CASE Worker
  BY <1>3, <1>4, <1>5, <1>9, <1>23, <1>24, <1>25, <1>26, <1>31 DEF Worker
<1> QED
  BY <1>5, <1>6, <1>27, <1>28, <1>29, <1>30, <1>31 DEF Next

\* The enrollment row completes together with its outbox row, and is not touched
\* again: an enrollment in the scheduler's snapshot has not completed.
LEMMA CompletedStep == TypeOK /\ WorkerOK /\ CompletedOnce /\ [Next]_vars => CompletedOnce'
<1> SUFFICES ASSUME TypeOK /\ WorkerOK /\ CompletedOnce, [Next]_vars PROVE CompletedOnce'
  OBVIOUS
<1>0. pc \in Holding \cup {"advance"} => at[1] \in Enrollments
  BY JobFacts DEF WorkerOK
<1> USE DEF TypeOK, WorkerOK, CompletedOnce, ends, Holding, AtSend
<1>1. ASSUME UNCHANGED <<enrollment, completions>> PROVE CompletedOnce'
  BY <1>1
<1>2. ASSUME NEW r \in Releases, PlanMigration(r)
      PROVE  CompletedOnce'
  BY <1>1, <1>2 DEF PlanMigration, journey, place, migration
<1>3. CASE ApplyMigration \/ PauseProject \/ ResumeProject \/ EndTick
  BY <1>1, <1>3 DEF ApplyMigration, PauseProject, ResumeProject, EndTick, Goto, journey, place, migration
<1>4. CASE CheckEnrollment \/ SettleAfterCompletion \/ FindExit \/ CheckGates
  BY <1>1, <1>4 DEF CheckEnrollment, SettleAfterCompletion, FindExit, CheckGates, Goto,
     Release, Return, journey, place, migration
<1>5. CASE CheckConsent \/ LoseRead \/ Prepare \/ Reserve \/ LoseFrozenMessage
  BY <1>1, <1>5 DEF CheckConsent, LoseRead, Prepare, Reserve, LoseFrozenMessage, Goto, Return,
     journey, place, migration
<1>6. CASE Record \/ Finish \/ LoseAdvance \/ FailTick \/ Crash
  BY <1>1, <1>6 DEF Record, Finish, LoseAdvance, FailTick, Crash, Return, Release, journey, place, migration
<1>7. ASSUME NEW retire \in BOOLEAN, NEW newPolicy \in BOOLEAN, Deploy(retire, newPolicy)
      PROVE  CompletedOnce'
  BY <1>1, <1>7 DEF Deploy, journey, place, migration
<1>8. ASSUME NEW e \in Enrollments, Confirm(e)
      PROVE  CompletedOnce'
  BY <1>1, <1>8 DEF Confirm, journey, place, migration
<1>9. ASSUME NEW active \in SUBSET Enrollments, StartTick(active)
      PROVE  CompletedOnce'
  BY <1>1, <1>9 DEF StartTick, journey, place, migration
<1>10. ASSUME NEW lapsed, ExpireLeases(lapsed)
      PROVE  CompletedOnce'
  BY <1>1, <1>10 DEF ExpireLeases, journey, place, migration
<1>11. ASSUME NEW j \in Jobs, Claim(j)
      PROVE  CompletedOnce'
  BY <1>1, <1>11 DEF Claim, journey, place, migration
<1>12. ASSUME NEW o \in SendOutcomes, Send(o)
      PROVE  CompletedOnce'
  BY <1>1, <1>12 DEF Send, journey, place, migration
<1>13. ASSUME NEW e \in Enrollments, PauseEnrollment(e) PROVE CompletedOnce'
  BY <1>13 DEF PauseEnrollment, Disturb
<1>14. ASSUME NEW e \in Enrollments, ResumeEnrollment(e) PROVE CompletedOnce'
  BY <1>14 DEF ResumeEnrollment
<1>15. ASSUME NEW e \in Enrollments, CancelEnrollment(e) PROVE CompletedOnce'
  BY <1>15 DEF CancelEnrollment
<1>16. ASSUME NEW e \in Enrollments, Enroll(e) PROVE CompletedOnce'
  BY <1>16 DEF Enroll
<1>17. ASSUME NEW e \in Enrollments, DeleteContact(e) PROVE CompletedOnce'
  BY <1>17 DEF DeleteContact, Disturb, CancelFrom
<1>18. ASSUME NEW e \in Enrollments, NEW wide \in BOOLEAN, Unsubscribe(e, wide)
      PROVE  CompletedOnce'
  BY <1>18 DEF Unsubscribe, Disturb, CancelFrom
<1>19. ASSUME NEW k \in Keys, NEW kind \in FeedbackKinds, Feedback(k, kind)
      PROVE  CompletedOnce'
  BY <1>19 DEF Feedback, Disturb, CancelFrom
<1>20. ASSUME NEW e \in Enrollments, ScheduleExit(e) PROVE CompletedOnce'
  BY <1>20 DEF ScheduleExit, Schedule, CompleteEnrollment, Recount
<1>21. ASSUME NEW e \in Enrollments, ScheduleMissing(e) PROVE CompletedOnce'
  BY <1>21 DEF ScheduleMissing, Disturb, Schedule, Recount, journey
<1>22. ASSUME NEW e \in Enrollments, ScheduleComplete(e) PROVE CompletedOnce'
  BY <1>22 DEF ScheduleComplete, Schedule, CompleteEnrollment, Recount
<1>23. ASSUME NEW e \in Enrollments, ScheduleDelay(e) PROVE CompletedOnce'
  BY <1>23 DEF ScheduleDelay, Schedule, IsAt, Move, Enqueue, Recount
<1>24. ASSUME NEW e \in Enrollments, ScheduleCondition(e) PROVE CompletedOnce'
  BY <1>24 DEF ScheduleCondition, Schedule, IsAt, Move, Recount
<1>25. ASSUME NEW e \in Enrollments, ScheduleSend(e) PROVE CompletedOnce'
  BY <1>25 DEF ScheduleSend, Schedule, IsAt, Enqueue, Recount
<1>26. CASE Complete
  BY <1>26, <1>0 DEF Complete, Disturb, CompleteEnrollment
<1>27. CASE Advance
  BY <1>27, <1>0 DEF Advance, CompleteEnrollment, Move, Release
<1>28. CASE UNCHANGED vars
  BY <1>1, <1>28 DEF vars, journey, place, migration
<1>29. CASE Operators
  BY <1>2, <1>3, <1>7, <1>13, <1>14, <1>15, <1>29 DEF Operators
<1>30. CASE Recipients
  BY <1>8, <1>16, <1>17, <1>18, <1>19, <1>30 DEF Recipients
<1>31. CASE Scheduler
  BY <1>9, <1>10, <1>20, <1>21, <1>22, <1>23, <1>24, <1>25, <1>31 DEF Scheduler
<1>32. CASE Worker
  BY <1>3, <1>4, <1>5, <1>6, <1>11, <1>12, <1>26, <1>27, <1>32 DEF Worker
<1> QED
  BY <1>6, <1>28, <1>29, <1>30, <1>31, <1>32 DEF Next

\* Only a migration moves an enrollment to another release, and notes which it crossed.
LEMMA MigrationEffect ==
  ASSUME [Next]_vars
  PROVE  ApplyMigration \/ UNCHANGED <<release, crossed>>
<1>1. CASE Operators
  BY <1>1 DEF Operators, PauseEnrollment, ResumeEnrollment, CancelEnrollment, PlanMigration,
     PauseProject, ResumeProject, Deploy, journey, migration
<1>2. CASE Recipients
  BY <1>2 DEF Recipients, Enroll, Confirm, DeleteContact, Unsubscribe, Feedback, journey,
     migration
<1>3. CASE Scheduler
  BY <1>3 DEF Scheduler, StartTick, ScheduleExit, ScheduleMissing, ScheduleComplete,
     ScheduleDelay, ScheduleCondition, ScheduleSend, Schedule, ExpireLeases, journey, migration
<1>4. CASE Worker
  BY <1>4 DEF Worker, Claim, EndTick, CheckEnrollment, Complete, SettleAfterCompletion,
     FindExit, CheckGates, CheckConsent, LoseRead, Prepare, Reserve, LoseFrozenMessage, Send,
     Record, Finish, Advance, LoseAdvance, Release, Return, Goto, journey, migration
<1>5. CASE FailTick \/ Crash \/ UNCHANGED vars
  BY <1>5 DEF FailTick, Crash, vars, journey, migration
<1> QED
  BY <1>1, <1>2, <1>3, <1>4, <1>5 DEF Next

\* A migrated enrollment had not ended; one with a job or in the snapshot is crossed.
LEMMA Crossing ==
  ASSUME TypeOK, [Next]_vars, NEW e \in Enrollments
  PROVE  /\ crossed \subseteq crossed'
         /\ release'[e] /= release[e] =>
              /\ enrollment'[e] /= "completed"
              /\ HasJob(e) \/ snapshot[e] /= NotDue => e \in crossed'
<1>1. CASE ApplyMigration
  BY <1>1 DEF ApplyMigration, TypeOK
<1>2. CASE UNCHANGED <<release, crossed>>
  BY <1>2
<1> QED
  BY <1>1, <1>2, MigrationEffect

\* The scheduler moves an enrollment on from a delay or a condition.
MovesAhead(e, s) ==
  /\ Present(e) /\ Scheduled(e).type /= "send"
  /\ s \in {Scheduled(e).next, Scheduled(e).else}
  /\ Move(e, "active", "active", s)

\* Nothing else moves one, but the worker behind an accepted delivery.
LEMMA PlaceEffect ==
  ASSUME [Next]_vars
  PROVE  \/ UNCHANGED place
         \/ \E e \in Enrollments : \E s : MovesAhead(e, s)
         \/ /\ Advance /\ delivery[Key] = "accepted"
            /\ Move(at[1], "waiting", "active", at[3])
<1>1. CASE Operators
  BY <1>1 DEF Operators, PauseEnrollment, ResumeEnrollment, CancelEnrollment, PlanMigration,
     ApplyMigration, PauseProject, ResumeProject, Deploy, journey
<1>2. CASE Recipients
  BY <1>2 DEF Recipients, Enroll, Confirm, DeleteContact, Unsubscribe, Feedback, journey
<1>3. CASE Scheduler
  <2>1. ASSUME NEW active, StartTick(active) PROVE UNCHANGED place
    BY <2>1 DEF StartTick, journey
  <2>2. ASSUME NEW e \in Enrollments,
               ScheduleExit(e) \/ ScheduleMissing(e) \/ ScheduleComplete(e) \/ ScheduleSend(e)
        PROVE  UNCHANGED place
    BY <2>2 DEF ScheduleExit, ScheduleMissing, ScheduleComplete, ScheduleSend, Schedule, journey
  <2>3. ASSUME NEW e \in Enrollments, ScheduleDelay(e)
        PROVE  UNCHANGED place \/ \E s : MovesAhead(e, s)
    BY <2>3 DEF ScheduleDelay, Schedule, IsAt, MovesAhead
  <2>4. ASSUME NEW e \in Enrollments, ScheduleCondition(e)
        PROVE  \E s : MovesAhead(e, s)
    BY <2>4 DEF ScheduleCondition, Schedule, IsAt, MovesAhead
  <2>5. ASSUME NEW lapsed, ExpireLeases(lapsed) PROVE UNCHANGED place
    BY <2>5 DEF ExpireLeases, journey
  <2> QED
    BY <1>3, <2>1, <2>2, <2>3, <2>4, <2>5 DEF Scheduler
<1>4. CASE Advance
  BY <1>4 DEF Advance, MovesOn
<1>5. CASE Worker /\ ~Advance
  BY <1>5 DEF Worker, Claim, EndTick, CheckEnrollment, Complete, SettleAfterCompletion,
     FindExit, CheckGates, CheckConsent, LoseRead, Prepare, Reserve, LoseFrozenMessage, Send,
     Record, Finish, LoseAdvance, Release, Return, Goto, journey
<1>6. CASE FailTick \/ Crash \/ UNCHANGED vars
  BY <1>6 DEF FailTick, Crash, vars, journey
<1> QED
  BY <1>1, <1>2, <1>3, <1>4, <1>5, <1>6 DEF Next

\* A move adds the step it leads to to those the enrollment has come to.
LEMMA MoveTrail ==
  ASSUME TypeOK, NEW i \in Enrollments, NEW from, NEW to, NEW s, Move(i, from, to, s),
         NEW e \in Enrollments
  PROVE  \/ step'[e] = step[e] /\ visited'[e] = visited[e]
         \/ e = i /\ step'[e] = s /\ visited'[e] = visited[e] \cup {s}
  BY DEF Move, place, TypeOK

\* So an enrollment has been wherever it stands, and where it was before.
LEMMA VisitedGrows ==
  ASSUME TypeOK, WorkerOK, [Next]_vars, NEW e \in Enrollments
  PROVE  /\ visited[e] \subseteq visited'[e]
         /\ step[e] \in visited[e] => step'[e] \in visited'[e]
<1>1. CASE UNCHANGED place
  BY <1>1 DEF place
<1>2. ASSUME NEW i \in Enrollments, NEW s, MovesAhead(i, s)
      PROVE  /\ visited[e] \subseteq visited'[e]
             /\ step[e] \in visited[e] => step'[e] \in visited'[e]
  BY <1>2, MoveTrail DEF MovesAhead
<1>3. CASE Advance /\ Move(at[1], "waiting", "active", at[3])
  <2>1. at[1] \in Enrollments
    BY <1>3, JobFacts DEF Advance, WorkerOK
  <2> QED
    BY <1>3, <2>1, MoveTrail
<1> QED
  BY <1>1, <1>2, <1>3, PlaceEffect

\* The scheduler only holds what it read at the start of its Tick.
LEMMA SnapshotEffect ==
  ASSUME TypeOK, [Next]_vars, NEW e \in Enrollments, snapshot'[e] /= NotDue
  PROVE  \/ snapshot'[e] = snapshot[e]
         \/ snapshot'[e] = <<release[e], step[e]>> /\ UNCHANGED journey
<1> USE DEF TypeOK, NotDue
<1>1. CASE Operators
  BY <1>1 DEF Operators, PauseEnrollment, ResumeEnrollment, CancelEnrollment, PlanMigration,
     ApplyMigration, PauseProject, ResumeProject, Deploy, worker
<1>2. CASE Recipients
  BY <1>2 DEF Recipients, Enroll, Confirm, DeleteContact, Unsubscribe, Feedback, worker
<1>3. CASE Scheduler
  <2>1. ASSUME NEW active, StartTick(active)
        PROVE  snapshot'[e] = <<release[e], step[e]>> /\ UNCHANGED journey
    BY <2>1 DEF StartTick
  <2>2. ASSUME NEW i \in Enrollments, snapshot' = [snapshot EXCEPT ![i] = NotDue]
        PROVE  snapshot'[e] = snapshot[e]
    BY <2>2
  <2>3. ASSUME NEW i \in Enrollments,
               \/ ScheduleExit(i) \/ ScheduleMissing(i) \/ ScheduleComplete(i)
               \/ ScheduleDelay(i) \/ ScheduleCondition(i) \/ ScheduleSend(i)
        PROVE  snapshot' = [snapshot EXCEPT ![i] = NotDue]
    BY <2>3 DEF ScheduleExit, ScheduleMissing, ScheduleComplete, ScheduleDelay,
       ScheduleCondition, ScheduleSend, Schedule
  <2>4. ASSUME NEW lapsed, ExpireLeases(lapsed) PROVE snapshot'[e] = snapshot[e]
    BY <2>4 DEF ExpireLeases
  <2> QED
    BY <1>3, <2>1, <2>2, <2>3, <2>4 DEF Scheduler
<1>4. CASE Worker
  BY <1>4 DEF Worker, Claim, EndTick, CheckEnrollment, Complete, SettleAfterCompletion,
     FindExit, CheckGates, CheckConsent, LoseRead, Prepare, Reserve, LoseFrozenMessage, Send,
     Record, Finish, Advance, LoseAdvance, Release, Return, Goto
<1>5. CASE FailTick \/ Crash
  BY <1>5 DEF FailTick, Crash
<1>6. CASE UNCHANGED vars
  BY <1>6 DEF vars, worker
<1> QED
  BY <1>1, <1>2, <1>3, <1>4, <1>5, <1>6 DEF Next

\* An enrollment was where the scheduler read it, in the release it read it in.
LEMMA TrailStep == TypeOK /\ WorkerOK /\ TrailOK /\ [Next]_vars => TrailOK'
<1> SUFFICES ASSUME TypeOK, WorkerOK, TrailOK, [Next]_vars, NEW e \in Enrollments
             PROVE  /\ step'[e] \in visited'[e]
                    /\ snapshot'[e] /= NotDue =>
                         /\ snapshot'[e][2] \in visited'[e]
                         /\ e \notin crossed' => snapshot'[e][1] = release'[e]
  BY DEF TrailOK, NotDue
<1>1. step[e] \in visited[e] /\ step'[e] \in visited'[e] /\ visited[e] \subseteq visited'[e]
  BY VisitedGrows DEF TrailOK
<1>2. ASSUME snapshot'[e] /= NotDue, snapshot'[e] = snapshot[e]
      PROVE  /\ snapshot'[e][2] \in visited'[e]
             /\ e \notin crossed' => snapshot'[e][1] = release'[e]
  BY <1>1, <1>2, Crossing DEF TrailOK
<1>3. ASSUME snapshot'[e] = <<release[e], step[e]>>, UNCHANGED journey
      PROVE  /\ snapshot'[e][2] \in visited'[e]
             /\ e \notin crossed' => snapshot'[e][1] = release'[e]
  BY <1>1, <1>3 DEF journey
<1> QED
  BY <1>1, <1>2, <1>3, SnapshotEffect

\* The worker comes to move an enrollment on with the job it held.
LEMMA AdvanceEffect ==
  ASSUME TypeOK, WorkerOK, [Next]_vars, pc' = "advance"
  PROVE  at' = at /\ Live(at)
<1>0. pc \in Holding \cup {"advance"} => Live(at)
  BY DEF TypeOK, WorkerOK, Live
<1> USE <1>0 DEF Holding
<1>1. CASE Operators \/ Recipients
  BY <1>1 DEF Operators, PauseEnrollment, ResumeEnrollment, CancelEnrollment, PlanMigration,
     ApplyMigration, PauseProject, ResumeProject, Deploy,
     Recipients, Enroll, Confirm, DeleteContact, Unsubscribe, Feedback, worker
<1>2. CASE Scheduler
  BY <1>2 DEF Scheduler, StartTick, ScheduleExit, ScheduleMissing, ScheduleComplete,
     ScheduleDelay, ScheduleCondition, ScheduleSend, Schedule, ExpireLeases
<1>3. CASE UNCHANGED vars
  BY <1>3 DEF vars, worker
<1>4. CASE SettleAfterCompletion \/ CheckGates \/ CheckConsent \/ LoseRead \/ Prepare
  BY <1>4 DEF SettleAfterCompletion, CheckGates, CheckConsent, LoseRead, Prepare, Release,
     Return, Goto
<1>5. CASE Reserve \/ LoseFrozenMessage \/ Finish
  BY <1>5 DEF Reserve, LoseFrozenMessage, Finish, Return
<1>6. CASE Worker /\ ~SettleAfterCompletion /\ ~CheckGates /\ ~CheckConsent /\ ~LoseRead
           /\ ~Prepare /\ ~Reserve /\ ~LoseFrozenMessage /\ ~Finish
  BY <1>6 DEF Worker, Claim, EndTick, CheckEnrollment, Complete, FindExit, Send, Record,
     Advance, LoseAdvance, Release, Goto
<1>7. CASE FailTick \/ Crash
  BY <1>7 DEF FailTick, Crash
<1> QED
  BY <1>1, <1>2, <1>3, <1>4, <1>5, <1>6, <1>7 DEF Next

\* A job goes on fitting its enrollment, which a migration crosses as long as it is there.
LEMMA FitsStays ==
  ASSUME TypeOK, WorkerOK, [Next]_vars, NEW j \in Jobs, Live(j), Fits(j)
  PROVE  Fits(j)'
<1> DEFINE e == j[1]
<1>1. e \in Enrollments
  BY JobFacts
<1>2. HasJob(e)
  BY DEF Live, HasJob
<1>3. visited[e] \subseteq visited'[e]
  BY <1>1, VisitedGrows
<1>4. e \notin crossed' => e \notin crossed /\ release'[e] = release[e]
  BY <1>1, <1>2, Crossing
<1> QED
  BY <1>3, <1>4 DEF Fits

\* Settling or retrying a job adds none.
LEMMA SettleCount ==
  ASSUME pending \in [Jobs -> Nat], leased \in [Jobs -> Nat], NEW i \in Jobs, leased[i] > 0,
         Settle(i) \/ Retry(i)
  PROVE  \A j \in Jobs : pending'[j] + leased'[j] > 0 => pending[j] + leased[j] > 0
  BY DEF Settle, Retry, Enqueue

\* The scheduler queues jobs of the step and the release it read, and nobody else any.
LEMMA JobsStep == TypeOK /\ WorkerOK /\ TrailOK /\ JobsOK /\ [Next]_vars => JobsOK'
<1> SUFFICES ASSUME TypeOK /\ WorkerOK /\ TrailOK /\ JobsOK, [Next]_vars PROVE JobsOK'
  OBVIOUS
<1> USE DEF TypeOK, WorkerOK, Holding, AtSend
<1>0. ASSUME \A j \in Jobs : pending'[j] + leased'[j] > 0 =>
                               pending[j] + leased[j] > 0 \/ Fits(j)'
      PROVE  JobsOK'
  <2>1. ASSUME NEW j \in Jobs, Live(j)' PROVE Live(j) \/ Fits(j)'
    <3>1. CASE pending'[j] + leased'[j] > 0
      BY <1>0, <3>1 DEF Live
    <3>2. CASE pc' = "advance" /\ at' = j
      BY <3>2, AdvanceEffect
    <3> QED
      BY <2>1, <3>1, <3>2 DEF Live
  <2>2. ASSUME NEW j \in Jobs, Live(j) PROVE Fits(j)'
    <3>1. Fits(j)
      BY <2>2 DEF JobsOK
    <3> QED
      BY <2>2, <3>1, FitsStays
  <2> QED
    BY <2>1, <2>2 DEF JobsOK
<1>1. ASSUME UNCHANGED queue PROVE JobsOK'
  BY <1>0, <1>1 DEF queue
<1>14. ASSUME \A j \in Jobs : pending'[j] + leased'[j] > 0 => pending[j] + leased[j] > 0
      PROVE  JobsOK'
  BY <1>0, <1>14
<1>2. ASSUME NEW e \in Enrollments, PauseEnrollment(e) \/ ResumeEnrollment(e) \/
            CancelEnrollment(e) \/ Enroll(e)
      PROVE  JobsOK'
  BY <1>1, <1>2 DEF PauseEnrollment, ResumeEnrollment, CancelEnrollment, Enroll, queue
<1>3. ASSUME NEW e \in Enrollments, Confirm(e) \/ ScheduleExit(e) \/ ScheduleMissing(e) \/
            ScheduleComplete(e)
      PROVE  JobsOK'
  BY <1>1, <1>3 DEF Confirm, ScheduleExit, ScheduleMissing, Disturb, ScheduleComplete, Schedule,
     queue
<1>4. ASSUME NEW e \in Enrollments, ScheduleCondition(e)
      PROVE  JobsOK'
  BY <1>1, <1>4 DEF ScheduleCondition, Schedule, queue
<1>5. ASSUME NEW r \in Releases, PlanMigration(r)
      PROVE  JobsOK'
  BY <1>1, <1>5 DEF PlanMigration, queue
<1>6. CASE ApplyMigration \/ PauseProject \/ ResumeProject \/ EndTick
  BY <1>1, <1>6 DEF ApplyMigration, PauseProject, ResumeProject, EndTick, Goto, queue
<1>7. CASE Complete \/ FindExit \/ Record \/ Advance \/ LoseAdvance
  BY <1>1, <1>7 DEF Complete, FindExit, Record, Advance, LoseAdvance, Goto, Release, queue
<1>8. CASE FailTick \/ Crash
  BY <1>1, <1>8 DEF FailTick, Crash, queue
<1>9. ASSUME NEW retire \in BOOLEAN, NEW newPolicy \in BOOLEAN, Deploy(retire, newPolicy)
      PROVE  JobsOK'
  BY <1>1, <1>9 DEF Deploy, queue
<1>10. ASSUME NEW e \in Enrollments, NEW wide \in BOOLEAN, Unsubscribe(e, wide)
      PROVE  JobsOK'
  BY <1>1, <1>10 DEF Unsubscribe, queue
<1>11. ASSUME NEW k \in Keys, NEW kind \in FeedbackKinds, Feedback(k, kind)
      PROVE  JobsOK'
  BY <1>1, <1>11 DEF Feedback, queue
<1>12. ASSUME NEW active \in SUBSET Enrollments, StartTick(active)
      PROVE  JobsOK'
  BY <1>1, <1>12 DEF StartTick, queue
<1>13. ASSUME NEW o \in SendOutcomes, Send(o)
      PROVE  JobsOK'
  BY <1>1, <1>13 DEF Send, queue
<1>15. ASSUME NEW e \in Enrollments, DeleteContact(e) PROVE JobsOK'
  BY <1>14, <1>15 DEF DeleteContact
<1>16. ASSUME NEW e \in Enrollments, ScheduleDelay(e) PROVE JobsOK'
  <2>1. CASE Scheduled(e).next = End
    <3> DEFINE r == snapshot[e][1]  s == snapshot[e][2]  new == <<e, End, End>>
    <3>1. s \in DOMAIN Graph[r] /\ Scheduled(e) = Graph[r][s] /\ snapshot[e] /= NotDue
      BY <1>16, SnapshotFacts DEF ScheduleDelay, IsAt, Present
    <3>2. Graph[r][s].type = "delay" /\ Graph[r][s].next = End
      BY <1>16, <2>1, <3>1 DEF ScheduleDelay, IsAt
    <3>3. visited' = visited /\ release' = release /\ crossed' = crossed
      BY <1>16, <2>1 DEF ScheduleDelay, Schedule, place, migration
    <3>4. s \in visited'[e] /\ (e \notin crossed' => r = release'[e])
      BY <3>1, <3>3 DEF TrailOK
    <3>5. Fits(new)'
      BY <3>1, <3>2, <3>4 DEF Fits
    <3>6. new \in Jobs
      BY EndJob
    <3>7. \A j \in Jobs : j /= new => pending'[j] = pending[j] /\ leased'[j] = leased[j]
      BY <1>16, <2>1, <3>6 DEF ScheduleDelay, Schedule, Enqueue
    <3> QED
      BY <1>0, <3>5, <3>7
  <2>2. CASE Scheduled(e).next /= End
    BY <1>1, <1>16, <2>2 DEF ScheduleDelay, Schedule, queue
  <2> QED
    BY <2>1, <2>2
<1>17. ASSUME NEW e \in Enrollments, ScheduleSend(e) PROVE JobsOK'
  <2>0. PICK r, s, new : r = snapshot[e][1] /\ s = snapshot[e][2] /\ new = <<e, s, Scheduled(e).next>>
    OBVIOUS
  <2>1. /\ new \in Jobs /\ s /= End /\ snapshot[e] /= NotDue
        /\ s \in DOMAIN Graph[r] /\ new[3] = Graph[r][s].next
    BY <1>17, <2>0, SnapshotFacts, ConstantsOK DEF ScheduleSend, IsAt, Present, ConstantsOK, Jobs
  <2>2. visited' = visited /\ release' = release /\ crossed' = crossed
    BY <1>17 DEF ScheduleSend, Schedule, place, migration
  <2>3. s \in visited'[e] /\ (e \notin crossed' => r = release'[e])
    BY <2>0, <2>1, <2>2 DEF TrailOK
  <2>4. new[1] = e /\ new[2] = s
    BY <2>0
  <2>5. Fits(new)'
    BY <2>1, <2>3, <2>4 DEF Fits
  <2>6. \A j \in Jobs : j /= new => pending'[j] = pending[j] /\ leased'[j] = leased[j]
    BY <1>17, <2>0, <2>1 DEF ScheduleSend, Schedule, Enqueue
  <2> QED
    BY <1>0, <2>5, <2>6
<1>18. ASSUME NEW lapsed, ExpireLeases(lapsed) PROVE JobsOK'
  BY <1>14, <1>18 DEF ExpireLeases
<1>19. ASSUME NEW j \in Jobs, Claim(j) PROVE JobsOK'
  BY <1>14, <1>19 DEF Claim
<1>20. CASE CheckEnrollment
  <2>1. at \in Jobs /\ leased[at] > 0
    BY <1>20 DEF CheckEnrollment
  <2>2. UNCHANGED queue \/ Settle(at) \/ Retry(at)
    BY <1>20 DEF CheckEnrollment, Goto
  <2> QED
    BY <1>1, <1>14, <2>1, <2>2, SettleCount
<1>21. CASE SettleAfterCompletion
  <2>1. at \in Jobs /\ leased[at] > 0
    BY <1>21 DEF SettleAfterCompletion
  <2>2. UNCHANGED queue \/ Settle(at) \/ Retry(at)
    BY <1>21 DEF SettleAfterCompletion
  <2> QED
    BY <1>1, <1>14, <2>1, <2>2, SettleCount
<1>22. CASE CheckGates
  <2>1. at \in Jobs /\ leased[at] > 0
    BY <1>22 DEF CheckGates
  <2>2. UNCHANGED queue \/ Settle(at) \/ Retry(at)
    BY <1>22 DEF CheckGates, Goto, Return
  <2> QED
    BY <1>1, <1>14, <2>1, <2>2, SettleCount
<1>23. CASE CheckConsent
  <2>1. at \in Jobs /\ leased[at] > 0
    BY <1>23 DEF CheckConsent
  <2>2. UNCHANGED queue \/ Settle(at) \/ Retry(at)
    BY <1>23 DEF CheckConsent, Goto, Return
  <2> QED
    BY <1>1, <1>14, <2>1, <2>2, SettleCount
<1>read. CASE LoseRead
  <2>1. at \in Jobs /\ leased[at] > 0
    BY <1>read DEF LoseRead
  <2>2. UNCHANGED queue \/ Settle(at) \/ Retry(at)
    BY <1>read DEF LoseRead, Return
  <2> QED
    BY <1>1, <1>14, <2>1, <2>2, SettleCount
<1>24. CASE Prepare
  <2>1. at \in Jobs /\ leased[at] > 0
    BY <1>24 DEF Prepare
  <2>2. UNCHANGED queue \/ Settle(at) \/ Retry(at)
    BY <1>24 DEF Prepare, Goto, Return
  <2> QED
    BY <1>1, <1>14, <2>1, <2>2, SettleCount
<1>25. CASE Reserve
  <2>1. at \in Jobs /\ leased[at] > 0
    BY <1>25 DEF Reserve
  <2>2. UNCHANGED queue \/ Settle(at) \/ Retry(at)
    BY <1>25 DEF Reserve, Return
  <2> QED
    BY <1>1, <1>14, <2>1, <2>2, SettleCount
<1>26. CASE LoseFrozenMessage
  <2>1. at \in Jobs /\ leased[at] > 0
    BY <1>26 DEF LoseFrozenMessage
  <2>2. UNCHANGED queue \/ Settle(at) \/ Retry(at)
    BY <1>26 DEF LoseFrozenMessage, Return
  <2> QED
    BY <1>1, <1>14, <2>1, <2>2, SettleCount
<1>27. CASE Finish
  <2>1. at \in Jobs /\ leased[at] > 0
    BY <1>27 DEF Finish
  <2>2. UNCHANGED queue \/ Settle(at) \/ Retry(at)
    BY <1>27 DEF Finish, Return
  <2> QED
    BY <1>1, <1>14, <2>1, <2>2, SettleCount
<1>28. CASE UNCHANGED vars
  BY <1>1, <1>28 DEF vars, queue
<1>29. CASE Operators
  BY <1>2, <1>5, <1>6, <1>9, <1>29 DEF Operators
<1>30. CASE Recipients
  BY <1>2, <1>3, <1>10, <1>11, <1>15, <1>30 DEF Recipients
<1>31. CASE Scheduler
  BY <1>3, <1>4, <1>12, <1>16, <1>17, <1>18, <1>31 DEF Scheduler
<1>32. CASE Worker
  BY <1>6, <1>7, <1>13, <1>19, <1>20, <1>21, <1>22, <1>23, <1>24, <1>25, <1>26, <1>27,
     <1>read, <1>32
     DEF Worker
<1> QED
  BY <1>8, <1>28, <1>29, <1>30, <1>31, <1>32 DEF Next

\* Where a journey may come to, and that it may end: the two halves of JourneyIsEarned.
MayCome(e, s) ==
  \E r \in Releases :
    \/ s = First[r]
    \/ \E p \in visited[e] \cap DOMAIN Graph[r] :
         s \in {Graph[r][p].next, Graph[r][p].else} /\ HandedOver(e, r, p)
MayEnd(e) ==
  \E s \in visited[e] \cap DOMAIN Graph[release[e]] :
    Graph[release[e]][s].next = End /\ HandedOver(e, release[e], s)

\* The two halves say together what JourneyIsEarned says.
LEMMA JourneyHalves ==
  JourneyIsEarned <=>
    \A e \in Enrollments :
      /\ \A s \in visited[e] : MayCome(e, s)
      /\ enrollment[e] = "completed" /\ e \notin exited \cup crossed => MayEnd(e)
  BY DEF JourneyIsEarned, MayCome, MayEnd

\* A mail that was handed over stays so, whatever is reported of it later.
LEMMA HandedOverStays ==
  ASSUME TypeOK, WorkerOK, [Next]_vars, NEW k \in Keys,
         delivery[k] \in {"accepted"} \cup FeedbackKinds
  PROVE  delivery'[k] \in {"accepted"} \cup FeedbackKinds
<1>1. delivery \in [Keys -> DeliveryStates]
  BY DEF TypeOK
<1>2. CASE \E l \in Keys, kind \in FeedbackKinds :
             delivery' = [delivery EXCEPT ![l] = AfterFeedback(@, kind)]
  BY <1>1, <1>2 DEF AfterFeedback, FeedbackKinds
<1>3. CASE Key \in Keys /\ MayReserve(delivery[Key])
           /\ delivery' = [delivery EXCEPT ![Key] = "dispatching"]
  BY <1>1, <1>3 DEF MayReserve, FeedbackKinds
<1>4. CASE Record
  BY <1>1, <1>4 DEF Record, AfterSmtp, FeedbackKinds
<1>5. CASE UNCHANGED delivery
  BY <1>5
<1> QED
  BY <1>2, <1>3, <1>4, <1>5, DeliveryEffect

\* So a step that was handed over in a release stays so.
LEMMA EarnedStays ==
  ASSUME TypeOK, WorkerOK, [Next]_vars,
         NEW e \in Enrollments, NEW r \in Releases, NEW s \in DOMAIN Graph[r], HandedOver(e, r, s)
  PROVE  HandedOver(e, r, s)'
<1>1. <<e, s>> \in Keys
  BY GraphFacts DEF Keys
<1> QED
  BY <1>1, HandedOverStays DEF HandedOver

\* What an enrollment may come to or end at, it may as well after a step in which it
\* stays in its release.
LEMMA MayStay ==
  ASSUME TypeOK, WorkerOK, [Next]_vars, NEW e \in Enrollments
  PROVE  /\ \A s : MayCome(e, s) => MayCome(e, s)'
         /\ release'[e] = release[e] => (MayEnd(e) => MayEnd(e)')
<1>1. visited[e] \subseteq visited'[e]
  BY VisitedGrows
<1>2. \A r \in Releases : \A s \in DOMAIN Graph[r] : HandedOver(e, r, s) => HandedOver(e, r, s)'
  BY EarnedStays
<1>3. release[e] \in Releases
  BY DEF TypeOK
<1>4. ASSUME NEW s, MayCome(e, s) PROVE MayCome(e, s)'
  <2>1. PICK r \in Releases :
          \/ s = First[r]
          \/ \E p \in visited[e] \cap DOMAIN Graph[r] :
               s \in {Graph[r][p].next, Graph[r][p].else} /\ HandedOver(e, r, p)
    BY <1>4 DEF MayCome
  <2>2. \/ s = First[r]
        \/ \E p \in visited'[e] \cap DOMAIN Graph[r] :
             s \in {Graph[r][p].next, Graph[r][p].else} /\ HandedOver(e, r, p)'
    BY <1>1, <1>2, <2>1
  <2> QED
    BY <2>2 DEF MayCome
<1>5. ASSUME release'[e] = release[e], MayEnd(e) PROVE MayEnd(e)'
  <2>0. PICK r \in Releases : r = release[e]
    BY <1>3
  <2>1. PICK s \in visited[e] \cap DOMAIN Graph[r] : Graph[r][s].next = End /\ HandedOver(e, r, s)
    BY <1>5, <2>0 DEF MayEnd
  <2>2. HandedOver(e, r, s)' /\ s \in visited'[e]
    BY <1>1, <1>2, <2>1
  <2> QED
    BY <1>5, <2>0, <2>1, <2>2 DEF MayEnd, HandedOver
<1> QED
  BY <1>4, <1>5

\* A step that is not a send step is behind an enrollment without any mail.
LEMMA FreeStep ==
  ASSUME TypeOK, TrailOK, NEW e \in Enrollments, Present(e), Scheduled(e).type /= "send"
  PROVE  /\ MayCome(e, Scheduled(e).next) /\ MayCome(e, Scheduled(e).else)
         /\ Scheduled(e).next = End /\ e \notin crossed => MayEnd(e)
<1> DEFINE r == snapshot[e][1]  s == snapshot[e][2]
<1>1. r \in Releases /\ s \in DOMAIN Graph[r] /\ Scheduled(e) = Graph[r][s]
  BY SnapshotFacts
<1>2. HandedOver(e, r, s)
  BY <1>1 DEF HandedOver
<1>3. s \in visited[e] /\ (e \notin crossed => r = release[e])
  BY DEF TrailOK, Present
<1> QED
  BY <1>1, <1>2, <1>3 DEF MayCome, MayEnd

\* A send job whose delivery is accepted has earned its successor, or the end.
LEMMA SentStep ==
  ASSUME NEW j \in SendJobs, Fits(j), j[2] /= End, delivery[<<j[1], j[2]>>] = "accepted"
  PROVE  /\ MayCome(j[1], j[3])
         /\ j[3] = End /\ j[1] \notin crossed => MayEnd(j[1])
<1>1. PICK r \in Releases : j[2] \in DOMAIN Graph[r] /\ Graph[r][j[2]].next = j[3]
  BY DEF SendJobs
<1>2. HandedOver(j[1], r, j[2]) /\ HandedOver(j[1], release[j[1]], j[2])
  BY DEF HandedOver
<1> QED
  BY <1>1, <1>2 DEF MayCome, MayEnd, Fits

\* What an enrollment comes to is earned.
LEMMA ComeStep ==
  ASSUME TypeOK, WorkerOK, TrailOK, JobsOK, [Next]_vars,
         NEW e \in Enrollments, NEW s \in visited'[e], s \notin visited[e]
  PROVE  MayCome(e, s)
<1>1. CASE UNCHANGED place
  BY <1>1 DEF place
<1>2. ASSUME NEW i \in Enrollments, NEW t, MovesAhead(i, t) PROVE MayCome(e, s)
  <2>1. e = i /\ s = t
    BY <1>2, MoveTrail DEF MovesAhead
  <2> QED
    BY <1>2, <2>1, FreeStep DEF MovesAhead
<1>3. CASE Advance /\ delivery[Key] = "accepted" /\ Move(at[1], "waiting", "active", at[3])
  <2>1. at \in SendJobs /\ at[1] \in Enrollments /\ at[2] /= End /\ Live(at) /\ at \in Jobs
    BY <1>3, JobFacts DEF Advance, WorkerOK, AtSend, Live
  <2>2. Fits(at)
    BY <2>1 DEF JobsOK
  <2>3. MayCome(at[1], at[3])
    BY <1>3, <2>1, <2>2, SentStep DEF Key
  <2>4. e = at[1] /\ s = at[3]
    BY <1>3, <2>1, MoveTrail
  <2> QED
    BY <2>3, <2>4
<1> QED
  BY <1>1, <1>2, <1>3, PlaceEffect

\* What completes has earned its end, unless its exit condition ended it or a
\* migration crossed it.
LEMMA EndStep ==
  TypeOK /\ WorkerOK /\ TrailOK /\ JobsOK /\ [Next]_vars =>
    \A e \in Enrollments : enrollment'[e] = "completed" /\ e \notin exited' =>
      \/ enrollment[e] = "completed" /\ e \notin exited
      \/ e \notin crossed => MayEnd(e)
<1> DEFINE Earned == \A e \in Enrollments : enrollment'[e] = "completed" /\ e \notin exited' =>
                       \/ enrollment[e] = "completed" /\ e \notin exited
                       \/ e \notin crossed => MayEnd(e)
<1> SUFFICES ASSUME TypeOK, WorkerOK, TrailOK, JobsOK, [Next]_vars PROVE Earned
  OBVIOUS
<1> USE DEF TypeOK, ends
<1>1. ASSUME \A e \in Enrollments : enrollment'[e] = "completed" /\ e \notin exited' =>
                                      enrollment[e] = "completed" /\ e \notin exited
      PROVE  Earned
  BY <1>1
<1>2. ASSUME NEW e \in Enrollments, PauseEnrollment(e) \/ ResumeEnrollment(e) \/
            CancelEnrollment(e) \/ Enroll(e)
      PROVE  Earned
  BY <1>1, <1>2 DEF PauseEnrollment, ResumeEnrollment, CancelEnrollment, Enroll, journey, place, migration,
     CancelFrom
<1>3. ASSUME NEW e \in Enrollments, Confirm(e) \/ DeleteContact(e) \/ ScheduleMissing(e) \/
            ScheduleSend(e)
      PROVE  Earned
  BY <1>1, <1>3 DEF Confirm, DeleteContact, ScheduleMissing, Disturb, ScheduleSend, Schedule,
     journey, place, migration, CancelFrom
<1>4. ASSUME NEW r \in Releases, PlanMigration(r)
      PROVE  Earned
  BY <1>1, <1>4 DEF PlanMigration, journey, place, migration, CancelFrom
<1>5. CASE ApplyMigration \/ PauseProject \/ ResumeProject \/ EndTick
  BY <1>1, <1>5 DEF ApplyMigration, PauseProject, ResumeProject, EndTick, Goto, journey, place, migration,
     CancelFrom
<1>6. CASE CheckEnrollment \/ SettleAfterCompletion \/ FindExit \/ CheckGates
  BY <1>1, <1>6 DEF CheckEnrollment, SettleAfterCompletion, FindExit, CheckGates, Goto,
     Release, Return, journey, place, migration, CancelFrom
<1>7. CASE CheckConsent \/ LoseRead \/ Prepare \/ Reserve \/ LoseFrozenMessage
  BY <1>1, <1>7 DEF CheckConsent, LoseRead, Prepare, Reserve, LoseFrozenMessage, Goto, Return,
     journey, place, migration, CancelFrom
<1>8. CASE Record \/ Finish \/ LoseAdvance \/ FailTick \/ Crash
  BY <1>1, <1>8 DEF Record, Finish, LoseAdvance, FailTick, Crash, Return, Release, journey, place, migration,
     CancelFrom
<1>9. ASSUME NEW retire \in BOOLEAN, NEW newPolicy \in BOOLEAN, Deploy(retire, newPolicy)
      PROVE  Earned
  BY <1>1, <1>9 DEF Deploy, journey, place, migration, CancelFrom
<1>10. ASSUME NEW e \in Enrollments, NEW wide \in BOOLEAN, Unsubscribe(e, wide)
      PROVE  Earned
  BY <1>1, <1>10 DEF Unsubscribe, journey, place, migration, CancelFrom
<1>11. ASSUME NEW k \in Keys, NEW kind \in FeedbackKinds, Feedback(k, kind)
      PROVE  Earned
  BY <1>1, <1>11 DEF Feedback, journey, place, migration, CancelFrom
<1>12. ASSUME NEW active \in SUBSET Enrollments, StartTick(active)
      PROVE  Earned
  BY <1>1, <1>12 DEF StartTick, journey, place, migration, CancelFrom
<1>13. ASSUME NEW lapsed, ExpireLeases(lapsed)
      PROVE  Earned
  BY <1>1, <1>13 DEF ExpireLeases, journey, place, migration, CancelFrom
<1>14. ASSUME NEW j \in Jobs, Claim(j)
      PROVE  Earned
  BY <1>1, <1>14 DEF Claim, journey, place, migration, CancelFrom
<1>15. ASSUME NEW o \in SendOutcomes, Send(o)
      PROVE  Earned
  BY <1>1, <1>15 DEF Send, journey, place, migration, CancelFrom
<1>16. ASSUME NEW e \in Enrollments, ScheduleExit(e) PROVE Earned
  <2>1. \A i \in Enrollments : enrollment'[i] = "completed" /\ i \notin exited' =>
                             enrollment[i] = "completed" /\ i \notin exited
    BY <1>16 DEF ScheduleExit, Schedule, CompleteEnrollment
  <2> QED
    BY <1>1, <2>1
<1>17. ASSUME NEW e \in Enrollments, ScheduleComplete(e) PROVE Earned
  <2>1. e \notin crossed => MayEnd(e)
    <3>1. Present(e) /\ Scheduled(e).type = "complete"
      BY <1>17 DEF ScheduleComplete, IsAt
    <3>2. Scheduled(e).next = End
      BY <3>1, SnapshotFacts
    <3> QED
      BY <3>1, <3>2, FreeStep
  <2>2. \A i \in Enrollments : enrollment'[i] = "completed" /\ i \notin exited' =>
          i = e \/ (enrollment[i] = "completed" /\ i \notin exited)
    BY <1>17 DEF ScheduleComplete, Schedule, CompleteEnrollment
  <2> QED
    BY <2>1, <2>2
<1>18. ASSUME NEW e \in Enrollments, ScheduleDelay(e) \/ ScheduleCondition(e) PROVE Earned
  BY <1>1, <1>18 DEF ScheduleDelay, ScheduleCondition, Schedule, Move
<1>20. CASE Complete
  <2>0. at \in Jobs /\ leased[at] > 0 /\ at[1] \in Enrollments
    BY <1>20, JobFacts DEF Complete, WorkerOK, Holding
  <2>1. Live(at)
    BY <2>0 DEF Live
  <2>2. Fits(at)
    BY <2>0, <2>1 DEF JobsOK
  <2>3. at[2] = End /\ at[1] \notin crossed => MayEnd(at[1])
    BY <2>2 DEF Fits, MayEnd, HandedOver
  <2>4. \A i \in Enrollments : enrollment'[i] = "completed" /\ i \notin exited' =>
          (i = at[1] /\ at[2] = End) \/ (enrollment[i] = "completed" /\ i \notin exited)
    BY <1>20, <2>0 DEF Complete, CompleteEnrollment
  <2> QED
    BY <2>3, <2>4
<1>21. CASE Advance
  <2>1. at \in SendJobs /\ at[1] \in Enrollments /\ at[2] /= End /\ Live(at) /\ at \in Jobs
    BY <1>21, JobFacts DEF Advance, WorkerOK, AtSend, Live
  <2>2. Fits(at)
    BY <2>1 DEF JobsOK
  <2>3. delivery[Key] = "accepted" /\ at[3] = End /\ at[1] \notin crossed => MayEnd(at[1])
    BY <2>1, <2>2, SentStep DEF Key
  <2>4. \A i \in Enrollments : enrollment'[i] = "completed" /\ i \notin exited' =>
          \/ delivery[Key] = "accepted" /\ i = at[1] /\ at[3] = End
          \/ enrollment[i] = "completed" /\ i \notin exited
    BY <1>21, <2>1 DEF Advance, MovesOn, Move, CompleteEnrollment
  <2> QED
    BY <2>3, <2>4
<1>22. CASE UNCHANGED vars
  BY <1>1, <1>22 DEF vars, journey, CancelFrom
<1>23. CASE Operators
  BY <1>2, <1>4, <1>5, <1>9, <1>23 DEF Operators
<1>24. CASE Recipients
  BY <1>2, <1>3, <1>10, <1>11, <1>24 DEF Recipients
<1>25. CASE Scheduler
  BY <1>3, <1>12, <1>13, <1>16, <1>17, <1>18, <1>25 DEF Scheduler
<1>26. CASE Worker
  BY <1>5, <1>6, <1>7, <1>8, <1>14, <1>15, <1>20, <1>21, <1>26 DEF Worker
<1> QED
  BY <1>8, <1>22, <1>23, <1>24, <1>25, <1>26 DEF Next

\* An enrollment comes to steps, and completes, behind mails that were handed over.
LEMMA JourneyStep ==
  TypeOK /\ WorkerOK /\ TrailOK /\ JobsOK /\ JourneyIsEarned /\ [Next]_vars => JourneyIsEarned'
<1> SUFFICES ASSUME TypeOK, WorkerOK, TrailOK, JobsOK, JourneyIsEarned, [Next]_vars,
                    NEW e \in Enrollments
             PROVE  /\ \A s \in visited'[e] : MayCome(e, s)'
                    /\ enrollment'[e] = "completed" /\ e \notin exited' \cup crossed' => MayEnd(e)'
  BY DEF JourneyIsEarned, MayCome, MayEnd
<1>1. ASSUME NEW s \in visited'[e] PROVE MayCome(e, s)'
  <2>1. MayCome(e, s)
    BY <1>1, ComeStep, JourneyHalves
  <2> QED
    BY <2>1, MayStay
<1>2. ASSUME enrollment'[e] = "completed", e \notin exited' \cup crossed' PROVE MayEnd(e)'
  <2>1. e \notin crossed /\ release'[e] = release[e]
    BY <1>2, Crossing
  <2>2. (enrollment[e] = "completed" /\ e \notin exited) \/ MayEnd(e)
    BY <1>2, <2>1, EndStep
  <2>3. MayEnd(e)
    BY <2>1, <2>2, JourneyHalves
  <2> QED
    BY <2>1, <2>3, MayStay
<1> QED
  BY <1>1, <1>2

\* An enrollment comes to wait by two steps of the scheduler, and both queue its job.
LEMMA WaitingEffect ==
  ASSUME TypeOK, [Next]_vars, NEW e \in Enrollments,
         enrollment'[e] = "waiting", enrollment[e] /= "waiting"
  PROVE  /\ pc = "schedule" /\ pc' = "schedule"
         /\ \E j \in Jobs : j[1] = e /\ pending'[j] + leased'[j] > 0
<1> DEFINE Comes == /\ pc = "schedule" /\ pc' = "schedule"
                    /\ \E j \in Jobs : j[1] = e /\ pending'[j] + leased'[j] > 0
<1>0. pending \in [Jobs -> Nat] /\ leased \in [Jobs -> Nat]
  BY DEF TypeOK
<1>1. ASSUME NEW i, NEW byExit, CompleteEnrollment(i, byExit) PROVE FALSE
  BY <1>1 DEF CompleteEnrollment, TypeOK
<1>2. ASSUME NEW i, NEW from, NEW s, Move(i, from, "active", s) PROVE FALSE
  BY <1>2 DEF Move, TypeOK
<1>3. ASSUME NEW i, NEW states, CancelFrom(i, states) PROVE FALSE
  BY <1>3 DEF CancelFrom, TypeOK
<1>4. ASSUME NEW i \in Enrollments, NEW j \in Jobs, j[1] = i, Enqueue(j), leased' = leased,
             pc = "schedule", pc' = "schedule",
             \/ enrollment' = enrollment
             \/ \E s : enrollment' = [enrollment EXCEPT ![i] = s]
      PROVE  Comes
  <2>1. i = e
    BY <1>4 DEF TypeOK
  <2>2. pending'[j] = pending[j] + 1
    BY <1>0, <1>4 DEF Enqueue
  <2>3. pending'[j] + leased'[j] > 0
    BY <1>0, <1>4, <2>2
  <2> QED
    BY <1>4, <2>1, <2>3
<1>5. CASE Operators
  BY <1>5 DEF Operators, PauseEnrollment, ResumeEnrollment, CancelEnrollment, PlanMigration,
     ApplyMigration, PauseProject, ResumeProject, Deploy, journey, place, migration, TypeOK
<1>6. CASE Recipients
  <2>1. ASSUME NEW i \in Enrollments, Enroll(i) \/ Confirm(i) PROVE FALSE
    BY <2>1 DEF Enroll, Confirm, journey, place, migration, TypeOK
  <2>2. ASSUME NEW i \in Enrollments, NEW wide \in BOOLEAN,
               DeleteContact(i) \/ Unsubscribe(i, wide)
        PROVE  FALSE
    BY <1>3, <2>2 DEF DeleteContact, Unsubscribe
  <2>3. ASSUME NEW k \in Keys, NEW kind \in FeedbackKinds, Feedback(k, kind) PROVE FALSE
    BY <1>3, <2>3 DEF Feedback
  <2> QED
    BY <1>6, <2>1, <2>2, <2>3 DEF Recipients
<1>7. CASE Scheduler
  <2>1. ASSUME NEW active, StartTick(active) PROVE FALSE
    BY <2>1 DEF StartTick, journey, place, migration
  <2>2. ASSUME NEW i \in Enrollments, ScheduleExit(i) \/ ScheduleComplete(i) PROVE FALSE
    BY <1>1, <2>2 DEF ScheduleExit, ScheduleComplete, Schedule
  <2>3. ASSUME NEW i \in Enrollments, ScheduleMissing(i) PROVE FALSE
    BY <2>3 DEF ScheduleMissing, Disturb, Schedule, TypeOK, journey
  <2>4. ASSUME NEW i \in Enrollments, ScheduleDelay(i) PROVE Comes
    <3>1. CASE Scheduled(i).next = End
      BY <1>4, <2>4, <3>1, EndJob DEF ScheduleDelay, Schedule
    <3>2. CASE Scheduled(i).next /= End
      BY <1>2, <2>4, <3>2 DEF ScheduleDelay, Schedule
    <3> QED
      BY <3>1, <3>2
  <2>5. ASSUME NEW i \in Enrollments, ScheduleCondition(i) PROVE FALSE
    BY <1>2, <2>5 DEF ScheduleCondition, Schedule
  <2>6. ASSUME NEW i \in Enrollments, ScheduleSend(i) PROVE Comes
    <3>1. <<i, snapshot[i][2], Scheduled(i).next>> \in Jobs
      BY <2>6, SnapshotFacts DEF ScheduleSend, IsAt, Jobs
    <3> QED
      BY <1>4, <2>6, <3>1 DEF ScheduleSend, Schedule
  <2>7. ASSUME NEW lapsed, ExpireLeases(lapsed) PROVE FALSE
    BY <2>7 DEF ExpireLeases, journey, place, migration
  <2> QED
    BY <1>7, <2>1, <2>2, <2>3, <2>4, <2>5, <2>6, <2>7 DEF Scheduler
<1>8. CASE Complete \/ Advance
  BY <1>1, <1>2, <1>8 DEF Complete, Advance
<1>9. CASE Worker /\ ~Complete /\ ~Advance
  BY <1>9 DEF Worker, Claim, EndTick, CheckEnrollment, SettleAfterCompletion, FindExit,
     CheckGates, CheckConsent, LoseRead, Prepare, Reserve, LoseFrozenMessage, Send, Record,
     Finish, LoseAdvance, Release, Return, Goto, journey, place, migration
<1>10. CASE FailTick \/ Crash \/ UNCHANGED vars
  BY <1>10 DEF FailTick, Crash, vars, journey, place, migration
<1> QED
  BY <1>5, <1>6, <1>7, <1>8, <1>9, <1>10 DEF Next

\* The worker comes to settle a job only from completeEnrollment, and nobody moves it.
LEMMA SettleEffect ==
  ASSUME [Next]_vars, pc' = "settle"
  PROVE  at' = at /\ (Complete \/ pc = "settle")
<1>1. CASE Operators \/ Recipients
  BY <1>1 DEF Operators, PauseEnrollment, ResumeEnrollment, CancelEnrollment, PlanMigration,
     ApplyMigration, PauseProject, ResumeProject, Deploy,
     Recipients, Enroll, Confirm, DeleteContact, Unsubscribe, Feedback, worker
<1>2. CASE Scheduler
  BY <1>2 DEF Scheduler, StartTick, ScheduleExit, ScheduleMissing, Disturb, ScheduleComplete,
     ScheduleDelay, ScheduleCondition, ScheduleSend, Schedule, ExpireLeases
<1>3. CASE Complete
  BY <1>3 DEF Complete
<1>4. CASE Worker /\ ~Complete
  BY <1>4 DEF Worker, Claim, EndTick, CheckEnrollment, SettleAfterCompletion, FindExit,
     CheckGates, CheckConsent, LoseRead, Prepare, Reserve, LoseFrozenMessage, Send, Record,
     Finish, Advance, LoseAdvance, Release, Return, Goto
<1>5. CASE FailTick \/ Crash \/ UNCHANGED vars
  BY <1>5 DEF FailTick, Crash, vars, worker
<1> QED
  BY <1>1, <1>2, <1>3, <1>4, <1>5 DEF Next

\* The end of a delay completes a waiting enrollment, and only the scheduler, which does
\* not run then, makes it wait again.
LEMMA SettleStep ==
  TypeOK /\ WorkerOK /\ CompletedOnce /\ SettleOK /\ [Next]_vars => SettleOK'
<1> SUFFICES ASSUME TypeOK, WorkerOK, CompletedOnce, SettleOK, [Next]_vars,
                    pc' = "settle", at'[2] = End, enrollment'[at'[1]] = "waiting"
             PROVE  FALSE
  BY DEF SettleOK
<1>1. at' = at /\ (Complete \/ pc = "settle")
  BY SettleEffect
<1>2. at[1] \in Enrollments
  BY <1>1, JobFacts DEF Complete, WorkerOK, Holding
<1>3. enrollment[at[1]] = "waiting"
  BY <1>1, <1>2, WaitingEffect
<1>4. CASE Complete
  <2>1. completions[at[1]] = 0
    BY <1>2, <1>3 DEF CompletedOnce
  <2>2. enrollment'[at[1]] = "completed"
    BY <1>1, <1>2, <1>3, <1>4, <2>1 DEF Complete, CompleteEnrollment, TypeOK
  <2> QED
    BY <1>1, <2>2
<1>5. CASE pc = "settle"
  BY <1>1, <1>3, <1>5 DEF SettleOK
<1> QED
  BY <1>1, <1>4, <1>5

-----------------------------------------------------------------------------
(* The theorems. *)

\* The invariant is inductive: no operator, recipient or provider, no step of the
\* scheduler or the worker, no failed Tick and no crash leads out of it.
THEOREM Inductive == Spec => []IInv
<1>1. IInv /\ [Next]_vars => IInv'
  BY TypeStep, WorkerStep, CopyStep, LateStep, CompletedStep, TrailStep, JobsStep, JourneyStep,
     SettleStep
     DEF IInv
<1> QED
  BY InitIInv, <1>1, PTL DEF Spec

\* The variables keep their types: states the code knows, steps of a valid release,
\* and no job taken from the queue that is not there.
THEOREM TypeCorrect == Spec => []TypeOK
<1>1. IInv => TypeOK
  BY DEF IInv
<1> QED
  BY <1>1, Inductive, PTL

\* An enrollment gets at most one copy of a step's mail, however many jobs pausing,
\* resuming, migrating and dying Ticks queue for it (reserveDelivery).
THEOREM OneCopy == Spec => []OneCopyPerStep
<1>1. IInv => OneCopyPerStep
  BY DEF IInv, CopyOK, OneCopyPerStep
<1> QED
  BY <1>1, Inductive, PTL

\* At most the committed attempt goes out after a journey was ended or stopped: the
\* transaction of reserveDelivery is the last gate.
THEOREM LastAttempt == Spec => []EndLetsOneAttemptOut
<1>1. IInv => EndLetsOneAttemptOut
  BY DEF IInv, LateOK, EndLetsOneAttemptOut
<1> QED
  BY <1>1, Inductive, PTL

\* sequence.completed is emitted once, exactly for completed enrollments, whichever
\* of the scheduler, the job or the exit condition completes them (completeEnrollment).
THEOREM Completion == Spec => []CompletedOnce
<1>1. IInv => CompletedOnce
  BY DEF IInv
<1> QED
  BY <1>1, Inductive, PTL

\* An enrollment stands, and ends, only where mails that were handed over have
\* brought it, in whatever release, unless it was migrated while a job or the
\* scheduler had it (runJob, scheduleDueEnrollments, migrateEnrollments).
THEOREM JourneyEarned == Spec => []JourneyIsEarned
<1>1. IInv => JourneyIsEarned
  BY DEF IInv
<1> QED
  BY <1>1, Inductive, PTL

\* No snapshot, job or operator brings an ended enrollment back, not even the
\* unguarded UPDATE of the scheduler for a missing step.
THEOREM EndedStays == Spec => EndedStaysEnded
<1>1. ASSUME IInv, [Next]_vars, NEW e \in Enrollments, enrollment[e] \in Ended
      PROVE  enrollment'[e] \in Ended
  <2>1. /\ enrollment \in [Enrollments -> {"none", "active", "waiting", "paused"} \cup Ended]
        /\ enrollment[e] \notin {"none", "active", "waiting", "paused"}
    BY <1>1 DEF IInv, TypeOK, Ended
  <2>2. ASSUME NEW i, NEW byExit, CompleteEnrollment(i, byExit) PROVE enrollment'[e] \in Ended
    BY <1>1, <2>1, <2>2 DEF CompleteEnrollment, Ended
  <2>3. ASSUME NEW i, NEW from \in {"active", "waiting"}, NEW to, NEW s, Move(i, from, to, s)
        PROVE  enrollment'[e] \in Ended
    BY <1>1, <2>1, <2>3 DEF Move
  <2>4. ASSUME NEW i, NEW states \in SUBSET {"active", "waiting", "paused"}, CancelFrom(i, states)
        PROVE  enrollment'[e] \in Ended
    BY <1>1, <2>1, <2>4 DEF CancelFrom, Ended
  <2>5. CASE Operators
    BY <1>1, <2>1, <2>5 DEF Operators, PauseEnrollment, ResumeEnrollment, CancelEnrollment,
       PlanMigration, ApplyMigration, PauseProject, ResumeProject, Deploy, journey, place, migration, Ended
  <2>6. CASE Recipients
    <3>1. ASSUME NEW i \in Enrollments, Enroll(i) \/ Confirm(i) PROVE enrollment'[e] \in Ended
      BY <1>1, <2>1, <3>1 DEF Enroll, Confirm, journey, place, migration
    <3>2. ASSUME NEW i \in Enrollments, NEW wide \in BOOLEAN,
                 DeleteContact(i) \/ Unsubscribe(i, wide)
          PROVE  enrollment'[e] \in Ended
      BY <2>4, <3>2 DEF DeleteContact, Unsubscribe
    <3>3. ASSUME NEW k \in Keys, NEW kind \in FeedbackKinds, Feedback(k, kind)
          PROVE  enrollment'[e] \in Ended
      BY <1>1, <2>4, <3>3 DEF Feedback
    <3> QED
      BY <2>6, <3>1, <3>2, <3>3 DEF Recipients
  <2>7. CASE Scheduler
    <3>1. ASSUME NEW active, StartTick(active) PROVE enrollment'[e] \in Ended
      BY <1>1, <3>1 DEF StartTick, journey, place, migration
    <3>2. ASSUME NEW i \in Enrollments, ScheduleExit(i) \/ ScheduleComplete(i)
          PROVE  enrollment'[e] \in Ended
      BY <2>2, <3>2 DEF ScheduleExit, ScheduleComplete, Schedule
    <3>3. ASSUME NEW i \in Enrollments, ScheduleMissing(i) PROVE enrollment'[e] \in Ended
      BY <1>1, <2>1, <3>3 DEF ScheduleMissing, Disturb, Schedule, Ended, journey
    <3>4. ASSUME NEW i \in Enrollments, ScheduleDelay(i) PROVE enrollment'[e] \in Ended
      BY <1>1, <2>1, <2>3, <3>4 DEF ScheduleDelay, Schedule
    <3>5. ASSUME NEW i \in Enrollments, ScheduleCondition(i) PROVE enrollment'[e] \in Ended
      BY <2>3, <3>5 DEF ScheduleCondition, Schedule
    <3>6. ASSUME NEW i \in Enrollments, ScheduleSend(i) PROVE enrollment'[e] \in Ended
      BY <1>1, <2>1, <3>6 DEF ScheduleSend, Schedule
    <3>7. ASSUME NEW lapsed, ExpireLeases(lapsed) PROVE enrollment'[e] \in Ended
      BY <1>1, <3>7 DEF ExpireLeases, journey, place, migration
    <3> QED
      BY <2>7, <3>1, <3>2, <3>3, <3>4, <3>5, <3>6, <3>7 DEF Scheduler
  <2>8. CASE Complete \/ Advance
    BY <1>1, <2>2, <2>3, <2>8 DEF Complete, Advance
  <2>9. CASE Worker /\ ~Complete /\ ~Advance
    BY <1>1, <2>9 DEF Worker, Claim, EndTick, CheckEnrollment, SettleAfterCompletion, FindExit,
       CheckGates, CheckConsent, LoseRead, Prepare, Reserve, LoseFrozenMessage, Send, Record,
       Finish, LoseAdvance, Release, Return, Goto, journey, place, migration
  <2>10. CASE FailTick \/ Crash \/ UNCHANGED vars
    BY <1>1, <2>10 DEF FailTick, Crash, vars, journey, place, migration
  <2> QED
    BY <1>1, <2>5, <2>6, <2>7, <2>8, <2>9, <2>10 DEF Next
<1>2. IInv /\ [Next]_vars =>
        [\A e \in Enrollments : enrollment[e] \in Ended => enrollment'[e] \in Ended]_vars
  BY <1>1
<1> QED
  BY <1>2, Inductive, PTL DEF Spec, EndedStaysEnded

\* copies changes when mail is handed to SMTP, and then the row stays as it is.
LEMMA CopiesEffect ==
  ASSUME TypeOK, WorkerOK, [Next]_vars
  PROVE  \/ UNCHANGED copies
         \/ /\ UNCHANGED delivery /\ pc = "send" /\ Key \in Keys
            /\ \E n \in {0, 1} : copies' = [copies EXCEPT ![Key] = @ + n]
<1>1. CASE Recipients
  BY <1>1 DEF Recipients, Enroll, Confirm, DeleteContact, Unsubscribe, Feedback, history
<1>2. CASE Operators
  BY <1>2 DEF Operators, PauseEnrollment, ResumeEnrollment, CancelEnrollment, PlanMigration,
              ApplyMigration, PauseProject, ResumeProject, Deploy, history
<1>3. CASE Scheduler
  BY <1>3 DEF Scheduler, StartTick, ScheduleExit, ScheduleMissing, Disturb, ScheduleComplete,
              ScheduleDelay, ScheduleCondition, ScheduleSend, Schedule, ExpireLeases, history
<1>4. ASSUME NEW o \in SendOutcomes, Send(o)
      PROVE  /\ UNCHANGED delivery /\ pc = "send" /\ Key \in Keys
             /\ \E n \in {0, 1} : copies' = [copies EXCEPT ![Key] = @ + n]
  <2>1. Key \in Keys
    BY <1>4, JobFacts DEF Send, WorkerOK, Holding, AtSend, Key
  <2> QED
    BY <1>4, <2>1, SendOutcomesOK DEF Send
<1>5. CASE Worker /\ ~\E o \in SendOutcomes : Send(o)
  BY <1>5 DEF Worker, Claim, EndTick, CheckEnrollment, Complete, SettleAfterCompletion,
              FindExit, CheckGates, CheckConsent, LoseRead, Prepare, Reserve, LoseFrozenMessage,
              Record, Finish, Advance, LoseAdvance, Return, Goto, history
<1>6. CASE FailTick \/ Crash \/ UNCHANGED vars
  BY <1>6 DEF FailTick, Crash, vars, history
<1> QED
  BY <1>1, <1>2, <1>3, <1>4, <1>5, <1>6 DEF Next

\* The journeys implement the ledger of mails: an attempt starts only while no copy
\* is out, and a mail is reopened only after an attempt that left none.
THEOREM Refinement == Spec => ImplementsMailLedger
<1>1. Init => Mail!Init
  BY DEF Init, Mail!Init, Ledger
<1>2. ASSUME IInv, [Next]_vars PROVE [Mail!Next]_<<Ledger, copies>>
  <2> USE DEF Mail!Next, Mail!Attempt, Mail!Take, Mail!Reopen, Mail!Close
  <2>1. delivery \in [Keys -> DeliveryStates] /\ copies \in [Keys -> Nat]
    BY <1>2 DEF IInv, TypeOK
  <2>2. \A k \in Keys : Ledger[k] = IF delivery[k] \in {"none", "transient"} THEN "open"
                                    ELSE IF delivery[k] = "dispatching" THEN "attempted"
                                    ELSE "closed"
    BY DEF Ledger
  <2>3. ASSUME UNCHANGED delivery PROVE UNCHANGED Ledger
    BY <2>3 DEF Ledger
  <2>4. ASSUME NEW k \in Keys, NEW state \in DeliveryStates,
               delivery' = [delivery EXCEPT ![k] = state]
        PROVE  Ledger' = [Ledger EXCEPT ![k] = IF state \in {"none", "transient"} THEN "open"
                                               ELSE IF state = "dispatching" THEN "attempted"
                                               ELSE "closed"]
    BY <2>1, <2>4 DEF Ledger
  <2>5. CASE UNCHANGED <<delivery, copies>>
    BY <2>3, <2>5
  <2>6. CASE \E k \in Keys, kind \in FeedbackKinds :
               delivery' = [delivery EXCEPT ![k] = AfterFeedback(@, kind)]
             /\ UNCHANGED copies
    <3>1. PICK k \in Keys, kind \in FeedbackKinds :
            delivery' = [delivery EXCEPT ![k] = AfterFeedback(delivery[k], kind)]
      BY <2>1, <2>6
    <3>2. AfterFeedback(delivery[k], kind) \in FeedbackKinds
      BY DEF AfterFeedback, FeedbackKinds
    <3>3. Ledger' = [Ledger EXCEPT ![k] = "closed"]
      BY <2>4, <3>1, <3>2 DEF DeliveryStates, FeedbackKinds
    <3>4. CASE Ledger[k] = "closed"
      BY <2>6, <3>3, <3>4 DEF Ledger
    <3>5. CASE Ledger[k] /= "closed"
      BY <2>6, <3>3, <3>5
    <3> QED
      BY <3>4, <3>5
  <2>7. CASE /\ Key \in Keys /\ MayReserve(delivery[Key]) /\ UNCHANGED copies
             /\ delivery' = [delivery EXCEPT ![Key] = "dispatching"]
    <3>1. copies[Key] = 0 /\ Ledger[Key] = "open"
      BY <1>2, <2>2, <2>7 DEF IInv, CopyOK, MayReserve
    <3>2. Ledger' = [Ledger EXCEPT ![Key] = "attempted"]
      BY <2>4, <2>7 DEF DeliveryStates
    <3> QED
      BY <2>7, <3>1, <3>2
  <2>8. CASE Record
    <3>0. CASE UNCHANGED delivery
      BY <2>3, <2>8, <3>0 DEF Record, history
    <3> SUFFICES ASSUME delivery' /= delivery
                 PROVE  [Mail!Next]_<<Ledger, copies>>
      BY <3>0
    <3>5. Key \in Keys
      BY <1>2, <2>8, JobFacts DEF Record, IInv, WorkerOK, Holding, AtSend, Key
    <3>1. /\ Key \in Keys /\ verdict \in SmtpResults /\ UNCHANGED copies
          /\ delivery' = [delivery EXCEPT ![Key] = AfterSmtp(delivery[Key], verdict)]
          /\ delivery[Key] \in {"dispatching"} \cup FeedbackKinds
          /\ verdict = "transient" => copies[Key] = 0
      BY <1>2, <2>8, <3>5 DEF Record, IInv, WorkerOK, CopyOK, history
    <3>2. CASE delivery[Key] /= "dispatching"
      BY <2>1, <2>3, <3>1, <3>2 DEF AfterSmtp
    <3>3. CASE delivery[Key] = "dispatching" /\ verdict = "transient"
      <4>1. Ledger' = [Ledger EXCEPT ![Key] = "open"]
        BY <2>4, <3>1, <3>3 DEF AfterSmtp, DeliveryStates, SmtpResults
      <4> QED
        BY <2>2, <3>1, <3>3, <4>1
    <3>4. CASE delivery[Key] = "dispatching" /\ verdict /= "transient"
      <4>1. Ledger' = [Ledger EXCEPT ![Key] = "closed"]
        BY <2>4, <3>1, <3>4 DEF AfterSmtp, DeliveryStates, SmtpResults
      <4> QED
        BY <2>2, <3>1, <3>4, <4>1
    <3> QED
      BY <3>2, <3>3, <3>4
  <2>9. CASE /\ UNCHANGED delivery /\ pc = "send" /\ Key \in Keys
             /\ \E n \in {0, 1} : copies' = [copies EXCEPT ![Key] = @ + n]
    <3>1. copies[Key] = 0 /\ Ledger[Key] /= "open"
      BY <1>2, <2>2, <2>9 DEF IInv, CopyOK, FeedbackKinds
    <3>2. copies' = copies \/ copies' = [copies EXCEPT ![Key] = 1]
      <4>1. PICK n \in {0, 1} : copies' = [copies EXCEPT ![Key] = copies[Key] + n]
        BY <2>9
      <4>2. CASE n = 0
        BY <2>1, <2>9, <3>1, <4>1, <4>2
      <4>3. CASE n = 1
        BY <2>1, <2>9, <3>1, <4>1, <4>3
      <4> QED
        BY <4>2, <4>3
    <3> QED
      BY <2>3, <2>9, <3>1, <3>2
  <2> QED
    BY <1>2, <2>5, <2>6, <2>7, <2>8, <2>9, DeliveryEffect, CopiesEffect DEF IInv
<1> QED
  BY <1>1, <1>2, Inductive, PTL DEF Spec, ImplementsMailLedger, Mail!Spec

\* What a step does to consent, suppressions and the list, whoever takes it.
LEMMA GatesEffect ==
  ASSUME [Next]_vars
  PROVE  \/ UNCHANGED standing /\ ("retired" \in stops') = ("retired" \in stops)
         \/ \E e \in Enrollments :
              Confirm(e) \/ DeleteContact(e) \/ \E wide \in BOOLEAN : Unsubscribe(e, wide)
         \/ \E k \in Keys, kind \in FeedbackKinds : Feedback(k, kind)
         \/ \E retire, newPolicy \in BOOLEAN : Deploy(retire, newPolicy)
<1>1. CASE Operators
  BY <1>1 DEF Operators, PauseEnrollment, ResumeEnrollment, CancelEnrollment, PlanMigration,
     ApplyMigration, PauseProject, ResumeProject
<1>2. CASE Recipients
  BY <1>2 DEF Recipients, Enroll
<1>3. CASE Scheduler
  BY <1>3 DEF Scheduler, StartTick, ScheduleExit, ScheduleMissing, Disturb, ScheduleComplete,
     ScheduleDelay, ScheduleCondition, ScheduleSend, Schedule, ExpireLeases
<1>4. CASE Worker
  BY <1>4 DEF Worker, Claim, EndTick, CheckEnrollment, Complete, SettleAfterCompletion, FindExit,
     CheckGates, CheckConsent, LoseRead, Prepare, Reserve, LoseFrozenMessage, Send, Record,
     Finish, Advance, LoseAdvance, Return, Goto
<1>5. CASE FailTick \/ Crash \/ UNCHANGED vars
  BY <1>5 DEF FailTick, Crash, vars
<1> QED
  BY <1>1, <1>2, <1>3, <1>4, <1>5 DEF Next

\* The journeys meet consent, suppressions and deployments under the contract: only
\* consent confirm lets a contact in, and nobody suppressed or deleted comes back.
THEOREM AudienceRefinement == Spec => ImplementsAudience
<1> DEFINE Shut == "retired" \in stops
<1>1. Init => Circle!Init
  BY DEF Init, Circle!Init, Willing, Barred
<1>2. ASSUME IInv, [Next]_vars PROVE [Circle!Next]_<<Willing, Barred, Shut>>
  <2> USE DEF Circle!Next, Circle!Join, Circle!Leave, Circle!Bar, Circle!Deploy
  <2>0. standing \in [Enrollments -> Standings]
    BY <1>2 DEF IInv, TypeOK
  <2>1. CASE UNCHANGED standing /\ Shut' = Shut
    BY <2>1 DEF Willing, Barred
  <2>2. ASSUME NEW e \in Enrollments, NEW s \in Standings, Shut' = Shut,
               standing' = [standing EXCEPT ![e] = s],
               standing[e] \in {"suppressed", "deleted"} => s \in {"suppressed", "deleted"}
        PROVE  [Circle!Next]_<<Willing, Barred, Shut>>
    <3>1. Willing' = IF s = "confirmed" THEN Willing \cup {e} ELSE Willing \ {e}
      BY <2>0, <2>2 DEF Willing
    <3>2. Barred' = IF s \in {"suppressed", "deleted"} THEN Barred \cup {e} ELSE Barred
      BY <2>0, <2>2 DEF Barred
    <3>3. CASE s \in {"suppressed", "deleted"}
      <4>1. Willing' = Willing \ {e} /\ Barred' = Barred \cup {e}
        BY <3>1, <3>2, <3>3
      <4>2. CASE e \in Barred
        <5>1. e \notin Willing
          BY <4>2 DEF Barred, Willing
        <5> QED
          BY <2>2, <4>1, <4>2, <5>1
      <4>3. CASE e \notin Barred
        BY <2>2, <4>1, <4>3
      <4> QED
        BY <4>2, <4>3
    <3>4. CASE s = "confirmed"
      <4>1. Willing' = Willing \cup {e} /\ Barred' = Barred /\ e \notin Barred
        BY <2>2, <3>1, <3>2, <3>4 DEF Barred
      <4>2. CASE e \in Willing
        BY <2>2, <4>1, <4>2
      <4>3. CASE e \notin Willing
        BY <2>2, <4>1, <4>3
      <4> QED
        BY <4>2, <4>3
    <3>5. CASE s = "unconfirmed"
      <4>1. Willing' = Willing \ {e} /\ Barred' = Barred
        BY <3>1, <3>2, <3>5
      <4>2. CASE e \in Willing
        BY <2>2, <4>1, <4>2
      <4>3. CASE e \notin Willing
        BY <2>2, <4>1, <4>3
      <4> QED
        BY <4>2, <4>3
    <3> QED
      BY <3>3, <3>4, <3>5 DEF Standings
  <2>3. ASSUME NEW e \in Enrollments, Confirm(e) \/ DeleteContact(e)
        PROVE  [Circle!Next]_<<Willing, Barred, Shut>>
    BY <2>2, <2>3 DEF Confirm, DeleteContact, Standings
  <2>4. ASSUME NEW e \in Enrollments, NEW wide \in BOOLEAN, Unsubscribe(e, wide)
        PROVE  [Circle!Next]_<<Willing, Barred, Shut>>
    BY <2>2, <2>4 DEF Unsubscribe, Standings
  <2>5. ASSUME NEW k \in Keys, NEW kind \in FeedbackKinds, Feedback(k, kind)
        PROVE  [Circle!Next]_<<Willing, Barred, Shut>>
    <3>1. k[1] \in Enrollments
      BY DEF Keys
    <3>2. Shut' = Shut
      BY <2>5 DEF Feedback
    <3>3. CASE kind = "delivered"
      BY <2>1, <2>5, <3>2, <3>3 DEF Feedback
    <3>4. CASE kind /= "delivered"
      BY <2>2, <2>5, <3>1, <3>2, <3>4 DEF Feedback, Standings
    <3> QED
      BY <3>3, <3>4
  <2>6. ASSUME NEW retire \in BOOLEAN, NEW newPolicy \in BOOLEAN, Deploy(retire, newPolicy)
        PROVE  [Circle!Next]_<<Willing, Barred, Shut>>
    <3>1. Shut' = retire
      BY <2>6 DEF Deploy
    <3>2. Barred' = Barred
      BY <2>0, <2>6 DEF Deploy, Barred
    <3>3. Willing' = IF newPolicy THEN {} ELSE Willing
      BY <2>0, <2>6 DEF Deploy, Willing
    <3> QED
      BY <3>1, <3>2, <3>3
  <2> QED
    BY <1>2, <2>1, <2>3, <2>4, <2>5, <2>6, GatesEffect
<1> QED
  BY <1>1, <1>2, Inductive, PTL DEF Spec, ImplementsAudience, Circle!Spec, Circle!circle

\* A job that is neither settled nor let go still moves its enrollment on.
LEMMA JobKept ==
  ASSUME NEW e \in Enrollments, HasJob(e),
         \A j \in Jobs : j[1] = e /\ pending[j] + leased[j] > 0 => pending'[j] + leased'[j] > 0,
         pc \notin {"idle", "schedule", "claim"} /\ at[1] = e =>
           pc' \notin {"idle", "schedule", "claim"} /\ at'[1] = e
  PROVE  HasJob(e)'
  BY DEF HasJob

\* A waiting enrollment keeps a job, in the queue or in the worker's hands, through
\* every step but the accidents the property names: the scheduler queues one with the
\* state, and runJob looks at the delivery only after the job is settled.
THEOREM InVainOnlyByAccident == Spec => WaitsInVainByAccident
<1> DEFINE Accident == \/ pc = "schedule" /\ pc' = "claim"
                       \/ pc = "advance" /\ (~MovesOn(delivery[Key]) \/ budget' < budget)
<1>1. ASSUME IInv, [Next]_vars, NEW e \in Enrollments, ~WaitsInVain(e), WaitsInVain(e)', ~Accident
      PROVE  FALSE
  <2>1. enrollment'[e] = "waiting" /\ ~HasJob(e)'
    BY <1>1 DEF WaitsInVain
  <2>2. enrollment[e] = "waiting" /\ HasJob(e) /\ completions[e] = 0
    <3>1. enrollment[e] = "waiting"
      BY <1>1, <2>1, WaitingEffect DEF IInv, HasJob
    <3> QED
      BY <1>1, <3>1 DEF WaitsInVain, IInv, CompletedOnce
  <2>3. /\ pending \in [Jobs -> Nat] /\ leased \in [Jobs -> Nat]
        /\ enrollment \in [Enrollments -> {"none", "active", "waiting", "paused"} \cup Ended]
    BY <1>1 DEF IInv, TypeOK
  <2>4. ASSUME \A j \in Jobs : j[1] = e /\ pending[j] + leased[j] > 0 =>
                                 pending'[j] + leased'[j] > 0,
               pc \notin {"idle", "schedule", "claim"} /\ at[1] = e =>
                 pc' \notin {"idle", "schedule", "claim"} /\ at'[1] = e
        PROVE  FALSE
    BY <2>1, <2>2, <2>4, JobKept
  <2>5. CASE Operators
    <3>1. UNCHANGED <<pending, leased, pc, at>>
      BY <2>5 DEF Operators, PauseEnrollment, ResumeEnrollment, CancelEnrollment, PlanMigration,
         ApplyMigration, PauseProject, ResumeProject, Deploy, queue, worker
    <3> QED
      BY <2>4, <3>1
  <2>6. CASE Recipients
    <3>1. ASSUME NEW i \in Enrollments, DeleteContact(i) PROVE FALSE
      <4>1. i /= e
        BY <2>1, <2>2, <2>3, <3>1 DEF DeleteContact, CancelFrom
      <4>2. \A j \in Jobs : j[1] = e => pending'[j] = pending[j] /\ leased'[j] = leased[j]
        BY <3>1, <4>1 DEF DeleteContact
      <4> QED
        BY <2>4, <3>1, <4>2 DEF DeleteContact, worker
    <3>2. UNCHANGED <<pending, leased, pc, at>>
      BY <2>6, <3>1 DEF Recipients, Enroll, Confirm, Unsubscribe, Feedback, queue, worker
    <3> QED
      BY <2>4, <3>2
  <2>7. ASSUME pc \in {"idle", "schedule"}, leased' = leased,
               \/ pending' = pending
               \/ \E j \in Jobs : Enqueue(j)
        PROVE  FALSE
    <3>1. CASE pending' = pending
      BY <2>4, <2>7, <3>1
    <3>2. ASSUME NEW j \in Jobs, Enqueue(j) PROVE FALSE
      BY <2>3, <2>4, <2>7, <3>2 DEF Enqueue
    <3> QED
      BY <2>7, <3>1, <3>2
  <2>8. CASE Scheduler
    <3>1. ASSUME NEW active, StartTick(active) PROVE FALSE
      BY <2>7, <3>1 DEF StartTick, queue
    <3>2. ASSUME NEW i \in Enrollments,
                 \/ ScheduleExit(i) \/ ScheduleMissing(i) \/ ScheduleComplete(i)
                 \/ ScheduleCondition(i)
          PROVE  FALSE
      BY <2>7, <3>2 DEF ScheduleExit, ScheduleMissing, Disturb, ScheduleComplete,
         ScheduleCondition, Schedule, queue
    <3>3. ASSUME NEW i \in Enrollments, ScheduleDelay(i) PROVE FALSE
      BY <2>7, <3>3, EndJob DEF ScheduleDelay, Schedule
    <3>4. ASSUME NEW i \in Enrollments, ScheduleSend(i) PROVE FALSE
      <4>1. <<i, snapshot[i][2], Scheduled(i).next>> \in Jobs
        BY <1>1, <3>4, SnapshotFacts DEF ScheduleSend, IsAt, Jobs, IInv
      <4> QED
        BY <2>7, <3>4, <4>1 DEF ScheduleSend, Schedule
    <3>5. ASSUME NEW lapsed, ExpireLeases(lapsed) PROVE FALSE
      BY <1>1, <3>5 DEF ExpireLeases
    <3> QED
      BY <2>8, <3>1, <3>2, <3>3, <3>4, <3>5 DEF Scheduler
  <2>9. ASSUME pc \in Holding,
               \/ UNCHANGED queue /\ pc' \in Holding \cup {"advance"} /\ at' = at
               \/ (Settle(at) \/ Retry(at)) /\ ((pc' = "advance" /\ at' = at) \/ at[1] /= e)
        PROVE  FALSE
    <3>1. at \in Jobs /\ leased[at] > 0 /\ pc \notin {"idle", "schedule", "claim"}
      BY <1>1, <2>9 DEF IInv, WorkerOK, Holding
    <3>2. CASE pc' \in Holding \cup {"advance"} /\ at' = at /\ at[1] = e
      BY <2>1, <3>2 DEF HasJob, Holding
    <3>3. CASE UNCHANGED queue /\ at[1] /= e
      BY <2>4, <3>3 DEF queue
    <3>4. CASE (Settle(at) \/ Retry(at)) /\ at[1] /= e
      <4>1. \A j \in Jobs : j[1] = e => pending'[j] = pending[j] /\ leased'[j] = leased[j]
        BY <2>3, <3>4 DEF Settle, Retry, Enqueue
      <4> QED
        BY <2>4, <3>4, <4>1
    <3> QED
      BY <2>9, <3>2, <3>3, <3>4
  <2>10. ASSUME NEW j \in Jobs, Claim(j) PROVE FALSE
    <3>1. \A i \in Jobs : pending'[i] + leased'[i] = pending[i] + leased[i]
      BY <2>3, <2>10 DEF Claim
    <3> QED
      BY <2>4, <2>10, <3>1 DEF Claim
  <2>11. CASE EndTick
    BY <2>4, <2>11 DEF EndTick, Goto, queue
  <2>12. CASE CheckEnrollment
    <3>1. CASE Goto("complete")
      BY <2>9, <2>12, <3>1 DEF CheckEnrollment, Goto, Holding
    <3>2. CASE enrollment[at[1]] /= "waiting" /\ (Settle(at) \/ Retry(at))
      BY <2>2, <2>9, <2>12, <3>2 DEF CheckEnrollment, Holding
    <3> QED
      BY <2>12, <3>1, <3>2 DEF CheckEnrollment
  <2>13. CASE SettleAfterCompletion
    <3>1. CASE at[2] = End
      <4>1. at[1] /= e
        BY <1>1, <2>2, <2>13, <3>1 DEF SettleAfterCompletion, IInv, SettleOK
      <4> QED
        BY <2>9, <2>13, <4>1 DEF SettleAfterCompletion, Holding
    <3>2. CASE at[2] /= End
      BY <2>9, <2>13, <3>2 DEF SettleAfterCompletion, Holding
    <3> QED
      BY <3>1, <3>2
  <2>14. CASE Complete \/ FindExit \/ (\E o \in SendOutcomes : Send(o)) \/ Record
    BY <2>9, <2>14 DEF Complete, FindExit, Send, Record, Goto, Holding
  <2>15. CASE CheckGates \/ CheckConsent \/ LoseRead
    BY <2>9, <2>15 DEF CheckGates, CheckConsent, LoseRead, Return, Goto, Holding
  <2>16. CASE Prepare \/ Reserve \/ LoseFrozenMessage \/ Finish
    BY <2>9, <2>16 DEF Prepare, Reserve, LoseFrozenMessage, Finish, Return, Goto, Holding, queue
  <2>17. CASE Advance
    <3>1. MovesOn(delivery[Key]) /\ at[1] \in Enrollments
      BY <1>1, <2>17, JobFacts DEF Advance, IInv, WorkerOK
    <3>2. at[1] /= e
      BY <2>1, <2>2, <2>3, <2>17, <3>1 DEF Advance, Move, CompleteEnrollment
    <3> QED
      BY <2>4, <2>17, <3>2 DEF Advance, queue
  <2>18. CASE LoseAdvance \/ FailTick \/ Crash
    <3>1. UNCHANGED queue /\ budget' < budget
      BY <1>1, <2>18 DEF LoseAdvance, FailTick, Crash, Disturb, IInv, TypeOK
    <3>2. pc /= "advance"
      BY <1>1, <3>1
    <3>3. CASE pc \notin {"idle", "schedule", "claim"} /\ at[1] = e
      <4>1. pc \in Holding
        BY <1>1, <3>2, <3>3 DEF IInv, TypeOK, Holding
      <4>2. at \in Jobs /\ pending[at] + leased[at] > 0
        BY <1>1, <2>3, <4>1 DEF IInv, WorkerOK
      <4> QED
        BY <2>1, <3>1, <3>3, <4>2 DEF HasJob, queue
    <3> QED
      BY <2>4, <3>1, <3>3 DEF queue
  <2>19. CASE Worker
    BY <2>10, <2>11, <2>12, <2>13, <2>14, <2>15, <2>16, <2>17, <2>18, <2>19 DEF Worker
  <2>20. CASE UNCHANGED vars
    BY <2>4, <2>20 DEF vars, queue, worker
  <2> QED
    BY <1>1, <2>5, <2>6, <2>8, <2>18, <2>19, <2>20 DEF Next
<1>2. IInv /\ [Next]_vars =>
        [\A e \in Enrollments : ~WaitsInVain(e) /\ WaitsInVain(e)' => Accident]_vars
  BY <1>1
<1> QED
  BY <1>2, Inductive, PTL DEF Spec, WaitsInVainByAccident

=============================================================================
