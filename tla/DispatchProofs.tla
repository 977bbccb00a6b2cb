--------------------------- MODULE DispatchProofs ---------------------------
(***************************************************************************)
(* Machine-checked proofs about Dispatch, for every set of broadcasts and  *)
(* contacts and every bound.                                               *)
(***************************************************************************)
EXTENDS Dispatch, TLAPS

(***************************************************************************)
(* The inductive invariant.                                                *)
(***************************************************************************)
Holding == Steps \ {"idle", "claim", "complete"}
BeforeIntent == {"run", "gates", "consent", "prepare", "reserve"}

\* A row no attempt is open for, or that only feedback closed.
Fresh == {"none", "transient"} \cup FeedbackKinds

\* The worker owns the job it holds: claimed, and touched by nobody else.
WorkerOK ==
  /\ pc \notin {"idle", "claim"} => at \in Keys
  /\ pc \in Holding => job[at] = "dispatching"
  /\ pc = "record" => verdict \in SmtpResults
  /\ \A b \in Broadcasts : broadcast[b] = "none" => \A k \in Jobs(b) : job[k] = "none"

\* Where the delivery row of a job stands, by the job and the worker's step.
RowOK ==
  /\ \A k \in Keys : job[k] \in {"none", "pending"} => delivery[k] \in Fresh
  /\ \A k \in Keys : job[k] = "complete" => delivery[k] \in {"accepted"} \cup FeedbackKinds
  /\ pc \in BeforeIntent => delivery[at] \in Fresh
  /\ pc \in {"send", "record"} => delivery[at] \in {"dispatching"} \cup FeedbackKinds
  /\ pc \in {"circuit", "finish"} =>
       /\ verdict \in DeliveryStates
       /\ \/ delivery[at] \in {verdict} \cup FeedbackKinds
          \/ delivery[at] = "dispatching" /\ verdict = "uncertain"

\* No copy is out where the job or the row could lead to another attempt.
CopyOK ==
  /\ \A k \in Keys : copies[k] <= 1
  /\ \A k \in Keys : delivery[k] \in {"none", "transient"} => copies[k] = 0
  /\ \A k \in Keys : job[k] \in {"none", "pending", "cancelled"} => copies[k] = 0
  /\ pc \in BeforeIntent \cup {"send"} => copies[at] = 0
  /\ pc \in {"record", "circuit", "finish"} /\ verdict = "transient" => copies[at] = 0

\* A committed intent was eligible when it was made.
LateOK ==
  /\ \A k \in Keys : lateSends[k] <= 1
  /\ pc = "send" => lateSends[at] = 0
  /\ \A k \in Keys : Deliverable(k) => lateSends[k] = 0

\* A completed broadcast has no job left.
CompletionOK ==
  \A b \in Broadcasts :
    /\ completions[b] = IF broadcast[b] = "completed" THEN 1 ELSE 0
    /\ broadcast[b] = "completed" =>
         \A k \in Jobs(b) : job[k] \notin {"pending", "dispatching"}

IInv == TypeOK /\ WorkerOK /\ RowOK /\ CopyOK /\ LateOK /\ CompletionOK

\* What one SMTP attempt can report (SMTP.Send, classified): a transient result
\* never leaves a copy behind.
LEMMA SendOutcomesOK ==
  ASSUME NEW o \in SendOutcomes
  PROVE  /\ o.result \in SmtpResults
         /\ o.copy \in {0, 1}
         /\ o.result = "transient" => o.copy = 0
  BY DEF SendOutcomes, Classified, SmtpResults

\* The jobs of a broadcast are the keys that carry it.
LEMMA JobsAreKeys ==
  ASSUME NEW b \in Broadcasts, NEW k
  PROVE  k \in Jobs(b) <=> k \in Keys /\ k[1] = b
  BY DEF Jobs, Keys

\* The empty database and an idle worker satisfy the invariant.
LEMMA InitIInv == Init => IInv
<1> SUFFICES ASSUME Init PROVE IInv
  OBVIOUS
<1> USE ConstantsOK DEF ConstantsOK, Init
<1>1. TypeOK
  BY DEF TypeOK, Steps, DeliveryStates, JobStates
<1>2. WorkerOK
  BY JobsAreKeys DEF WorkerOK, Holding
<1>5. RowOK
  BY DEF RowOK, BeforeIntent, Fresh
<1>3. CopyOK /\ LateOK
  BY DEF CopyOK, LateOK, BeforeIntent
<1>4. CompletionOK
  BY JobsAreKeys DEF CompletionOK
<1> QED
  BY <1>1, <1>2, <1>3, <1>4, <1>5 DEF IInv

\* Every step writes states the code knows; a step of the worker that names its
\* job needs WorkerOK to know that it holds one.
LEMMA TypeStep == TypeOK /\ WorkerOK /\ [Next]_vars => TypeOK'
<1> SUFFICES ASSUME TypeOK /\ WorkerOK, [Next]_vars PROVE TypeOK'
  OBVIOUS
<1> USE ConstantsOK
    DEF ConstantsOK, TypeOK, WorkerOK, Holding, Steps, JobStates, DeliveryStates,
        SmtpResults, FeedbackKinds, gates, owners, queue, worker, history
<1>1. ASSUME NEW b \in Broadcasts, CreateBroadcast(b) PROVE TypeOK'
  BY <1>1 DEF CreateBroadcast, Recount
<1>2. ASSUME NEW b \in Broadcasts, PauseBroadcast(b) PROVE TypeOK'
  BY <1>2 DEF PauseBroadcast, Disturb
<1>3. ASSUME NEW b \in Broadcasts, ResumeBroadcast(b) PROVE TypeOK'
  BY <1>3 DEF ResumeBroadcast, Recount
<1>4. ASSUME NEW b \in Broadcasts, CancelBroadcast(b) PROVE TypeOK'
  BY <1>4 DEF CancelBroadcast, CancelPending
<1>5. ASSUME NEW b \in Broadcasts, CheckAudience(b) PROVE TypeOK'
  BY <1>5 DEF CheckAudience, MaybeComplete, Disturb, owners
<1>6. CASE PauseProject
  BY <1>6 DEF PauseProject, Disturb
<1>7. ASSUME NEW stop \in {"project", "installation"}, Resume(stop) PROVE TypeOK'
  BY <1>7 DEF Resume, Recount
<1>8. ASSUME NEW retire \in BOOLEAN, NEW newPolicy \in BOOLEAN, Deploy(retire, newPolicy)
      PROVE  TypeOK'
  BY <1>8 DEF Deploy, Disturb, Recount
<1>9. ASSUME NEW c \in Contacts, Confirm(c) PROVE TypeOK'
  BY <1>9 DEF Confirm, Recount
<1>10. ASSUME NEW c \in Contacts, DeleteContact(c) PROVE TypeOK'
  BY <1>10 DEF DeleteContact, Disturb, CancelPending
<1>11. ASSUME NEW c \in Contacts, NEW wide \in BOOLEAN, Unsubscribe(c, wide) PROVE TypeOK'
  BY <1>11 DEF Unsubscribe, Disturb
<1>12. ASSUME NEW k \in Keys, NEW kind \in FeedbackKinds, Feedback(k, kind) PROVE TypeOK'
  <2>1. k[2] \in Contacts
    BY DEF Keys
  <2>2. suppressed' \subseteq Contacts /\ stops' \subseteq {"retired", "project", "installation"}
    BY <1>12, <2>1 DEF Feedback
  <2>3. AfterFeedback(delivery[k], kind) \in DeliveryStates
    BY DEF AfterFeedback
  <2>4. delivery' \in [Keys -> DeliveryStates]
    BY <1>12, <2>3 DEF Feedback
  <2> QED
    BY <1>12, <2>2, <2>4 DEF Feedback, Disturb
<1>13. ASSUME NEW k \in Keys, Elapse(k) PROVE TypeOK'
  BY <1>13 DEF Elapse
<1>14. CASE StartTick
  BY <1>14 DEF StartTick, ExpireLeases, Disturb, Goto
<1>15. ASSUME NEW k \in Keys, Claim(k) PROVE TypeOK'
  BY <1>15 DEF Claim, Goto
<1>16. CASE EndTick
  BY <1>16 DEF EndTick, Goto
<1>17. CASE RunJob
  BY <1>17 DEF RunJob, RetryJob, FinishJob, Release, Goto
<1>18. CASE CheckGates
  BY <1>18 DEF CheckGates, Return, FinishJob, RetryJob, Goto
<1>19. CASE CheckConsent
  BY <1>19 DEF CheckConsent, Return, FinishJob, Goto
<1>read. CASE LoseRead
  <2>1. budget' \in 0..MaxDisturbances
    BY <1>read DEF LoseRead, Disturb
  <2>2. \E end \in {"cancelled", "failed"} : FinishJob(end)
    BY <1>read DEF LoseRead, Return
  <2>3. job' \in [Keys -> JobStates] /\ due' \subseteq Keys
    BY <2>2 DEF FinishJob, JobStates
  <2> QED
    BY <1>read, <2>1, <2>3 DEF LoseRead, Return, FinishJob, Release, Goto
<1>20. CASE Prepare
  <2>1. budget' \in 0..MaxDisturbances
    BY <1>20 DEF Prepare, Disturb
  <2>2. job' \in [Keys -> JobStates] /\ due' \subseteq Keys
    BY <1>20 DEF Prepare, Return, FinishJob, RetryJob
  <2>3. pc' \in Steps /\ verdict' \in {"new", "retry"} \cup DeliveryStates
    BY <1>20 DEF Prepare, Return, Goto
  <2> QED
    BY <1>20, <2>1, <2>2, <2>3 DEF Prepare, Return
<1>21. CASE Reserve
  BY <1>21 DEF Reserve, Return, FinishJob, Goto
<1>22. CASE LoseFrozenMessage
  BY <1>22 DEF LoseFrozenMessage, Return, FinishJob, Goto
<1>23. ASSUME NEW o \in SendOutcomes, Send(o) PROVE TypeOK'
  BY <1>23, SendOutcomesOK DEF Send, Disturb, Goto
<1>24. CASE Record
  <2>1. AfterSmtp(delivery[at], verdict) \in DeliveryStates
    BY <1>24 DEF Record, AfterSmtp
  <2>2. delivery' \in [Keys -> DeliveryStates] /\ verdict' \in DeliveryStates
    BY <1>24, <2>1 DEF Record
  <2>3. budget' \in 0..MaxDisturbances /\ pc' \in Steps
    BY <1>24 DEF Record, Disturb, Goto
  <2> QED
    BY <1>24, <2>2, <2>3 DEF Record
<1>25. CASE OpenCircuit
  BY <1>25 DEF OpenCircuit, Goto
<1>26. CASE Finish
  BY <1>26 DEF Finish, Return, FinishJob, RetryJob, Goto, JobAfterSend
<1>27. CASE CompleteBroadcast
  BY <1>27 DEF CompleteBroadcast, MaybeComplete, Release, Goto
<1>28. CASE FailTick
  BY <1>28 DEF FailTick, Disturb, Goto
<1>29. CASE Crash
  BY <1>29 DEF Crash, Disturb, Goto
<1>30. CASE UNCHANGED vars
  BY <1>30 DEF vars
<1> QED
  BY <1>1, <1>2, <1>3, <1>4, <1>5, <1>6, <1>7, <1>8, <1>9, <1>10, <1>11, <1>12, <1>13,
     <1>14, <1>15, <1>16, <1>17, <1>18, <1>19, <1>20, <1>21, <1>22, <1>23, <1>24, <1>25,
     <1>26, <1>27, <1>28, <1>29, <1>30, <1>read
     DEF Next, Operators, Recipients, Worker

\* While the worker holds a job, that job stays leased to it: nobody else settles
\* or cancels a dispatching job, and a lease only expires between two Ticks.
LEMMA WorkerStep == TypeOK /\ WorkerOK /\ [Next]_vars => WorkerOK'
<1> SUFFICES ASSUME TypeOK /\ WorkerOK, [Next]_vars PROVE WorkerOK'
  OBVIOUS
<1> USE ConstantsOK, JobsAreKeys
    DEF ConstantsOK, TypeOK, WorkerOK, Holding, Steps, gates, owners, queue, worker, history
<1>1. ASSUME NEW b \in Broadcasts, CreateBroadcast(b) PROVE WorkerOK'
  BY <1>1 DEF CreateBroadcast, Recount
<1>2. ASSUME NEW b \in Broadcasts, PauseBroadcast(b) PROVE WorkerOK'
  BY <1>2 DEF PauseBroadcast, Disturb
<1>3. ASSUME NEW b \in Broadcasts, ResumeBroadcast(b) PROVE WorkerOK'
  BY <1>3 DEF ResumeBroadcast, Recount
<1>4. ASSUME NEW b \in Broadcasts, CancelBroadcast(b) PROVE WorkerOK'
  BY <1>4 DEF CancelBroadcast, CancelPending
<1>5. ASSUME NEW b \in Broadcasts, CheckAudience(b) PROVE WorkerOK'
  BY <1>5 DEF CheckAudience, MaybeComplete
<1>6. CASE PauseProject
  BY <1>6 DEF PauseProject, Disturb
<1>7. ASSUME NEW stop \in {"project", "installation"}, Resume(stop) PROVE WorkerOK'
  BY <1>7 DEF Resume, Recount
<1>8. ASSUME NEW retire \in BOOLEAN, NEW newPolicy \in BOOLEAN, Deploy(retire, newPolicy)
      PROVE  WorkerOK'
  BY <1>8 DEF Deploy, Disturb, Recount
<1>9. ASSUME NEW c \in Contacts, Confirm(c) PROVE WorkerOK'
  BY <1>9 DEF Confirm, Recount
<1>10. ASSUME NEW c \in Contacts, DeleteContact(c) PROVE WorkerOK'
  BY <1>10 DEF DeleteContact, Disturb, CancelPending
<1>11. ASSUME NEW c \in Contacts, NEW wide \in BOOLEAN, Unsubscribe(c, wide) PROVE WorkerOK'
  BY <1>11 DEF Unsubscribe, Disturb
<1>12. ASSUME NEW k \in Keys, NEW kind \in FeedbackKinds, Feedback(k, kind) PROVE WorkerOK'
  BY <1>12 DEF Feedback, Disturb, AfterFeedback
<1>13. ASSUME NEW k \in Keys, Elapse(k) PROVE WorkerOK'
  BY <1>13 DEF Elapse
<1>14. CASE StartTick
  BY <1>14 DEF StartTick, ExpireLeases, Goto
<1>15. ASSUME NEW k \in Keys, Claim(k) PROVE WorkerOK'
  BY <1>15 DEF Claim, Goto
<1>16. CASE EndTick
  BY <1>16 DEF EndTick, Goto
<1>17. CASE RunJob
  BY <1>17 DEF RunJob, RetryJob, FinishJob, Release, Goto
<1>18. CASE CheckGates
  BY <1>18 DEF CheckGates, Return, FinishJob, RetryJob, Goto
<1>19. CASE CheckConsent
  BY <1>19 DEF CheckConsent, Return, FinishJob, Goto
<1>read. CASE LoseRead
  BY <1>read DEF LoseRead, Return, FinishJob, Release, Goto, Disturb
<1>20. CASE Prepare
  BY <1>20 DEF Prepare, Return, FinishJob, RetryJob, Goto, Disturb
<1>21. CASE Reserve
  BY <1>21 DEF Reserve, Return, FinishJob, Goto
<1>22. CASE LoseFrozenMessage
  BY <1>22 DEF LoseFrozenMessage, Return, FinishJob, Goto
<1>23. ASSUME NEW o \in SendOutcomes, Send(o) PROVE WorkerOK'
  BY <1>23, SendOutcomesOK DEF Send, Disturb, Goto
<1>24. CASE Record
  BY <1>24 DEF Record, Goto, AfterSmtp
<1>25. CASE OpenCircuit
  BY <1>25 DEF OpenCircuit, Goto
<1>26. CASE Finish
  BY <1>26 DEF Finish, Return, FinishJob, RetryJob, Goto, JobAfterSend
<1>27. CASE CompleteBroadcast
  BY <1>27 DEF CompleteBroadcast, MaybeComplete, Release, Goto
<1>28. CASE FailTick
  BY <1>28 DEF FailTick, Disturb, Goto
<1>29. CASE Crash
  BY <1>29 DEF Crash, Disturb, Goto
<1>30. CASE UNCHANGED vars
  BY <1>30 DEF vars
<1> QED
  BY <1>1, <1>2, <1>3, <1>4, <1>5, <1>6, <1>7, <1>8, <1>9, <1>10, <1>11, <1>12, <1>13,
     <1>14, <1>15, <1>16, <1>17, <1>18, <1>19, <1>20, <1>21, <1>22, <1>23, <1>24, <1>25,
     <1>26, <1>27, <1>28, <1>29, <1>30, <1>read
     DEF Next, Operators, Recipients, Worker

\* The audience of a new broadcast: jobs that did not exist before.
LEMMA CreateEffect ==
  ASSUME TypeOK, WorkerOK, NEW b \in Broadcasts, CreateBroadcast(b)
  PROVE  \A k \in Keys : \/ job'[k] = job[k]
                         \/ k[1] = b /\ job[k] = "none" /\ job'[k] = "pending"
<1> SUFFICES ASSUME NEW k \in Keys, job'[k] /= job[k]
             PROVE  k[1] = b /\ job[k] = "none" /\ job'[k] = "pending"
  OBVIOUS
<1> DEFINE audience == {b} \X (confirmed \ (deleted \cup suppressed))
<1>1. job' = [l \in Keys |-> IF l \in audience THEN "pending" ELSE job[l]]
  BY DEF CreateBroadcast
<1>2. k \in audience /\ job'[k] = "pending"
  BY <1>1 DEF TypeOK
<1>3. k[1] = b
  BY <1>2
<1>4. job[k] = "none"
  BY <1>3, JobsAreKeys DEF CreateBroadcast, WorkerOK
<1> QED
  BY <1>2, <1>3, <1>4

\* The states of a job and of its delivery row stay consistent: the intent is
\* there before the mail leaves, and a complete job has a closed row.
LEMMA RowStep == TypeOK /\ WorkerOK /\ RowOK /\ [Next]_vars => RowOK'
<1> SUFFICES ASSUME TypeOK /\ WorkerOK /\ RowOK, [Next]_vars PROVE RowOK'
  OBVIOUS
<1>0. ASSUME NEW b \in Broadcasts, CreateBroadcast(b)
      PROVE  \A k \in Keys : \/ job'[k] = job[k]
                             \/ k[1] = b /\ job[k] = "none" /\ job'[k] = "pending"
  BY <1>0, CreateEffect
<1> USE ConstantsOK
    DEF ConstantsOK, TypeOK, WorkerOK, RowOK, Holding, BeforeIntent, Fresh, Steps,
        DeliveryStates, SmtpResults, FeedbackKinds, gates, owners, queue, worker, history
<1>1. ASSUME NEW b \in Broadcasts, CreateBroadcast(b) PROVE RowOK'
  BY <1>1, <1>0 DEF CreateBroadcast
<1>2. ASSUME NEW b \in Broadcasts, PauseBroadcast(b) PROVE RowOK'
  BY <1>2 DEF PauseBroadcast, Disturb
<1>3. ASSUME NEW b \in Broadcasts, ResumeBroadcast(b) PROVE RowOK'
  BY <1>3 DEF ResumeBroadcast, Recount
<1>4. ASSUME NEW b \in Broadcasts, CancelBroadcast(b) PROVE RowOK'
  BY <1>4 DEF CancelBroadcast, CancelPending
<1>5. ASSUME NEW b \in Broadcasts, CheckAudience(b) PROVE RowOK'
  BY <1>5 DEF CheckAudience, MaybeComplete
<1>6. CASE PauseProject
  BY <1>6 DEF PauseProject, Disturb
<1>7. ASSUME NEW stop \in {"project", "installation"}, Resume(stop) PROVE RowOK'
  BY <1>7 DEF Resume, Recount
<1>8. ASSUME NEW retire \in BOOLEAN, NEW newPolicy \in BOOLEAN, Deploy(retire, newPolicy)
      PROVE  RowOK'
  BY <1>8 DEF Deploy, Disturb, Recount
<1>9. ASSUME NEW c \in Contacts, Confirm(c) PROVE RowOK'
  BY <1>9 DEF Confirm, Recount
<1>10. ASSUME NEW c \in Contacts, DeleteContact(c) PROVE RowOK'
  BY <1>10 DEF DeleteContact, Disturb, CancelPending
<1>11. ASSUME NEW c \in Contacts, NEW wide \in BOOLEAN, Unsubscribe(c, wide) PROVE RowOK'
  BY <1>11 DEF Unsubscribe, Disturb
<1>12. ASSUME NEW k \in Keys, NEW kind \in FeedbackKinds, Feedback(k, kind) PROVE RowOK'
  BY <1>12 DEF Feedback, Disturb, AfterFeedback
<1>13. ASSUME NEW k \in Keys, Elapse(k) PROVE RowOK'
  BY <1>13 DEF Elapse
<1>14. CASE StartTick
  BY <1>14 DEF StartTick, ExpireLeases, Goto
<1>15. ASSUME NEW k \in Keys, Claim(k) PROVE RowOK'
  BY <1>15 DEF Claim, Goto
<1>16. CASE EndTick
  BY <1>16 DEF EndTick, Goto
<1>17. CASE RunJob
  BY <1>17 DEF RunJob, RetryJob, FinishJob, Release, Goto
<1>18. CASE CheckGates
  BY <1>18 DEF CheckGates, Return, FinishJob, RetryJob, Goto
<1>19. CASE CheckConsent
  BY <1>19 DEF CheckConsent, Return, FinishJob, Goto
<1>read. CASE LoseRead
  BY <1>read DEF LoseRead, Return, FinishJob, Release, Goto, Disturb
<1>20. CASE Prepare
  BY <1>20 DEF Prepare, Return, FinishJob, RetryJob, Goto, Disturb
<1>21. CASE Reserve
  <2>1. CASE ~Eligible(at)
    BY <1>21, <2>1 DEF Reserve, Return, FinishJob, Goto
  <2>2. CASE Eligible(at) /\ ~MayReserve(delivery[at])
    BY <1>21, <2>2 DEF Reserve, Return, FinishJob, Goto, MayReserve
  <2>3. CASE Eligible(at) /\ MayReserve(delivery[at])
    BY <1>21, <2>3 DEF Reserve, Goto
  <2> QED
    BY <2>1, <2>2, <2>3
<1>22. CASE LoseFrozenMessage
  BY <1>22 DEF LoseFrozenMessage, Return, FinishJob, Goto
<1>23. ASSUME NEW o \in SendOutcomes, Send(o) PROVE RowOK'
  BY <1>23, SendOutcomesOK DEF Send, Disturb, Goto
<1>24. CASE Record
  BY <1>24 DEF Record, Goto, AfterSmtp
<1>25. CASE OpenCircuit
  BY <1>25 DEF OpenCircuit, Goto
<1>26. CASE Finish
  BY <1>26 DEF Finish, Return, FinishJob, RetryJob, Goto, JobAfterSend
<1>27. CASE CompleteBroadcast
  BY <1>27 DEF CompleteBroadcast, MaybeComplete, Release, Goto
<1>28. CASE FailTick
  BY <1>28 DEF FailTick, Disturb, Goto
<1>29. CASE Crash
  BY <1>29 DEF Crash, Disturb, Goto
<1>30. CASE UNCHANGED vars
  BY <1>30 DEF vars
<1> QED
  BY <1>1, <1>2, <1>3, <1>4, <1>5, <1>6, <1>7, <1>8, <1>9, <1>10, <1>11, <1>12, <1>13,
     <1>14, <1>15, <1>16, <1>17, <1>18, <1>19, <1>20, <1>21, <1>22, <1>23, <1>24, <1>25,
     <1>26, <1>27, <1>28, <1>29, <1>30, <1>read
     DEF Next, Operators, Recipients, Worker

\* A copy is only out for a row past its intent, and never for a row that
\* reserveDelivery would open again.
LEMMA CopyStep == TypeOK /\ WorkerOK /\ RowOK /\ CopyOK /\ [Next]_vars => CopyOK'
<1> SUFFICES ASSUME TypeOK /\ WorkerOK /\ RowOK /\ CopyOK, [Next]_vars PROVE CopyOK'
  OBVIOUS
<1>0. ASSUME NEW b \in Broadcasts, CreateBroadcast(b)
      PROVE  \A k \in Keys : \/ job'[k] = job[k]
                             \/ k[1] = b /\ job[k] = "none" /\ job'[k] = "pending"
  BY <1>0, CreateEffect
<1> USE ConstantsOK
    DEF ConstantsOK, TypeOK, WorkerOK, RowOK, CopyOK, Holding, BeforeIntent, Fresh,
        SmtpResults, FeedbackKinds, gates, owners, queue, worker, history
<1>1. ASSUME NEW b \in Broadcasts, CreateBroadcast(b) PROVE CopyOK'
  BY <1>1, <1>0 DEF CreateBroadcast
<1>2. ASSUME NEW b \in Broadcasts, PauseBroadcast(b) PROVE CopyOK'
  BY <1>2 DEF PauseBroadcast, Disturb
<1>3. ASSUME NEW b \in Broadcasts, ResumeBroadcast(b) PROVE CopyOK'
  BY <1>3 DEF ResumeBroadcast, Recount
<1>4. ASSUME NEW b \in Broadcasts, CancelBroadcast(b) PROVE CopyOK'
  BY <1>4 DEF CancelBroadcast, CancelPending
<1>5. ASSUME NEW b \in Broadcasts, CheckAudience(b) PROVE CopyOK'
  BY <1>5 DEF CheckAudience, MaybeComplete
<1>6. CASE PauseProject
  BY <1>6 DEF PauseProject, Disturb
<1>7. ASSUME NEW stop \in {"project", "installation"}, Resume(stop) PROVE CopyOK'
  BY <1>7 DEF Resume, Recount
<1>8. ASSUME NEW retire \in BOOLEAN, NEW newPolicy \in BOOLEAN, Deploy(retire, newPolicy)
      PROVE  CopyOK'
  BY <1>8 DEF Deploy, Disturb, Recount
<1>9. ASSUME NEW c \in Contacts, Confirm(c) PROVE CopyOK'
  BY <1>9 DEF Confirm, Recount
<1>10. ASSUME NEW c \in Contacts, DeleteContact(c) PROVE CopyOK'
  BY <1>10 DEF DeleteContact, Disturb, CancelPending
<1>11. ASSUME NEW c \in Contacts, NEW wide \in BOOLEAN, Unsubscribe(c, wide) PROVE CopyOK'
  BY <1>11 DEF Unsubscribe, Disturb
<1>12. ASSUME NEW k \in Keys, NEW kind \in FeedbackKinds, Feedback(k, kind) PROVE CopyOK'
  BY <1>12 DEF Feedback, Disturb, AfterFeedback
<1>13. ASSUME NEW k \in Keys, Elapse(k) PROVE CopyOK'
  BY <1>13 DEF Elapse
<1>14. CASE StartTick
  BY <1>14 DEF StartTick, ExpireLeases, Goto
<1>15. ASSUME NEW k \in Keys, Claim(k) PROVE CopyOK'
  BY <1>15 DEF Claim, Goto
<1>16. CASE EndTick
  BY <1>16 DEF EndTick, Goto
<1>17. CASE RunJob
  BY <1>17 DEF RunJob, RetryJob, FinishJob, Release, Goto
<1>18. CASE CheckGates
  BY <1>18 DEF CheckGates, Return, FinishJob, RetryJob, Goto
<1>19. CASE CheckConsent
  BY <1>19 DEF CheckConsent, Return, FinishJob, Goto
<1>read. CASE LoseRead
  BY <1>read DEF LoseRead, Return, FinishJob, Release, Goto, Disturb
<1>20. CASE Prepare
  BY <1>20 DEF Prepare, Return, FinishJob, RetryJob, Goto, Disturb
<1>21. CASE Reserve
  <2>1. CASE ~Eligible(at)
    BY <1>21, <2>1 DEF Reserve, Return, FinishJob, Goto
  <2>2. CASE Eligible(at) /\ ~MayReserve(delivery[at])
    BY <1>21, <2>2 DEF Reserve, Return, FinishJob, Goto, MayReserve
  <2>3. CASE Eligible(at) /\ MayReserve(delivery[at])
    BY <1>21, <2>3 DEF Reserve, Goto
  <2> QED
    BY <2>1, <2>2, <2>3
<1>22. CASE LoseFrozenMessage
  BY <1>22 DEF LoseFrozenMessage, Return, FinishJob, Goto
<1>23. ASSUME NEW o \in SendOutcomes, Send(o) PROVE CopyOK'
  BY <1>23, SendOutcomesOK DEF Send, Disturb, Goto
<1>24. CASE Record
  BY <1>24 DEF Record, Goto, AfterSmtp
<1>25. CASE OpenCircuit
  BY <1>25 DEF OpenCircuit, Goto
<1>26. CASE Finish
  BY <1>26 DEF Finish, Return, FinishJob, RetryJob, Goto, JobAfterSend
<1>27. CASE CompleteBroadcast
  BY <1>27 DEF CompleteBroadcast, MaybeComplete, Release, Goto
<1>28. CASE FailTick
  BY <1>28 DEF FailTick, Disturb, Goto
<1>29. CASE Crash
  BY <1>29 DEF Crash, Disturb, Goto
<1>30. CASE UNCHANGED vars
  BY <1>30 DEF vars
<1> QED
  BY <1>1, <1>2, <1>3, <1>4, <1>5, <1>6, <1>7, <1>8, <1>9, <1>10, <1>11, <1>12, <1>13,
     <1>14, <1>15, <1>16, <1>17, <1>18, <1>19, <1>20, <1>21, <1>22, <1>23, <1>24, <1>25,
     <1>26, <1>27, <1>28, <1>29, <1>30, <1>read
     DEF Next, Operators, Recipients, Worker

\* An attempt after a stop needs a reservation made before it: Reserve itself
\* checks the stops, so at most the attempt in flight is late.
LEMMA LateStep ==
  TypeOK /\ WorkerOK /\ LateOK /\ [Next]_vars => LateOK'
<1> SUFFICES ASSUME TypeOK, WorkerOK, LateOK, [Next]_vars PROVE LateOK'
  OBVIOUS
<1>1. ASSUME UNCHANGED lateSends,
             \A k \in Keys : Deliverable(k)' => Deliverable(k),
             pc' = "send" => pc = "send" /\ UNCHANGED at
      PROVE  LateOK'
  BY <1>1 DEF LateOK
<1>2. ASSUME UNCHANGED <<gates, broadcast>>
      PROVE  \A k \in Keys : Deliverable(k)' <=> Deliverable(k)
  BY <1>2 DEF Deliverable, gates
<1>3. ASSUME Recount, UNCHANGED worker PROVE LateOK'
  <2>1. \A k \in Keys : lateSends'[k] = IF Deliverable(k)' THEN 0 ELSE lateSends[k]
    BY <1>3 DEF Recount
  <2> QED
    BY <1>3, <2>1 DEF LateOK, WorkerOK, worker
<1>4. ASSUME NEW b \in Broadcasts, MaybeComplete(b), UNCHANGED <<gates, lateSends>>,
             pc' = "send" => pc = "send" /\ UNCHANGED at
      PROVE  LateOK'
  <2>1. \A k \in Keys : broadcast'[k[1]] = "queued" => broadcast[k[1]] = "queued"
    BY <1>4 DEF MaybeComplete, TypeOK, owners, Keys
  <2>2. \A k \in Keys : Deliverable(k)' => Deliverable(k)
    BY <1>4, <2>1 DEF Deliverable, gates
  <2> QED
    BY <1>1, <1>4, <2>2
<1>5. CASE \/ \E b \in Broadcasts : CreateBroadcast(b) \/ ResumeBroadcast(b)
           \/ \E stop \in {"project", "installation"} : Resume(stop)
           \/ \E retire, newPolicy \in BOOLEAN : Deploy(retire, newPolicy)
           \/ \E c \in Contacts : Confirm(c)
  BY <1>3, <1>5 DEF CreateBroadcast, ResumeBroadcast, Resume, Deploy, Confirm
<1>6. ASSUME NEW b \in Broadcasts, PauseBroadcast(b) \/ CancelBroadcast(b) PROVE LateOK'
  <2>1. \A k \in Keys : broadcast'[k[1]] = "queued" => broadcast[k[1]] = "queued"
    BY <1>6 DEF PauseBroadcast, CancelBroadcast, TypeOK, Keys
  <2>2. \A k \in Keys : Deliverable(k)' => Deliverable(k)
    BY <1>6, <2>1 DEF PauseBroadcast, CancelBroadcast, Deliverable, gates
  <2> QED
    BY <1>1, <1>6, <2>2 DEF PauseBroadcast, CancelBroadcast, history, worker
<1>7. CASE PauseProject
  BY <1>1, <1>7 DEF PauseProject, Deliverable, owners, history, worker
<1>8. ASSUME NEW c \in Contacts, NEW wide \in BOOLEAN, DeleteContact(c) \/ Unsubscribe(c, wide)
      PROVE  LateOK'
  <2>1. \A k \in Keys : Deliverable(k)' => Deliverable(k)
    BY <1>8 DEF DeleteContact, Unsubscribe, Deliverable, owners
  <2> QED
    BY <1>1, <1>8, <2>1 DEF DeleteContact, Unsubscribe, history, worker
<1>9. ASSUME NEW k \in Keys, NEW kind \in FeedbackKinds, Feedback(k, kind) PROVE LateOK'
  <2>1. \A l \in Keys : Deliverable(l)' => Deliverable(l)
    BY <1>9 DEF Feedback, Deliverable, owners
  <2> QED
    BY <1>1, <1>9, <2>1 DEF Feedback, history, worker
<1>10. ASSUME NEW b \in Broadcasts, CheckAudience(b) PROVE LateOK'
  <2>1. CASE MaybeComplete(b)
    BY <1>4, <1>10, <2>1 DEF CheckAudience, history, worker
  <2>2. CASE UNCHANGED owners
    BY <1>1, <1>2, <1>10, <2>2 DEF CheckAudience, owners, history, worker
  <2> QED
    BY <1>10, <2>1, <2>2 DEF CheckAudience
<1>11. CASE CompleteBroadcast
  <2>1. at[1] \in Broadcasts
    BY <1>11 DEF CompleteBroadcast, WorkerOK, Keys
  <2> QED
    BY <1>4, <1>11, <2>1 DEF CompleteBroadcast, Release, Goto, history
<1>12. ASSUME NEW k \in Keys, Elapse(k) \/ Claim(k) PROVE LateOK'
  BY <1>1, <1>2, <1>12 DEF Elapse, Claim, Goto, owners, worker, history
<1>13. CASE StartTick \/ EndTick \/ RunJob \/ Record
  BY <1>1, <1>2, <1>13 DEF StartTick, EndTick, RunJob, Record, Release, Goto, owners, history
<1>14. CASE CheckGates \/ CheckConsent \/ LoseRead \/ Prepare \/ LoseFrozenMessage \/ Finish
  <2>1. UNCHANGED <<gates, broadcast, lateSends>> /\ pc' /= "send"
    BY <1>14 DEF CheckGates, CheckConsent, LoseRead, Prepare, LoseFrozenMessage, Finish,
                 Return, Release, Goto, owners, history
  <2> QED
    BY <1>1, <1>2, <2>1
<1>15. CASE Reserve
  <2>1. UNCHANGED <<gates, broadcast, lateSends, at>>
    BY <1>15 DEF Reserve, Return, owners, history
  <2>2. CASE pc' = "send"
    <3>1. pc = "reserve" /\ Eligible(at)
      BY <1>15, <2>2 DEF Reserve, Return, Goto
    <3>2. at \in Keys /\ Deliverable(at)
      BY <3>1 DEF Eligible, Deliverable, WorkerOK
    <3> QED
      BY <1>2, <2>1, <3>2 DEF LateOK
  <2>3. CASE pc' /= "send"
    BY <1>1, <1>2, <2>1, <2>3
  <2> QED
    BY <2>2, <2>3
<1>16. ASSUME NEW o \in SendOutcomes, Send(o) PROVE LateOK'
  <2>1. UNCHANGED <<gates, broadcast>> /\ pc' = "record"
    BY <1>16 DEF Send, Goto, owners
  <2>2. at \in Keys /\ lateSends[at] = 0
    BY <1>16 DEF Send, WorkerOK, LateOK
  <2>3. lateSends' = lateSends \/ (~Deliverable(at) /\ lateSends' = [lateSends EXCEPT ![at] = @ + 1])
    BY <1>16 DEF Send
  <2> QED
    BY <1>2, <2>1, <2>2, <2>3 DEF LateOK, TypeOK
<1>17. CASE OpenCircuit
  BY <1>1, <1>17 DEF OpenCircuit, Deliverable, Goto, owners, history
<1>18. CASE FailTick \/ Crash
  BY <1>1, <1>18 DEF FailTick, Crash, Deliverable, Goto, gates, owners, history
<1>19. CASE UNCHANGED vars
  BY <1>1, <1>2, <1>19 DEF vars, owners, worker, history
<1>20. CASE Operators
  BY <1>5, <1>6, <1>7, <1>20 DEF Operators
<1>21. CASE Recipients
  BY <1>5, <1>8, <1>9, <1>21 DEF Recipients
<1>22. CASE Worker
  BY <1>11, <1>12, <1>13, <1>14, <1>15, <1>16, <1>17, <1>22 DEF Worker
<1> QED
  BY <1>10, <1>12, <1>18, <1>19, <1>20, <1>21, <1>22 DEF Next

\* maybeCompleteBroadcast fires once, when no job is left, and no later step
\* opens a job of a completed broadcast.
LEMMA CompletionStep ==
  TypeOK /\ WorkerOK /\ CompletionOK /\ [Next]_vars => CompletionOK'
<1> SUFFICES ASSUME TypeOK, WorkerOK, CompletionOK, [Next]_vars PROVE CompletionOK'
  OBVIOUS
<1> DEFINE Open(state) == state \in {"pending", "dispatching"}
<1>1. ASSUME UNCHANGED completions,
             \A b \in Broadcasts : (broadcast'[b] = "completed") <=> (broadcast[b] = "completed"),
             \A k \in Keys : broadcast[k[1]] = "completed" /\ Open(job'[k]) => Open(job[k])
      PROVE  CompletionOK'
  BY <1>1, JobsAreKeys DEF CompletionOK
<1>2. ASSUME NEW b \in Broadcasts, MaybeComplete(b), UNCHANGED job PROVE CompletionOK'
  <2>1. CASE UNCHANGED owners
    BY <1>1, <1>2, <2>1 DEF owners
  <2>2. CASE /\ Outstanding(b) = {} /\ broadcast[b] = "queued"
             /\ broadcast' = [broadcast EXCEPT ![b] = "completed"]
             /\ completions' = [completions EXCEPT ![b] = @ + 1]
    <3>1. \A k \in Jobs(b) : job[k] \notin {"pending", "dispatching"}
      BY <2>2 DEF Outstanding
    <3>2. completions[b] = 0
      BY <2>2 DEF CompletionOK
    <3> QED
      BY <1>2, <2>2, <3>1, <3>2, JobsAreKeys DEF TypeOK, CompletionOK
  <2> QED
    BY <1>2, <2>1, <2>2 DEF MaybeComplete
<1>3. ASSUME at \in Keys, job[at] = "dispatching", UNCHANGED owners,
             NEW state \in JobStates, job' = [job EXCEPT ![at] = state]
      PROVE  CompletionOK'
  BY <1>1, <1>3 DEF TypeOK, owners
<1>4. ASSUME NEW b \in Broadcasts, CreateBroadcast(b) PROVE CompletionOK'
  BY <1>1, <1>4, CreateEffect DEF CreateBroadcast, TypeOK
<1>5. ASSUME NEW b \in Broadcasts, PauseBroadcast(b) \/ ResumeBroadcast(b) PROVE CompletionOK'
  BY <1>1, <1>5 DEF PauseBroadcast, ResumeBroadcast, TypeOK, queue
<1>6. ASSUME NEW b \in Broadcasts, CancelBroadcast(b) PROVE CompletionOK'
  BY <1>1, <1>6 DEF CancelBroadcast, CancelPending, TypeOK
<1>7. ASSUME NEW c \in Contacts, DeleteContact(c) PROVE CompletionOK'
  BY <1>1, <1>7 DEF DeleteContact, CancelPending, owners
<1>8. ASSUME NEW b \in Broadcasts, CheckAudience(b) PROVE CompletionOK'
  <2>1. CASE MaybeComplete(b)
    BY <1>2, <1>8, <2>1 DEF CheckAudience, queue
  <2>2. CASE UNCHANGED owners
    BY <1>1, <1>8, <2>2 DEF CheckAudience, queue, owners
  <2> QED
    BY <1>8, <2>1, <2>2 DEF CheckAudience
<1>9. CASE CompleteBroadcast
  <2>1. at[1] \in Broadcasts
    BY <1>9 DEF CompleteBroadcast, WorkerOK, Keys
  <2> QED
    BY <1>2, <1>9, <2>1 DEF CompleteBroadcast, queue
<1>10. CASE StartTick
  BY <1>1, <1>10 DEF StartTick, ExpireLeases, owners
<1>11. ASSUME NEW k \in Keys, Claim(k) PROVE CompletionOK'
  BY <1>1, <1>11 DEF Claim, TypeOK, owners
<1>12. ASSUME pc \in Holding PROVE at \in Keys /\ job[at] = "dispatching"
  BY <1>12 DEF WorkerOK, Holding
<1>13. CASE RunJob
  <2>1. at \in Keys /\ job[at] = "dispatching"
    BY <1>12, <1>13 DEF RunJob, Holding, Steps
  <2> QED
    BY <1>1, <1>3, <1>13, <2>1 DEF RunJob, FinishJob, RetryJob, JobStates, owners, queue
<1>14. CASE \/ CheckGates \/ CheckConsent \/ LoseRead \/ Prepare
            \/ Reserve \/ LoseFrozenMessage \/ Finish
  <2>1. at \in Keys /\ job[at] = "dispatching"
    BY <1>12, <1>14
       DEF CheckGates, CheckConsent, LoseRead, Prepare, Reserve, LoseFrozenMessage, Finish,
           Holding, Steps
  <2>2. \/ UNCHANGED <<owners, job>>
        \/ UNCHANGED owners /\ RetryJob
        \/ UNCHANGED owners /\ \E state \in SettledJobs : FinishJob(state)
    BY <1>14 DEF CheckGates, CheckConsent, LoseRead, Prepare, Reserve, LoseFrozenMessage, Finish,
                 Return, JobAfterSend, SettledJobs, queue
  <2> QED
    BY <1>1, <1>3, <2>1, <2>2 DEF FinishJob, RetryJob, SettledJobs, JobStates, owners
<1>15. ASSUME UNCHANGED <<owners, job>> PROVE CompletionOK'
  BY <1>1, <1>15 DEF owners
<1>16. ASSUME NEW retire \in BOOLEAN, NEW newPolicy \in BOOLEAN, Deploy(retire, newPolicy)
       PROVE  CompletionOK'
  BY <1>15, <1>16 DEF Deploy, queue
<1>17. CASE PauseProject \/ \E stop \in {"project", "installation"} : Resume(stop)
  BY <1>15, <1>17 DEF PauseProject, Resume, queue
<1>18. ASSUME NEW c \in Contacts, NEW wide \in BOOLEAN, Confirm(c) \/ Unsubscribe(c, wide)
       PROVE  CompletionOK'
  BY <1>15, <1>18 DEF Confirm, Unsubscribe, queue
<1>19. ASSUME NEW k \in Keys, NEW kind \in FeedbackKinds, Feedback(k, kind) PROVE CompletionOK'
  BY <1>15, <1>19 DEF Feedback, queue
<1>25. ASSUME NEW k \in Keys, Elapse(k) PROVE CompletionOK'
  BY <1>15, <1>25 DEF Elapse
<1>20. CASE EndTick \/ Record \/ OpenCircuit \/ \E o \in SendOutcomes : Send(o)
  BY <1>15, <1>20 DEF EndTick, Record, OpenCircuit, Send, queue
<1>21. CASE FailTick \/ Crash \/ UNCHANGED vars
  BY <1>15, <1>21 DEF FailTick, Crash, vars, queue
<1>22. CASE Operators
  BY <1>4, <1>5, <1>6, <1>16, <1>17, <1>22 DEF Operators
<1>23. CASE Recipients
  BY <1>7, <1>18, <1>19, <1>23 DEF Recipients
<1>24. CASE Worker
  BY <1>9, <1>10, <1>11, <1>13, <1>14, <1>20, <1>24 DEF Worker
<1> QED
  BY <1>8, <1>21, <1>22, <1>23, <1>24, <1>25 DEF Next

-----------------------------------------------------------------------------
(* The theorems. *)

\* The invariant is inductive: no operator call, recipient action, worker step,
\* failed Tick or crash leads out of it.
THEOREM Inductive == Spec => []IInv
<1>1. IInv /\ [Next]_vars => IInv'
  BY TypeStep, WorkerStep, RowStep, CopyStep, LateStep, CompletionStep DEF IInv
<1> QED
  BY InitIInv, <1>1, PTL DEF Spec

\* The variables keep their types: every job, delivery and worker state the code
\* writes is one the code knows.
THEOREM TypeCorrect == Spec => []TypeOK
<1>1. IInv => TypeOK
  BY DEF IInv
<1> QED
  BY <1>1, Inductive, PTL

\* A recipient gets at most one copy of a broadcast, whatever fails or dies
\* (reserveDelivery, classified, recordSMTPResult, the lease UPDATE of Tick).
THEOREM OneCopy == Spec => []AtMostOneCopy
<1>1. IInv => AtMostOneCopy
  BY DEF IInv, CopyOK, AtMostOneCopy
<1> QED
  BY <1>1, Inductive, PTL

\* After a stop at most the attempt already committed goes out: the transaction
\* of reserveDelivery is the last gate.
THEOREM LastAttempt == Spec => []StopLetsOneAttemptOut
<1>1. IInv => StopLetsOneAttemptOut
  BY DEF IInv, LateOK, StopLetsOneAttemptOut
<1> QED
  BY <1>1, Inductive, PTL

\* A completed broadcast emitted broadcast.completed once and has no job left, in
\* the queue or in the worker's hands (maybeCompleteBroadcast).
THEOREM Completion == Spec => []CompletionIsFinal
<1>1. IInv => CompletionIsFinal
  <2> SUFFICES ASSUME IInv, NEW b \in Broadcasts, broadcast[b] = "completed",
                      pc \notin {"idle", "claim", "complete"}, at[1] = b
               PROVE  FALSE
    BY DEF IInv, CompletionOK, CompletionIsFinal
  <2>1. at \in Keys /\ job[at] = "dispatching"
    BY DEF IInv, TypeOK, WorkerOK, Holding
  <2>2. at \in Jobs(b)
    BY <2>1, JobsAreKeys
  <2> QED
    BY <2>1, <2>2 DEF IInv, CompletionOK
<1> QED
  BY <1>1, Inductive, PTL

\* A job reported complete handed its mail over (the end of dispatch, and
\* reserveDelivery refusing a row that is already closed).
THEOREM HandedOver == Spec => []CompleteMeansHandedOver
<1>1. IInv => CompleteMeansHandedOver
  BY DEF IInv, RowOK, CompleteMeansHandedOver
<1> QED
  BY <1>1, Inductive, PTL

\* A job reported cancelled sent nothing (every cancelling UPDATE and finishJob).
THEOREM Unsent == Spec => []CancelledMeansUnsent
<1>1. IInv => CancelledMeansUnsent
  BY DEF IInv, CopyOK, CancelledMeansUnsent
<1> QED
  BY <1>1, Inductive, PTL

\* What a step does to deliveries, whoever takes it.
LEMMA DeliveryEffect ==
  ASSUME IInv, [Next]_vars
  PROVE  \/ UNCHANGED delivery
         \/ \E k \in Keys, kind \in FeedbackKinds :
              delivery' = [delivery EXCEPT ![k] = AfterFeedback(@, kind)]
         \/ /\ at \in Keys /\ MayReserve(delivery[at])
            /\ delivery' = [delivery EXCEPT ![at] = "dispatching"]
         \/ Record
<1>1. ASSUME NEW k \in Keys, NEW kind \in FeedbackKinds, Feedback(k, kind)
      PROVE  delivery' = [delivery EXCEPT ![k] = AfterFeedback(@, kind)]
  BY <1>1 DEF Feedback
<1>2. CASE Recipients
  BY <1>1, <1>2 DEF Recipients, Confirm, DeleteContact, Unsubscribe
<1>3. CASE Operators
  BY <1>3 DEF Operators, CreateBroadcast, PauseBroadcast, ResumeBroadcast, CancelBroadcast,
              PauseProject, Resume, Deploy
<1>4. CASE Reserve
  BY <1>4 DEF Reserve, Return, IInv, WorkerOK
<1>6. CASE Worker /\ ~Reserve /\ ~Record
  BY <1>6 DEF Worker, StartTick, Claim, EndTick, RunJob, CheckGates, CheckConsent, LoseRead,
              Prepare, LoseFrozenMessage, Send, OpenCircuit, Finish, CompleteBroadcast, Return
<1>7. CASE \E b \in Broadcasts : CheckAudience(b)
  BY <1>7 DEF CheckAudience
<1>8. CASE \/ \E k \in Keys : Elapse(k)
           \/ FailTick \/ Crash \/ UNCHANGED vars
  BY <1>8 DEF Elapse, FailTick, Crash, vars
<1> QED
  BY <1>2, <1>3, <1>4, <1>6, <1>7, <1>8 DEF Next

\* Feedback is never undone by the SMTP result behind it, nor a complaint or a
\* bounce by a later delivered (recordSMTPResult, the CASE of feedback.go).
THEOREM FeedbackStays == Spec => FeedbackSurvives
<1>1. ASSUME IInv, [Next]_vars, NEW k \in Keys
      PROVE  /\ delivery[k] = "complaint" => delivery'[k] = "complaint"
             /\ delivery[k] = "bounce" => delivery'[k] \in {"bounce", "complaint"}
             /\ delivery[k] = "delivered" => delivery'[k] \in FeedbackKinds
  <2>1. delivery \in [Keys -> DeliveryStates]
    BY <1>1 DEF IInv, TypeOK
  <2>2. CASE \E l \in Keys, kind \in FeedbackKinds :
               delivery' = [delivery EXCEPT ![l] = AfterFeedback(@, kind)]
    BY <1>1, <2>1, <2>2 DEF AfterFeedback, FeedbackKinds
  <2>3. CASE at \in Keys /\ MayReserve(delivery[at])
             /\ delivery' = [delivery EXCEPT ![at] = "dispatching"]
    BY <1>1, <2>1, <2>3 DEF MayReserve, FeedbackKinds
  <2>4. CASE Record
    BY <1>1, <2>1, <2>4 DEF Record, AfterSmtp, FeedbackKinds
  <2>5. CASE UNCHANGED delivery
    BY <1>1, <2>5 DEF FeedbackKinds
  <2> QED
    BY <1>1, <2>2, <2>3, <2>4, <2>5, DeliveryEffect
<1>2. IInv /\ [Next]_vars =>
        [\A k \in Keys :
           /\ delivery[k] = "complaint" => delivery'[k] = "complaint"
           /\ delivery[k] = "bounce" => delivery'[k] \in {"bounce", "complaint"}
           /\ delivery[k] = "delivered" => delivery'[k] \in FeedbackKinds]_vars
  BY <1>1
<1> QED
  BY <1>2, Inductive, PTL DEF Spec, FeedbackSurvives

\* No step reopens or rewrites a settled job, not even the unconditional UPDATEs
\* of finishJob and retryJob: the job they name is always the worker's own.
THEOREM SettledStay == Spec => SettledJobsStay
<1>1. ASSUME IInv, [Next]_vars, NEW k \in Keys, job[k] \in SettledJobs PROVE job'[k] = job[k]
  <2>1. job \in [Keys -> JobStates] /\ job[k] \notin {"none", "pending", "dispatching"}
    BY <1>1 DEF IInv, TypeOK, SettledJobs
  <2>2. ASSUME pc \in Holding PROVE at \in Keys /\ job[at] = "dispatching" /\ at /= k
    BY <2>1, <2>2, <1>1 DEF IInv, WorkerOK, Holding
  <2>3. ASSUME NEW b \in Broadcasts, CreateBroadcast(b) PROVE job'[k] = job[k]
    BY <1>1, <2>1, <2>3, CreateEffect DEF IInv
  <2>4. ASSUME NEW keys, CancelPending(keys) PROVE job'[k] = job[k]
    BY <2>1, <2>4 DEF CancelPending
  <2>5. CASE Operators
    BY <2>3, <2>4, <2>5 DEF Operators, PauseBroadcast, ResumeBroadcast, CancelBroadcast,
                            PauseProject, Resume, Deploy, queue
  <2>6. CASE Recipients
    BY <2>4, <2>6 DEF Recipients, Confirm, DeleteContact, Unsubscribe, Feedback, queue
  <2>7. CASE StartTick
    BY <2>1, <2>7 DEF StartTick, ExpireLeases
  <2>8. ASSUME NEW l \in Keys, Claim(l) PROVE job'[k] = job[k]
    BY <2>1, <2>8 DEF Claim
  <2>9. CASE RunJob \/ CheckGates \/ CheckConsent \/ LoseRead \/ Prepare
             \/ Reserve \/ LoseFrozenMessage \/ Finish
    <3>1. at \in Keys /\ at /= k
      BY <2>2, <2>9 DEF RunJob, CheckGates, CheckConsent, LoseRead, Prepare, Reserve,
                        LoseFrozenMessage, Finish, Holding, Steps
    <3>2. job' = job \/ \E state : job' = [job EXCEPT ![at] = state]
      BY <2>9 DEF RunJob, CheckGates, CheckConsent, LoseRead, Prepare, Reserve, LoseFrozenMessage,
                  Finish, Return, RetryJob, FinishJob, queue
    <3> QED
      BY <2>1, <3>1, <3>2
  <2>10. CASE EndTick \/ (\E o \in SendOutcomes : Send(o)) \/ Record \/ OpenCircuit
              \/ CompleteBroadcast
    BY <2>10 DEF EndTick, Send, Record, OpenCircuit, CompleteBroadcast, queue
  <2>11. CASE \/ \E b \in Broadcasts : CheckAudience(b)
              \/ \E l \in Keys : Elapse(l)
              \/ FailTick \/ Crash \/ UNCHANGED vars
    BY <2>11 DEF CheckAudience, Elapse, FailTick, Crash, vars, queue
  <2>12. CASE Worker
    BY <2>7, <2>8, <2>9, <2>10, <2>12 DEF Worker
  <2> QED
    BY <1>1, <2>5, <2>6, <2>11, <2>12 DEF Next
<1>2. IInv /\ [Next]_vars =>
        [\A k \in Keys : job[k] \in SettledJobs => job'[k] = job[k]]_vars
  BY <1>1
<1> QED
  BY <1>2, Inductive, PTL DEF Spec, SettledJobsStay

\* copies changes when mail is handed to SMTP, and then the row stays as it is.
LEMMA CopiesEffect ==
  ASSUME IInv, [Next]_vars
  PROVE  \/ UNCHANGED copies
         \/ /\ UNCHANGED delivery /\ pc = "send" /\ at \in Keys
            /\ \E n \in {0, 1} : copies' = [copies EXCEPT ![at] = @ + n]
<1>1. CASE Recipients
  BY <1>1 DEF Recipients, Confirm, DeleteContact, Unsubscribe, Feedback, history
<1>2. CASE Operators
  BY <1>2 DEF Operators, CreateBroadcast, PauseBroadcast, ResumeBroadcast, CancelBroadcast,
              PauseProject, Resume, Deploy, history
<1>3. ASSUME NEW o \in SendOutcomes, Send(o)
      PROVE  /\ UNCHANGED delivery /\ pc = "send" /\ at \in Keys
             /\ \E n \in {0, 1} : copies' = [copies EXCEPT ![at] = @ + n]
  BY <1>3, SendOutcomesOK DEF Send, IInv, WorkerOK
<1>4. CASE StartTick \/ (\E k \in Keys : Claim(k)) \/ EndTick \/ RunJob \/ CheckGates
           \/ CheckConsent \/ LoseRead \/ Prepare \/ Reserve
  BY <1>4 DEF StartTick, Claim, EndTick, RunJob, CheckGates, CheckConsent, LoseRead, Prepare,
              Reserve, Return, history
<1>5. CASE LoseFrozenMessage \/ Record \/ OpenCircuit \/ Finish \/ CompleteBroadcast
  BY <1>5 DEF LoseFrozenMessage, Record, OpenCircuit, Finish, CompleteBroadcast, Return, history
<1>6. CASE \/ \E b \in Broadcasts : CheckAudience(b)
           \/ \E k \in Keys : Elapse(k)
           \/ FailTick \/ Crash \/ UNCHANGED vars
  BY <1>6 DEF CheckAudience, Elapse, FailTick, Crash, vars, history
<1>7. CASE Worker
  BY <1>3, <1>4, <1>5, <1>7 DEF Worker
<1> QED
  BY <1>1, <1>2, <1>6, <1>7 DEF Next

\* The pipeline implements the ledger: an attempt starts only while no copy is
\* out, and a mail is reopened only after an attempt that left none.
THEOREM Refinement == Spec => ImplementsMailLedger
<1>1. Init => Mail!Init
  BY DEF Init, Mail!Init, Ledger
<1>2. ASSUME IInv, [Next]_vars PROVE [Mail!Next]_<<Ledger, copies>>
  <2> USE DEF Mail!Next, Mail!Attempt, Mail!Take, Mail!Reopen, Mail!Close
  <2>1. delivery \in [Keys -> DeliveryStates] /\ copies \in [Keys -> Nat]
    BY <1>2 DEF IInv, TypeOK
  <2>2. \A k \in Keys : Ledger[k] = IF delivery[k] \in {"none", "transient"} THEN "open"
                                    ELSE IF delivery[k] = "dispatching" THEN "attempted"
                                    ELSE "closed"
    BY DEF Ledger
  <2>3. ASSUME UNCHANGED delivery PROVE UNCHANGED Ledger
    BY <2>3 DEF Ledger
  <2>4. ASSUME NEW k \in Keys, NEW state \in DeliveryStates,
               delivery' = [delivery EXCEPT ![k] = state]
        PROVE  Ledger' = [Ledger EXCEPT ![k] = IF state \in {"none", "transient"} THEN "open"
                                               ELSE IF state = "dispatching" THEN "attempted"
                                               ELSE "closed"]
    BY <2>1, <2>4 DEF Ledger
  <2>5. CASE UNCHANGED <<delivery, copies>>
    BY <2>3, <2>5
  <2>6. CASE \E k \in Keys, kind \in FeedbackKinds :
               delivery' = [delivery EXCEPT ![k] = AfterFeedback(@, kind)]
             /\ UNCHANGED copies
    <3>1. PICK k \in Keys, kind \in FeedbackKinds :
            delivery' = [delivery EXCEPT ![k] = AfterFeedback(delivery[k], kind)]
      BY <2>1, <2>6
    <3>2. AfterFeedback(delivery[k], kind) \in FeedbackKinds
      BY DEF AfterFeedback, FeedbackKinds
    <3>3. Ledger' = [Ledger EXCEPT ![k] = "closed"]
      BY <2>4, <3>1, <3>2 DEF DeliveryStates, FeedbackKinds
    <3>4. CASE Ledger[k] = "closed"
      BY <2>6, <3>3, <3>4 DEF Ledger
    <3>5. CASE Ledger[k] /= "closed"
      BY <2>6, <3>3, <3>5
    <3> QED
      BY <3>4, <3>5
  <2>7. CASE /\ at \in Keys /\ MayReserve(delivery[at]) /\ UNCHANGED copies
             /\ delivery' = [delivery EXCEPT ![at] = "dispatching"]
    <3>1. copies[at] = 0 /\ Ledger[at] = "open"
      BY <1>2, <2>2, <2>7 DEF IInv, CopyOK, MayReserve
    <3>2. Ledger' = [Ledger EXCEPT ![at] = "attempted"]
      BY <2>4, <2>7 DEF DeliveryStates
    <3> QED
      BY <2>7, <3>1, <3>2
  <2>8. CASE Record
    <3>0. CASE UNCHANGED delivery
      BY <2>3, <2>8, <3>0 DEF Record, history
    <3> SUFFICES ASSUME delivery' /= delivery
                 PROVE  [Mail!Next]_<<Ledger, copies>>
      BY <3>0
    <3>1. /\ at \in Keys /\ verdict \in SmtpResults /\ UNCHANGED copies
          /\ delivery' = [delivery EXCEPT ![at] = AfterSmtp(delivery[at], verdict)]
          /\ delivery[at] \in {"dispatching"} \cup FeedbackKinds
          /\ verdict = "transient" => copies[at] = 0
      BY <1>2, <2>8 DEF Record, IInv, WorkerOK, RowOK, CopyOK, history
    <3>2. CASE delivery[at] /= "dispatching"
      BY <2>1, <2>3, <3>1, <3>2 DEF AfterSmtp
    <3>3. CASE delivery[at] = "dispatching" /\ verdict = "transient"
      <4>1. Ledger' = [Ledger EXCEPT ![at] = "open"]
        BY <2>4, <3>1, <3>3 DEF AfterSmtp, DeliveryStates, SmtpResults
      <4> QED
        BY <2>2, <3>1, <3>3, <4>1
    <3>4. CASE delivery[at] = "dispatching" /\ verdict /= "transient"
      <4>1. Ledger' = [Ledger EXCEPT ![at] = "closed"]
        BY <2>4, <3>1, <3>4 DEF AfterSmtp, DeliveryStates, SmtpResults
      <4> QED
        BY <2>2, <3>1, <3>4, <4>1
    <3> QED
      BY <3>2, <3>3, <3>4
  <2>9. CASE /\ UNCHANGED delivery /\ pc = "send" /\ at \in Keys
             /\ \E n \in {0, 1} : copies' = [copies EXCEPT ![at] = @ + n]
    <3>1. copies[at] = 0 /\ Ledger[at] /= "open"
      BY <1>2, <2>2, <2>9 DEF IInv, RowOK, CopyOK, FeedbackKinds
    <3>2. copies' = copies \/ copies' = [copies EXCEPT ![at] = 1]
      <4>1. PICK n \in {0, 1} : copies' = [copies EXCEPT ![at] = copies[at] + n]
        BY <2>9
      <4>2. CASE n = 0
        BY <2>1, <2>9, <3>1, <4>1, <4>2
      <4>3. CASE n = 1
        BY <2>1, <2>9, <3>1, <4>1, <4>3
      <4> QED
        BY <4>2, <4>3
    <3> QED
      BY <2>3, <2>9, <3>1, <3>2
  <2> QED
    BY <1>2, <2>5, <2>6, <2>7, <2>8, <2>9, DeliveryEffect, CopiesEffect
<1> QED
  BY <1>1, <1>2, Inductive, PTL DEF Spec, ImplementsMailLedger, Mail!Spec

\* What a step does to the gates the circle is made of, whoever takes it.
LEMMA GatesEffect ==
  ASSUME [Next]_vars
  PROVE  \/ UNCHANGED <<confirmed, suppressed, deleted>> /\ ("retired" \in stops')
                                                            = ("retired" \in stops)
         \/ \E c \in Contacts :
              Confirm(c) \/ DeleteContact(c) \/ \E wide \in BOOLEAN : Unsubscribe(c, wide)
         \/ \E k \in Keys, kind \in FeedbackKinds : Feedback(k, kind)
         \/ \E retire, newPolicy \in BOOLEAN : Deploy(retire, newPolicy)
<1>1. CASE Operators
  BY <1>1 DEF Operators, CreateBroadcast, PauseBroadcast, ResumeBroadcast, CancelBroadcast,
              PauseProject, Resume, gates
<1>2. CASE Recipients
  BY <1>2 DEF Recipients
<1>3. CASE StartTick \/ (\E k \in Keys : Claim(k)) \/ EndTick \/ RunJob \/ CheckGates
           \/ CheckConsent \/ LoseRead \/ Prepare \/ Reserve
  BY <1>3 DEF StartTick, Claim, EndTick, RunJob, CheckGates, CheckConsent, LoseRead, Prepare,
              Reserve, Return, gates
<1>4. CASE LoseFrozenMessage \/ (\E o \in SendOutcomes : Send(o)) \/ Record \/ OpenCircuit
           \/ Finish \/ CompleteBroadcast
  BY <1>4 DEF LoseFrozenMessage, Send, Record, OpenCircuit, Finish, CompleteBroadcast, Return,
              gates
<1>5. CASE \/ \E b \in Broadcasts : CheckAudience(b)
           \/ \E k \in Keys : Elapse(k)
           \/ FailTick \/ Crash \/ UNCHANGED vars
  BY <1>5 DEF CheckAudience, Elapse, FailTick, Crash, vars, gates
<1> QED
  BY <1>1, <1>2, <1>3, <1>4, <1>5 DEF Next, Worker

\* The pipeline meets consent, suppressions and deployments under the contract: one
\* person joins at a time, nobody barred comes back (Unsubscribe, DeleteContact and
\* Feedback only add to suppressions), and no deployment lets anybody in.
THEOREM AudienceRefinement == Spec => ImplementsAudience
<1> DEFINE Out == suppressed \cup deleted
           Shut == "retired" \in stops
<1>1. Init => Circle!Init
  BY DEF Init, Circle!Init, Willing
<1>2. ASSUME IInv, [Next]_vars PROVE [Circle!Next]_<<Willing, Out, Shut>>
  <2> USE DEF Willing, Circle!Next, Circle!Join, Circle!Leave, Circle!Bar, Circle!Deploy
  <2>0. confirmed \subseteq Contacts
    BY <1>2 DEF IInv, TypeOK
  <2>1. CASE UNCHANGED <<confirmed, suppressed, deleted>> /\ Shut' = Shut
    BY <2>1
  <2>2. ASSUME NEW c \in Contacts, Confirm(c) PROVE [Circle!Next]_<<Willing, Out, Shut>>
    <3>1. Out' = Out /\ Shut' = Shut /\ confirmed' = confirmed \cup {c}
      BY <2>2 DEF Confirm
    <3>2. CASE c \in suppressed
      BY <3>1, <3>2
    <3>3. CASE c \notin suppressed
      <4>1. c \notin Willing \cup Out /\ Willing' = Willing \cup {c}
        BY <2>2, <3>1, <3>3 DEF Confirm
      <4> QED
        BY <3>1, <4>1
    <3> QED
      BY <3>2, <3>3
  <2>3. ASSUME NEW c \in Contacts, Shut' = Shut, Out' = Out \cup {c},
               confirmed' \in {confirmed, confirmed \ {c}}
        PROVE  [Circle!Next]_<<Willing, Out, Shut>>
    <3>1. Willing' = Willing \ {c}
      BY <2>3
    <3>2. CASE c \in Out
      BY <2>3, <3>1, <3>2
    <3>3. CASE c \notin Out
      BY <2>3, <3>1, <3>3
    <3> QED
      BY <3>2, <3>3
  <2>4. ASSUME NEW c \in Contacts, DeleteContact(c) PROVE [Circle!Next]_<<Willing, Out, Shut>>
    BY <2>3, <2>4 DEF DeleteContact
  <2>5. ASSUME NEW c \in Contacts, NEW wide \in BOOLEAN, Unsubscribe(c, wide)
        PROVE  [Circle!Next]_<<Willing, Out, Shut>>
    <3>1. CASE wide
      BY <2>3, <2>5, <3>1 DEF Unsubscribe
    <3>2. CASE ~wide
      <4>1. Out' = Out /\ Shut' = Shut /\ Willing' = Willing \ {c}
        BY <2>5, <3>2 DEF Unsubscribe
      <4>2. CASE c \in Willing
        BY <4>1, <4>2
      <4>3. CASE c \notin Willing
        BY <4>1, <4>3
      <4> QED
        BY <4>2, <4>3
    <3> QED
      BY <3>1, <3>2
  <2>6. ASSUME NEW k \in Keys, NEW kind \in FeedbackKinds, Feedback(k, kind)
        PROVE  [Circle!Next]_<<Willing, Out, Shut>>
    <3>1. k[2] \in Contacts
      BY DEF Keys
    <3>2. confirmed' = confirmed /\ Shut' = Shut
      BY <2>6 DEF Feedback
    <3>3. Out' = Out \/ Out' = Out \cup {k[2]}
      BY <2>6 DEF Feedback
    <3>4. CASE Out' = Out
      BY <3>2, <3>4
    <3> QED
      BY <2>3, <3>1, <3>2, <3>3, <3>4
  <2>7. ASSUME NEW retire \in BOOLEAN, NEW newPolicy \in BOOLEAN, Deploy(retire, newPolicy)
        PROVE  [Circle!Next]_<<Willing, Out, Shut>>
    <3>1. /\ Shut' = retire /\ Out' = Out
          /\ Willing' = IF newPolicy THEN {} ELSE Willing
      BY <2>7 DEF Deploy
    <3> QED
      BY <3>1
  <2> QED
    BY <1>2, <2>1, <2>2, <2>4, <2>5, <2>6, <2>7, GatesEffect
<1> QED
  BY <1>1, <1>2, Inductive, PTL DEF Spec, ImplementsAudience, Circle!Spec, Circle!circle

\* Work that is neither settled nor dropped is still there after the step.
LEMMA WorkKept ==
  ASSUME NEW b \in Broadcasts, HasWork(b),
         \A k \in Jobs(b) : job'[k] = job[k] \/ job'[k] \in {"pending", "dispatching"},
         b \in handlers => b \in handlers',
         pc \notin {"idle", "claim"} /\ at[1] = b =>
           pc' \notin {"idle", "claim"} /\ at'[1] = b
  PROVE  HasWork(b)'
<1>1. ASSUME NEW k \in Outstanding(b) PROVE k \in Outstanding(b)'
  BY <1>1 DEF Outstanding
<1> QED
  BY <1>1 DEF HasWork

\* The look at the remaining jobs completes the broadcast, or finds one.
LEMMA LookFindsWork ==
  ASSUME IInv, NEW b \in Broadcasts, MaybeComplete(b), UNCHANGED job, broadcast'[b] = "queued"
  PROVE  HasWork(b)'
<1>1. broadcast[b] = "queued" /\ completions[b] = 0
  BY DEF MaybeComplete, IInv, TypeOK, CompletionOK, owners
<1>2. Outstanding(b) /= {}
  BY <1>1 DEF MaybeComplete, IInv, TypeOK
<1>3. Outstanding(b)' = Outstanding(b)
  BY DEF Outstanding
<1> QED
  BY <1>2, <1>3 DEF HasWork

\* The steps by which a broadcast becomes queued: its creation and its resumption.
LEMMA QueuedEffect ==
  ASSUME IInv, [Next]_vars, NEW b \in Broadcasts, broadcast'[b] = "queued", broadcast[b] /= "queued"
  PROVE  CreateBroadcast(b) \/ broadcast[b] = "paused"
<1> USE DEF owners, IInv, TypeOK
<1>1. CASE Operators
  BY <1>1 DEF Operators, CreateBroadcast, PauseBroadcast, ResumeBroadcast, CancelBroadcast,
              PauseProject, Resume, Deploy
<1>2. CASE Recipients
  BY <1>2 DEF Recipients, Confirm, DeleteContact, Unsubscribe, Feedback
<1>3. CASE StartTick \/ (\E k \in Keys : Claim(k)) \/ EndTick \/ RunJob \/ CheckGates
           \/ CheckConsent \/ LoseRead \/ Prepare \/ Reserve
  BY <1>3 DEF StartTick, Claim, EndTick, RunJob, CheckGates, CheckConsent, LoseRead, Prepare,
              Reserve, Return
<1>4. CASE LoseFrozenMessage \/ (\E o \in SendOutcomes : Send(o)) \/ Record \/ OpenCircuit
           \/ Finish \/ CompleteBroadcast
  BY <1>4 DEF LoseFrozenMessage, Send, Record, OpenCircuit, Finish, CompleteBroadcast, Return,
              MaybeComplete
<1>5. CASE \/ \E l \in Broadcasts : CheckAudience(l)
           \/ \E k \in Keys : Elapse(k)
           \/ FailTick \/ Crash \/ UNCHANGED vars
  BY <1>5 DEF CheckAudience, MaybeComplete, Elapse, FailTick, Crash, vars
<1> QED
  BY <1>1, <1>2, <1>3, <1>4, <1>5 DEF Next, Worker

\* While a broadcast is queued, every step but the named accidents leaves it a job, a
\* handler or the worker: runJob looks for the remaining jobs after each one it
\* settled, doEvents after its transaction (maybeCompleteBroadcast).
THEOREM StrandedOnlyByAccident == Spec => StrandedByAccident
<1> DEFINE Accident(b) ==
      \/ broadcast[b] = "paused"
      \/ pc = "idle" /\ pc' = "claim"
      \/ deleted' /= deleted
      \/ pc = "run" /\ pc' = "claim"
      \/ pc = "complete" /\ pc' = "idle"
      \/ b \in handlers \ handlers' /\ budget' < budget
<1>1. ASSUME IInv, [Next]_vars, NEW b \in Broadcasts, ~Stranded(b), Stranded(b)', ~Accident(b)
      PROVE  FALSE
  <2>1. broadcast'[b] = "queued" /\ ~HasWork(b)'
    BY <1>1 DEF Stranded
  <2>2. ASSUME NEW c \in Broadcasts, CreateBroadcast(c) PROVE FALSE
    <3>1. /\ handlers' = handlers \cup {c} /\ UNCHANGED <<pc, at>>
          /\ broadcast' = [broadcast EXCEPT ![c] = "queued"]
      BY <2>2 DEF CreateBroadcast, worker
    <3>2. CASE c = b
      BY <2>1, <3>1, <3>2 DEF HasWork
    <3>3. CASE c /= b
      <4>1. broadcast[b] = "queued" /\ HasWork(b)
        BY <1>1, <2>1, <3>1, <3>3 DEF Stranded, IInv, TypeOK
      <4>2. \A k \in Jobs(b) : job'[k] = job[k] \/ job'[k] \in {"pending", "dispatching"}
        BY <1>1, <2>2, CreateEffect, JobsAreKeys DEF IInv
      <4> QED
        BY <2>1, <3>1, <4>1, <4>2, WorkKept
    <3> QED
      BY <3>2, <3>3
  <2>3. broadcast[b] = "queued" /\ HasWork(b)
    BY <1>1, <2>1, <2>2, QueuedEffect DEF Stranded
  <2>4. ASSUME \A k \in Jobs(b) : job'[k] = job[k] \/ job'[k] \in {"pending", "dispatching"},
               b \in handlers => b \in handlers',
               pc \notin {"idle", "claim"} /\ at[1] = b =>
                 pc' \notin {"idle", "claim"} /\ at'[1] = b
        PROVE  FALSE
    BY <2>1, <2>3, <2>4, WorkKept
  <2>5. ASSUME NEW c \in Broadcasts,
               PauseBroadcast(c) \/ ResumeBroadcast(c) \/ CancelBroadcast(c)
        PROVE  FALSE
    <3>1. UNCHANGED <<handlers, pc, at>>
      BY <2>5 DEF PauseBroadcast, ResumeBroadcast, CancelBroadcast, worker
    <3>2. CASE UNCHANGED job
      BY <2>4, <3>1, <3>2
    <3>3. CASE CancelBroadcast(c)
      <4>1. c /= b
        BY <1>1, <2>1, <3>3 DEF CancelBroadcast, IInv, TypeOK
      <4>2. \A k \in Jobs(b) : job'[k] = job[k]
        BY <3>3, <4>1, JobsAreKeys DEF CancelBroadcast, CancelPending
      <4> QED
        BY <2>4, <3>1, <4>2
    <3> QED
      BY <2>5, <3>2, <3>3 DEF PauseBroadcast, ResumeBroadcast, queue
  <2>6. CASE Operators
    <3>1. CASE \/ PauseProject \/ \E stop \in {"project", "installation"} : Resume(stop)
               \/ \E retire, newPolicy \in BOOLEAN : Deploy(retire, newPolicy)
      <4>1. UNCHANGED <<job, handlers, pc, at>>
        BY <3>1 DEF PauseProject, Resume, Deploy, queue, worker
      <4> QED
        BY <2>4, <4>1
    <3> QED
      BY <2>2, <2>5, <2>6, <3>1 DEF Operators
  <2>7. CASE Recipients
    <3>1. \A c \in Contacts : ~DeleteContact(c)
      BY <1>1 DEF DeleteContact
    <3>2. UNCHANGED <<job, handlers, pc, at>>
      BY <2>7, <3>1 DEF Recipients, Confirm, Unsubscribe, Feedback, queue, worker
    <3> QED
      BY <2>4, <3>2
  <2>8. ASSUME NEW c \in Broadcasts, CheckAudience(c) PROVE FALSE
    <3>1. CASE c = b
      <4>1. CASE MaybeComplete(b)
        BY <1>1, <2>1, <2>8, <3>1, <4>1, LookFindsWork DEF CheckAudience, queue
      <4>2. CASE Disturb
        BY <1>1, <2>8, <3>1, <4>2, ConstantsOK DEF CheckAudience, Disturb, IInv, TypeOK
      <4> QED
        BY <2>8, <3>1, <4>1, <4>2 DEF CheckAudience
    <3>2. CASE c /= b
      <4>1. handlers' = handlers \ {c} /\ UNCHANGED <<job, pc, at>>
        BY <2>8 DEF CheckAudience, queue, worker
      <4> QED
        BY <2>4, <3>2, <4>1
    <3> QED
      BY <3>1, <3>2
  <2>9. ASSUME NEW k \in Keys, Elapse(k) PROVE FALSE
    BY <2>4, <2>9 DEF Elapse, worker
  <2>10. CASE StartTick
    BY <1>1, <2>10 DEF StartTick, Goto
  <2>11. ASSUME NEW k \in Keys, Claim(k) PROVE FALSE
    <3>1. \A l \in Jobs(b) : job'[l] = job[l] \/ job'[l] = "dispatching"
      BY <1>1, <2>11, JobsAreKeys DEF Claim, IInv, TypeOK
    <3> QED
      BY <2>4, <2>11, <3>1 DEF Claim
  <2>12. CASE EndTick
    BY <2>4, <2>12 DEF EndTick, queue
  <2>13. ASSUME pc \in Holding, pc' \notin {"idle", "claim"}, UNCHANGED <<at, handlers>>,
                job' = job \/ \E state : job' = [job EXCEPT ![at] = state]
         PROVE  FALSE
    <3>1. CASE at[1] = b
      BY <2>1, <2>13, <3>1 DEF HasWork
    <3>2. CASE at[1] /= b
      <4>1. \A k \in Jobs(b) : job'[k] = job[k]
        BY <1>1, <2>13, <3>2, JobsAreKeys DEF IInv, TypeOK
      <4> QED
        BY <2>4, <2>13, <3>2, <4>1
    <3> QED
      BY <3>1, <3>2
  <2>14. CASE RunJob \/ LoseRead
    BY <1>1, <2>13, <2>14 DEF RunJob, LoseRead, Return, RetryJob, FinishJob, Release, Goto, queue,
                              Holding, Steps
  <2>15. CASE CheckGates \/ CheckConsent \/ Prepare \/ Reserve
    BY <2>13, <2>15 DEF CheckGates, CheckConsent, Prepare, Reserve, Return, RetryJob, FinishJob,
                        Goto, queue, Holding, Steps
  <2>16. CASE LoseFrozenMessage \/ (\E o \in SendOutcomes : Send(o)) \/ Record \/ OpenCircuit
              \/ Finish
    BY <2>13, <2>16 DEF LoseFrozenMessage, Send, Record, OpenCircuit, Finish, Return, RetryJob,
                        FinishJob, Goto, queue, Holding, Steps
  <2>17. CASE CompleteBroadcast
    <3>1. UNCHANGED <<job, handlers>> /\ MaybeComplete(at[1])
      BY <2>17 DEF CompleteBroadcast, queue
    <3>2. CASE at[1] = b
      BY <1>1, <2>1, <3>1, <3>2, LookFindsWork
    <3>3. CASE at[1] /= b
      BY <2>4, <3>1, <3>3
    <3> QED
      BY <3>2, <3>3
  <2>18. CASE Worker
    BY <2>10, <2>11, <2>12, <2>14, <2>15, <2>16, <2>17, <2>18 DEF Worker
  <2>19. CASE FailTick \/ Crash
    <3>1. UNCHANGED job /\ (b \in handlers => b \in handlers') /\ pc' = "idle"
      BY <1>1, <2>19, ConstantsOK DEF FailTick, Crash, Goto, Disturb, queue, IInv, TypeOK
    <3>2. CASE pc \notin {"idle", "claim"} /\ at[1] = b
      <4>1. pc \in Holding
        BY <1>1, <3>1, <3>2 DEF Holding, IInv, TypeOK
      <4>2. at \in Jobs(b) /\ job[at] = "dispatching"
        BY <1>1, <3>2, <4>1, JobsAreKeys DEF IInv, WorkerOK
      <4>3. at \in Outstanding(b)'
        BY <3>1, <4>2 DEF Outstanding
      <4> QED
        BY <2>1, <4>3 DEF HasWork
    <3> QED
      BY <2>4, <3>1, <3>2
  <2>20. CASE UNCHANGED vars
    BY <2>4, <2>20 DEF vars, queue, worker
  <2> QED
    BY <1>1, <2>6, <2>7, <2>8, <2>9, <2>18, <2>19, <2>20 DEF Next
<1>2. IInv /\ [Next]_vars =>
        [\A b \in Broadcasts : ~Stranded(b) /\ Stranded(b)' => Accident(b)]_vars
  BY <1>1
<1> QED
  BY <1>2, Inductive, PTL DEF Spec, StrandedByAccident

=============================================================================
