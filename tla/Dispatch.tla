------------------------------ MODULE Dispatch ------------------------------
(***************************************************************************)
(* The dispatch pipeline for broadcasts: a project event freezes an        *)
(* audience into one job per contact; the worker (Engine.Tick, one at a    *)
(* time) claims due jobs, checks the recipient, reserves a delivery        *)
(* intent, hands the mail to SMTP and records the result.  Every database  *)
(* statement or transaction is one step; operators, contacts and the mail  *)
(* provider act between any two of them, and the process may die between   *)
(* any two of them.                                                        *)
(*                                                                         *)
(* A row of jobs and a row of deliveries are both identified by the pair   *)
(* <<broadcast, contact>>.  Times are abstracted to whether they lie       *)
(* before the clock reading the current Tick works with.                   *)
(***************************************************************************)
EXTENDS Naturals, FiniteSets, DeliveryRules

CONSTANTS
  Broadcasts,        \* broadcasts of one project, all to the same list
  Contacts,          \* contacts of that project
  NoKey,             \* the worker holds no job
  CircuitThreshold,  \* transient deliveries that open the circuit (5 in the code)
  MaxDisturbances    \* bound: pauses, refusals, crashes, failures per behaviour

Keys == Broadcasts \X Contacts

ASSUME ConstantsOK ==
  /\ NoKey \notin Keys
  /\ CircuitThreshold \in Nat \ {0}
  /\ MaxDisturbances \in Nat

VARIABLES
  confirmed,      \* contacts whose consent row for the list is confirmed
  suppressed,     \* contacts whose address is in suppressions
  deleted,        \* contacts with deleted_at set
  stops,          \* the flags now set: "retired" is lists.retired of the list,
                  \* "project" projects.paused, "installation" the recovery and
                  \* outbound_paused bits, which are set and cleared together
  broadcast,      \* broadcasts.state, "none" before the row exists
  completions,    \* broadcast.completed rows in the outbox
  job,            \* jobs.state
  due,            \* jobs whose run_at (pending) or lease_until (dispatching) has passed
  delivery,       \* deliveries.state
  pc,             \* where the worker is
  at,             \* the job it holds
  verdict,        \* what reserveDelivery, Send or recordSMTPResult told it
  handlers,       \* doEvents calls that committed and have yet to look for an empty audience
  copies,         \* history: copies of the mail the next server took
  lateSends,      \* history: attempts made since the recipient was last deliverable
  budget          \* disturbances left

gates   == <<confirmed, suppressed, deleted, stops>>
owners  == <<broadcast, completions>>
queue   == <<job, due>>
worker  == <<pc, at, verdict>>
history == <<copies, lateSends>>
vars == <<gates, owners, queue, delivery, worker, handlers, history, budget>>

Steps == {"idle", "claim", "run", "gates", "consent", "prepare", "reserve",
          "send", "record", "circuit", "finish", "complete"}

TypeOK ==
  /\ confirmed \subseteq Contacts
  /\ suppressed \subseteq Contacts
  /\ deleted \subseteq Contacts
  /\ stops \subseteq {"retired", "project", "installation"}
  /\ broadcast \in [Broadcasts -> {"none", "queued", "paused", "cancelled", "completed"}]
  /\ completions \in [Broadcasts -> Nat]
  /\ job \in [Keys -> JobStates]
  /\ due \subseteq Keys
  /\ delivery \in [Keys -> DeliveryStates]
  /\ pc \in Steps
  /\ at \in Keys \cup {NoKey}
  /\ verdict \in {"new", "retry"} \cup DeliveryStates
  /\ handlers \subseteq Broadcasts
  /\ copies \in [Keys -> Nat]
  /\ lateSends \in [Keys -> Nat]
  /\ budget \in 0..MaxDisturbances

Init ==
  /\ confirmed \in SUBSET Contacts
  /\ suppressed = {} /\ deleted = {} /\ stops = {}
  /\ broadcast = [b \in Broadcasts |-> "none"]
  /\ completions = [b \in Broadcasts |-> 0]
  /\ job = [k \in Keys |-> "none"] /\ due = {}
  /\ delivery = [k \in Keys |-> "none"]
  /\ pc = "idle" /\ at = NoKey /\ verdict = "none"
  /\ handlers = {}
  /\ copies = [k \in Keys |-> 0]
  /\ lateSends = [k \in Keys |-> 0]
  /\ budget = MaxDisturbances

-----------------------------------------------------------------------------
(* Helpers *)

\* The WHERE clause of the final eligibility query in reserveDelivery, with the
\* queued check in front of it.
EligibleIgnoringPause(k) ==
  /\ broadcast[k[1]] = "queued"
  /\ k[2] \in confirmed \ (deleted \cup suppressed)
  /\ "retired" \notin stops

Eligible(k) ==
  /\ broadcast[k[1]] = "queued"
  /\ k[2] \in confirmed \ (deleted \cup suppressed)
  /\ stops = {}

\* What "may be mailed now" means to a recipient and an operator.
Deliverable(k) ==
  /\ broadcast[k[1]] = "queued"
  /\ k[2] \in confirmed
  /\ "retired" \notin stops
  /\ k[2] \notin deleted
  /\ k[2] \notin suppressed
  /\ stops \cap {"project", "installation"} = {}

Paused == stops \cap {"project", "installation"} /= {}

Jobs(b) == {b} \X Contacts

\* jobs of b that are pending or dispatching
OutstandingInQueue(b) == {k \in Jobs(b) : job[k] = "pending"}
Outstanding(b) == {k \in Jobs(b) : job[k] \in {"pending", "dispatching"}}

\* The single UPDATE of maybeCompleteBroadcast, with its outbox row.
CompleteOnceMailed(b) ==
  IF Outstanding(b) = {} /\ broadcast[b] = "queued" /\ \E k \in Jobs(b) : job[k] = "complete"
  THEN /\ broadcast' = [broadcast EXCEPT ![b] = "completed"]
       /\ completions' = [completions EXCEPT ![b] = @ + 1]
  ELSE UNCHANGED owners
MaybeComplete(b) ==
  IF Outstanding(b) = {} /\ broadcast[b] = "queued" /\ completions[b] = 0
  THEN /\ broadcast' = [broadcast EXCEPT ![b] = "completed"]
       /\ completions' = [completions EXCEPT ![b] = @ + 1]
  ELSE UNCHANGED owners

Goto(step) == pc' = step

\* Back between two jobs of the same Tick.
Release == Goto("claim") /\ at' = NoKey /\ verdict' = "none"

\* finishJob and retryJob: unconditional on the job's current state.
FinishJob(state) == job' = [job EXCEPT ![at] = state] /\ UNCHANGED due
RetryJob == job' = [job EXCEPT ![at] = "pending"] /\ due' = due \ {at}

\* The bulk updates of jobs: a cancellation takes pending jobs only, a lapsed
\* lease turns a dispatching job uncertain.
CancelPending(keys) ==
  job' = [k \in Keys |-> IF k \in keys /\ job[k] = "pending" THEN "cancelled" ELSE job[k]]
KeepLeases == UNCHANGED job
ExpireLeases ==
  job' = [k \in Keys |-> IF job[k] = "dispatching" /\ k \in due THEN "uncertain" ELSE job[k]]

Disturb == budget > 0 /\ budget' = budget - 1

\* Attempts are counted from the last moment the recipient was deliverable.
Recount == lateSends' = [k \in Keys |-> IF Deliverable(k)' THEN 0 ELSE lateSends[k]]

-----------------------------------------------------------------------------
(* HTTP handlers and the mail provider *)

\* doEvents, a project event: the broadcast row and one pending job per contact
\* that is confirmed, not deleted and not suppressed, in one transaction.
CreateBroadcast(b) ==
  LET audience == {b} \X (confirmed \ (deleted \cup suppressed)) IN
  /\ broadcast[b] = "none"
  /\ broadcast' = [broadcast EXCEPT ![b] = "queued"]
  /\ job' = [k \in Keys |-> IF k \in audience THEN "pending" ELSE job[k]]
  /\ handlers' = handlers \cup {b}
  /\ UNCHANGED <<gates, completions, due, delivery, worker, copies, budget>>
  /\ Recount

\* The tail of doEvents: after its transaction it looks for an empty audience.  Errors
\* of the query and of maybeCompleteBroadcast are dropped, and the request is answered.
CheckAudience(b) ==
  /\ b \in handlers
  /\ handlers' = handlers \ {b}
  /\ \/ MaybeComplete(b) /\ UNCHANGED budget
     \/ Disturb /\ UNCHANGED owners
  /\ UNCHANGED <<gates, queue, delivery, worker, history>>

\* doBroadcasts, pause: queued -> paused.
PauseBroadcast(b) ==
  /\ broadcast[b] = "queued" /\ Disturb
  /\ broadcast' = [broadcast EXCEPT ![b] = "paused"]
  /\ UNCHANGED <<gates, completions, queue, delivery, worker, handlers, history>>

\* doBroadcasts, resume: paused -> queued.
ResumeBroadcast(b) ==
  /\ broadcast[b] = "paused"
  /\ broadcast' = [broadcast EXCEPT ![b] = "queued"]
  /\ UNCHANGED <<gates, completions, queue, delivery, worker, handlers, copies, budget>>
  /\ Recount

\* doBroadcasts, cancel: pending jobs go with it, a dispatching one does not.
CancelBroadcast(b) ==
  /\ broadcast[b] \in {"queued", "paused"}
  /\ broadcast' = [broadcast EXCEPT ![b] = "cancelled"]
  /\ CancelPending(Jobs(b))
  /\ UNCHANGED <<gates, completions, due, delivery, worker, handlers, history, budget>>

\* projects pause and resume; installation resume (it is paused by Open only).
PauseProject ==
  /\ "project" \notin stops /\ Disturb
  /\ stops' = stops \cup {"project"}
  /\ UNCHANGED <<confirmed, suppressed, deleted,
                 owners, queue, delivery, worker, handlers, history>>

Resume(stop) ==
  /\ stop \in stops
  /\ stops' = stops \ {stop}
  /\ UNCHANGED <<confirmed, suppressed, deleted,
                 owners, queue, delivery, worker, handlers, copies, budget>>
  /\ Recount

\* A deployment that drops the list (it is retired), or brings it back; one that
\* changes its policy also moves every confirmed consent back to pending.
Deploy(retire, newPolicy) ==
  /\ newPolicy \/ retire /= ("retired" \in stops)
  /\ stops' = (stops \ {"retired"}) \cup (IF retire THEN {"retired"} ELSE {})
  /\ confirmed' = IF newPolicy THEN {} ELSE confirmed
  /\ IF retire \/ newPolicy THEN Disturb ELSE UNCHANGED budget
  /\ UNCHANGED <<suppressed, deleted,
                 owners, queue, delivery, worker, handlers, copies>>
  /\ Recount

\* consent confirm: its token was deleted with the contact.
Confirm(c) ==
  /\ c \notin confirmed \cup deleted
  /\ confirmed' = confirmed \cup {c}
  /\ UNCHANGED <<suppressed, deleted, stops,
                 owners, queue, delivery, worker, handlers, copies, budget>>
  /\ Recount

\* consent unsubscribe, from the list or project-wide (then also suppressed).
Unsubscribe(c, projectWide) ==
  /\ c \in confirmed \/ (projectWide /\ c \notin suppressed)
  /\ Disturb
  /\ confirmed' = confirmed \ {c}
  /\ suppressed' = IF projectWide THEN suppressed \cup {c} ELSE suppressed
  /\ UNCHANGED <<deleted, stops,
                 owners, queue, delivery, worker, handlers, history>>

\* contacts delete: suppressed for good, its pending jobs cancelled.
DeleteContact(c) ==
  /\ c \notin deleted /\ Disturb
  /\ deleted' = deleted \cup {c}
  /\ suppressed' = suppressed \cup {c}
  /\ CancelPending(Broadcasts \X {c})
  /\ UNCHANGED <<confirmed, stops,
                 owners, due, delivery, worker, handlers, history>>

\* Feedback about an existing delivery.  A complaint pauses the project, a
\* bounce does when the bounce rate is high enough (either way here).
Feedback(k, kind) ==
  /\ delivery[k] /= "none" /\ k[2] \notin deleted /\ Disturb
  /\ delivery' = [delivery EXCEPT ![k] = AfterFeedback(@, kind)]
  /\ suppressed' = IF kind = "delivered" THEN suppressed ELSE suppressed \cup {k[2]}
  /\ \/ kind \in {"complaint", "bounce"} /\ stops' = stops \cup {"project"}
     \/ kind \in {"delivered", "bounce"} /\ UNCHANGED stops
  /\ UNCHANGED <<confirmed, deleted,
                 owners, queue, worker, handlers, history>>

-----------------------------------------------------------------------------
(* The worker *)

\* Time passes a job's run_at or lease_until, as the next Tick will see it: a
\* Tick reads the clock once, when it starts.
Elapse(k) ==
  /\ pc = "idle" /\ k \notin due /\ job[k] \in {"pending", "dispatching"}
  /\ due' = due \cup {k}
  /\ UNCHANGED <<gates, owners, job, delivery, worker, handlers, history, budget>>

\* Tick: nothing while the installation is paused; then an expired lease means an
\* earlier Tick died with the job, whose mail may be out.  The Tick goes on when that
\* UPDATE fails.
StartTick ==
  /\ pc = "idle" /\ "installation" \notin stops
  /\ \/ ExpireLeases /\ UNCHANGED budget
     \/ Disturb /\ UNCHANGED job
  /\ Goto("claim")
  /\ UNCHANGED <<gates, owners, due, delivery, at, verdict, handlers, history>>

\* claimJob: a due pending job is leased (two minutes from the Tick's clock).
Claim(k) ==
  /\ pc = "claim" /\ job[k] = "pending" /\ k \in due
  /\ job' = [job EXCEPT ![k] = "dispatching"]
  /\ due' = due \ {k}
  /\ at' = k
  /\ Goto("run")
  /\ UNCHANGED <<gates, owners, delivery, verdict, handlers, history, budget>>

\* No due job is left, or the Tick has run its 50 jobs (they are not counted here).
EndTick ==
  /\ pc = "claim"
  /\ Goto("idle")
  /\ UNCHANGED <<gates, owners, queue, delivery, at, verdict, handlers, history, budget>>

\* runJob, "broadcast": its first read, and the early returns it leads to.
RunJob ==
  /\ pc = "run"
  /\ \/ broadcast[at[1]] = "queued" /\ Goto("gates") /\ UNCHANGED <<queue, at, verdict>>
     \/ broadcast[at[1]] = "paused" /\ RetryJob /\ Release
     \/ broadcast[at[1]] \notin {"queued", "paused"} /\ FinishJob("cancelled") /\ Release
  /\ UNCHANGED <<gates, owners, delivery, handlers, history, budget>>

\* dispatch returns with the job finished or put back; runJob then tries to
\* complete the broadcast.
Return(settle) ==
  /\ settle
  /\ Goto("complete")
  /\ verdict' = "none"
  /\ UNCHANGED <<gates, owners, delivery, at, handlers, history>>

\* dispatch, first query: the contact exists; nothing is paused.
CheckGates ==
  /\ pc = "gates"
  /\ UNCHANGED budget
  /\ \/ at[2] \in deleted /\ Return(FinishJob("cancelled"))
     \/ at[2] \notin deleted /\ Paused /\ Return(RetryJob)
     \/ /\ at[2] \notin deleted /\ ~Paused
        /\ Goto("consent")
        /\ UNCHANGED <<gates, owners, queue, delivery, at, verdict, handlers, history>>

\* dispatch, early eligibility query: neither the policy nor retirement is asked.
CheckConsent ==
  /\ pc = "consent"
  /\ UNCHANGED budget
  /\ IF at[2] \in confirmed \ suppressed
     THEN /\ Goto("prepare")
          /\ UNCHANGED <<gates, owners, queue, delivery, at, verdict, handlers, history>>
     ELSE Return(FinishJob("cancelled"))

\* The reads of these three steps, and the one of the release, end the job when they
\* fail, as if the row were missing; the Tick goes on.
LoseRead ==
  /\ Disturb
  /\ \/ pc = "run" /\ FinishJob("cancelled") /\ Release
        /\ UNCHANGED <<gates, owners, delivery, handlers, history>>
     \/ pc = "gates" /\ Return(FinishJob("cancelled"))
     \/ pc = "consent" /\ \E end \in {"cancelled", "failed"} : Return(FinishJob(end))

\* Content, artifacts, rendering, transport and rate limit: each can end the
\* attempt (failed), the rate limit puts it back.
Prepare ==
  /\ pc = "prepare"
  /\ \/ UNCHANGED budget /\ Return(FinishJob("failed"))
     \/ Disturb /\ Return(RetryJob)
     \/ /\ Goto("reserve")
        /\ UNCHANGED <<gates, owners, queue, delivery, at, verdict, handlers, history, budget>>

\* reserveDelivery: eligibility and the intent in one transaction.
Reserve ==
  /\ pc = "reserve"
  /\ UNCHANGED budget
  /\ \/ ~Eligible(at) /\ Return(FinishJob("cancelled"))
     \/ Eligible(at) /\ ~MayReserve(delivery[at]) /\ Return(FinishJob("complete"))
     \/ /\ Eligible(at) /\ MayReserve(delivery[at])
        /\ verdict' = IF delivery[at] = "none" THEN "new" ELSE "retry"
        /\ delivery' = [delivery EXCEPT ![at] = "dispatching"]
        /\ Goto("send")
        /\ UNCHANGED <<gates, owners, queue, at, handlers, history>>

\* A retry first reads the frozen message back; if it cannot, no mail is sent.
LoseFrozenMessage ==
  /\ pc = "send" /\ verdict = "retry"
  /\ UNCHANGED budget
  /\ Return(FinishJob("failed"))

\* sender.Send.
Send(o) ==
  /\ pc = "send"
  /\ IF o.result = "transient" THEN Disturb ELSE UNCHANGED budget
  /\ copies' = [copies EXCEPT ![at] = @ + o.copy]
  /\ lateSends' = IF Deliverable(at) THEN lateSends ELSE [lateSends EXCEPT ![at] = @ + 1]
  /\ verdict' = o.result
  /\ Goto("record")
  /\ UNCHANGED <<gates, owners, queue, delivery, at, handlers>>

\* recordSMTPResult: a statement that fails leaves the row as it is and counts as
\* uncertain.
Record ==
  /\ pc = "record"
  /\ \/ /\ UNCHANGED budget
        /\ delivery' = [delivery EXCEPT ![at] = AfterSmtp(@, verdict)]
        /\ verdict' = AfterSmtp(delivery[at], verdict)
     \/ Disturb /\ verdict' = "uncertain" /\ UNCHANGED delivery
  /\ Goto(IF verdict' = "transient" THEN "circuit" ELSE "finish")
  /\ UNCHANGED <<gates, owners, queue, at, handlers, history>>

\* maybeOpenCircuit: enough transient deliveries, all of them recent or not.
OpenCircuit ==
  /\ pc = "circuit"
  /\ \/ UNCHANGED stops
     \/ /\ Cardinality({k \in Keys : delivery[k] = "transient"}) >= CircuitThreshold
        /\ stops' = stops \cup {"project"}
  /\ Goto("finish")
  /\ UNCHANGED <<confirmed, suppressed, deleted,
                 owners, queue, delivery, at, verdict, handlers, history, budget>>

\* The end of dispatch: finishJob or retryJob by the recorded state.
Finish ==
  /\ pc = "finish"
  /\ UNCHANGED budget
  /\ Return(IF JobAfterSend(verdict) = "pending" THEN RetryJob
            ELSE FinishJob(JobAfterSend(verdict)))

\* maybeCompleteBroadcast, after dispatch returned.
CompleteBroadcast ==
  /\ pc = "complete"
  /\ MaybeComplete(at[1])
  /\ Release
  /\ UNCHANGED <<gates, queue, delivery, handlers, history, budget>>

\* A database error or a cancelled context ends the Tick wherever it is.
FailTick ==
  /\ pc /= "idle" /\ Disturb
  /\ Goto("idle") /\ at' = NoKey /\ verdict' = "none"
  /\ UNCHANGED <<gates, owners, queue, delivery, handlers, history>>

\* The process dies and is started again, perhaps with recovery forced (Open):
\* the Tick and the handlers are gone, the committed rows are not.
Crash ==
  /\ Disturb
  /\ Goto("idle") /\ at' = NoKey /\ verdict' = "none"
  /\ handlers' = {}
  /\ stops' \in {stops, stops \cup {"installation"}}
  /\ UNCHANGED <<confirmed, suppressed, deleted,
                 owners, queue, delivery, history>>

-----------------------------------------------------------------------------
Operators ==
  \/ \E b \in Broadcasts :
       CreateBroadcast(b) \/ PauseBroadcast(b) \/ ResumeBroadcast(b) \/ CancelBroadcast(b)
  \/ PauseProject \/ \E stop \in {"project", "installation"} : Resume(stop)
  \/ \E retire, newPolicy \in BOOLEAN : Deploy(retire, newPolicy)

Recipients ==
  \/ \E c \in Contacts :
       Confirm(c) \/ DeleteContact(c) \/ \E wide \in BOOLEAN : Unsubscribe(c, wide)
  \/ \E k \in Keys, kind \in FeedbackKinds : Feedback(k, kind)

Worker ==
  \/ StartTick \/ (\E k \in Keys : Claim(k)) \/ EndTick
  \/ RunJob \/ CheckGates \/ CheckConsent \/ LoseRead \/ Prepare \/ Reserve
  \/ LoseFrozenMessage \/ (\E o \in SendOutcomes : Send(o)) \/ Record
  \/ OpenCircuit \/ Finish \/ CompleteBroadcast

Next ==
  \/ Operators \/ Recipients \/ Worker
  \/ \E b \in Broadcasts : CheckAudience(b)
  \/ \E k \in Keys : Elapse(k)
  \/ FailTick \/ Crash

Spec == Init /\ [][Next]_vars

\* The worker loop of main.go ticks every second for as long as the process
\* lives; claims are served oldest first, so no due job is passed over forever;
\* operators who pause something eventually resume it.
Fairness ==
  /\ WF_vars(Worker)
  /\ \A k \in Keys : SF_vars(Claim(k)) /\ SF_vars(Elapse(k))
  /\ WF_vars(Resume("project")) /\ WF_vars(Resume("installation"))
  /\ \A b \in Broadcasts : WF_vars(ResumeBroadcast(b))

FairSpec == Spec /\ Fairness

-----------------------------------------------------------------------------
(* Properties *)

\* A recipient gets at most one copy of a broadcast, across retries, crashes at
\* any point, expired leases and ambiguous SMTP outcomes (reserveDelivery,
\* classified, recordSMTPResult, the lease UPDATE of Tick).
AtMostOneCopy == \A k \in Keys : copies[k] <= 1

\* Once a recipient stops being deliverable (unsubscribed, suppressed, deleted,
\* list retired, anything paused or cancelled) at most the one attempt whose
\* intent was already committed still leaves ("final dispatch boundary").
StopLetsOneAttemptOut == \A k \in Keys : lateSends[k] <= 1

\* broadcast.completed is emitted once, exactly when the broadcast is completed,
\* and nothing of a completed broadcast is pending, leased or held by the worker.
CompletionIsFinal ==
  \A b \in Broadcasts :
    /\ completions[b] = IF broadcast[b] = "completed" THEN 1 ELSE 0
    /\ broadcast[b] = "completed" =>
         /\ \A k \in Jobs(b) : job[k] \notin {"pending", "dispatching"}
         /\ pc \notin {"idle", "claim", "complete"} => at[1] /= b

\* A job reported complete did hand its mail over: the server accepted it, or
\* the provider reported on it.
CompleteMeansHandedOver ==
  \A k \in Keys : job[k] = "complete" => delivery[k] \in {"accepted"} \cup FeedbackKinds

\* A job reported cancelled sent nothing.
CancelledMeansUnsent == \A k \in Keys : job[k] = "cancelled" => copies[k] = 0

\* Provider feedback survives the SMTP result that arrives after it, and a
\* complaint or bounce survives any later delivered (sending.md: a late delivery
\* cannot clear a complaint or bounce).
FeedbackSurvives ==
  [][\A k \in Keys :
       /\ delivery[k] = "complaint" => delivery'[k] = "complaint"
       /\ delivery[k] = "bounce" => delivery'[k] \in {"bounce", "complaint"}
       /\ delivery[k] = "delivered" => delivery'[k] \in FeedbackKinds]_vars

\* A settled job is never run again: no retry, lease expiry, deletion or
\* cancellation reopens it or rewrites its outcome.
SettledJobsStay ==
  [][\A k \in Keys : job[k] \in SettledJobs => job'[k] = job[k]]_vars

\* Every queued mail is eventually settled, also when the process dies with it:
\* the lease gives the orphan back to a later Tick.
JobsSettle ==
  \A k \in Keys : job[k] \in {"pending", "dispatching"} ~> job[k] \in SettledJobs

\* The pipeline implements the ledger of mails.
Ledger ==
  [k \in Keys |-> IF delivery[k] \in {"none", "transient"} THEN "open"
                  ELSE IF delivery[k] = "dispatching" THEN "attempted" ELSE "closed"]

Mail == INSTANCE MailLedger WITH Mails <- Keys, ledger <- Ledger

ImplementsMailLedger == Mail!Spec

\* Consent, suppressions and deployments, as the pipeline meets them between its
\* statements, keep to the contract about who may be mailed.
Willing == confirmed \ (suppressed \cup deleted)

Circle == INSTANCE Audience WITH People <- Contacts, willing <- Willing,
                                 barred <- suppressed \cup deleted, closed <- "retired" \in stops

ImplementsAudience == Circle!Spec

\* What still leads a broadcast to its completion: a job to be run, the handler that
\* made it, or the worker with one of its jobs in hand.
HasWork(b) ==
  \/ Outstanding(b) /= {}
  \/ b \in handlers
  \/ pc \notin {"idle", "claim"} /\ at[1] = b

Stranded(b) == broadcast[b] = "queued" /\ ~HasWork(b)

\* A queued broadcast is left without work, and then for ever, only if its last job
\* was settled while it was paused, by a lapsed lease, by the deletion of its contact
\* or by a failed read, or if the Tick ended just before its look at the remaining jobs
\* (maybeCompleteBroadcast), or the request before its own, or that look failed.
StrandedByAccident ==
  [][\A b \in Broadcasts : ~Stranded(b) /\ Stranded(b)' =>
       \/ broadcast[b] = "paused"
       \/ pc = "idle" /\ pc' = "claim"
       \/ deleted' /= deleted
       \/ pc = "run" /\ pc' = "claim"
       \/ pc = "complete" /\ pc' = "idle"
       \/ b \in handlers \ handlers' /\ budget' < budget]_vars

\* HANDOFF.md: "Paused work remains retryable, cancelled work is cancelled": a
\* job is cancelled only for a reason that is not a pause, or by a failed read.
PausedWorkRemainsRetryable ==
  [][\A k \in Keys :
       job[k] /= "cancelled" /\ job'[k] = "cancelled" =>
         \/ broadcast[k[1]] = "cancelled" \/ broadcast'[k[1]] = "cancelled"
         \/ k[2] \notin confirmed \/ k[2] \in suppressed' \/ "retired" \in stops
         \/ LoseRead]_vars
=============================================================================
