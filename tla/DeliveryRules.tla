--------------------------- MODULE DeliveryRules ---------------------------
(***************************************************************************)
(* The state rules of one row of the deliveries table, shared by every     *)
(* module that sends mail: what an SMTP attempt can report, what the       *)
(* worker does with the report, and what provider feedback may overwrite.  *)
(* All of them are constant operators.                                     *)
(***************************************************************************)

\* mail.State*: what Sender.Send reports of one attempt.
SmtpResults == {"accepted", "transient", "permanent", "uncertain"}

\* The event types feedback ingestion accepts.
FeedbackKinds == {"delivered", "bounce", "complaint"}

\* deliveries.state; "none" stands for the row that does not exist yet.
DeliveryStates == {"none", "dispatching"} \cup SmtpResults \cup FeedbackKinds

\* jobs.state; "none" stands for the row that does not exist yet.
JobStates == {"none", "pending", "dispatching",
              "complete", "cancelled", "failed", "uncertain"}
SettledJobs == {"complete", "cancelled", "failed", "uncertain"}

\* classified(err, dataStarted): an error once DATA has begun is uncertain,
\* before that a 5xx reply is permanent and anything else transient.
ClassifiedByCode(dataStarted, is5xx) == IF is5xx THEN "permanent" ELSE "transient"
Classified(dataStarted, is5xx) ==
  IF dataStarted THEN "uncertain" ELSE IF is5xx THEN "permanent" ELSE "transient"

\* SMTP.Send: the report it returns, and how many copies the next server took.
\* Only an error after DATA began leaves the two unrelated.
SendOutcomes ==
  {[result |-> "accepted", copy |-> 1]}
    \cup {[result |-> Classified(FALSE, c), copy |-> 0] : c \in BOOLEAN}
    \cup {[result |-> Classified(TRUE, c), copy |-> n] : c \in BOOLEAN, n \in {0, 1}}

\* recordSMTPResult: the report is stored only while the row is dispatching;
\* otherwise feedback came first and its state is kept and returned.
AfterSmtpAlways(state, result) == result
AfterSmtp(state, result) == IF state = "dispatching" THEN result ELSE state

\* The job state dispatch settles on, given what recordSMTPResult returned.
JobAfterSend(state) ==
  CASE state = "accepted"  -> "complete"
    [] state = "transient" -> "pending"
    [] state = "uncertain" -> "uncertain"
    [] OTHER               -> "failed"

\* The CASE of the feedback UPDATE: a complaint is never overwritten, a bounce
\* not by a later delivered.
AfterFeedback(state, kind) ==
  IF state = "complaint" \/ (state = "bounce" /\ kind = "delivered")
  THEN state ELSE kind

\* reserveDelivery: an existing row may be sent again only when it is transient.
MayReserveUnlessAccepted(state) == state /= "accepted"
MayReserve(state) == state \in {"none", "transient"}
=============================================================================
