------------------------------ MODULE Webhooks ------------------------------
(***************************************************************************)
(* Business webhooks: events committed to the outbox are fanned out to the *)
(* endpoints subscribed to them, one delivery row per event and endpoint,  *)
(* and the worker (tickOutbox, the first half of Engine.Tick) posts the    *)
(* due rows, up to ten in one Tick.  Every statement or transaction is one *)
(* step; operators pause, resume, replay, add and remove endpoints between *)
(* any two of them, and the Tick may end between any two of them.          *)
(*                                                                         *)
(* Times are abstracted to whether next_at or lease_until lies before the  *)
(* clock reading the current Tick works with.                              *)
(***************************************************************************)
EXTENDS Naturals, FiniteSets

CONSTANTS
  Events,
  Endpoints,
  Wanted,           \* pairs <<event, endpoint>>: the endpoint's events list matches
  NoRow,            \* the worker holds no delivery
  FanOutLimit,      \* events distributed in one Tick (100 in the code)
  PerTick,          \* deliveries attempted in one Tick (10)
  MaxAttempts,      \* the attempt whose failure is final (10)
  MaxDisturbances   \* bound: pauses, replays, ended Ticks per behaviour

Keys == Events \X Endpoints

ASSUME ConstantsOK ==
  /\ NoRow \notin Keys
  /\ Wanted \subseteq Keys
  /\ FanOutLimit \in Nat \ {0} /\ PerTick \in Nat \ {0} /\ MaxAttempts \in Nat \ {0}
  /\ MaxDisturbances \in Nat

VARIABLES
  outbox,      \* outbox.state of an event, "none" before the row exists
  endpoint,    \* registry row of an endpoint: "none", "enabled" or "disabled"
  stops,       \* "project": projects.paused; "installation": outbound_paused
  row,         \* webhook_deliveries.state, "none" before the row exists
  due,         \* rows whose next_at, and lease_until if leased, have passed
  attempts,    \* webhook_deliveries.attempts
  attempt,     \* webhook_deliveries.attempt_id, drawn in increasing order
  logged,      \* webhook_attempts: the attempt ids with a row, per delivery
  pc,          \* where the worker is
  at,          \* the delivery it holds
  before,      \* d.attempts and d.attempt of its claim
  mine,
  status,      \* what the attempt came to
  round,       \* deliveries claimed in this Tick
  answer,      \* history: the endpoint's answer to the row's current attempt
  posted,      \* history: attempt ids an HTTP request was made for
  failures,    \* history: failed attempts recorded since creation or replay
  latePosts,   \* history: requests made since the row was last postable
  budget       \* disturbances left

gates    == <<endpoint, stops>>
claims   == <<due, attempts, attempt>>
rows     == <<row, claims>>
held     == <<at, before, mine, status>>
worker   == <<pc, held, round>>
history  == <<answer, posted, failures, latePosts>>
vars == <<outbox, gates, rows, logged, worker, history, budget>>

Steps == {"idle", "fanout", "claim", "endpoint", "stops", "post", "log", "record", "mail"}
RowStates == {"none", "pending", "sending", "delivered", "dead_letter"}
Statuses == {"none", "ok", "refused", "failed"}

TypeOK ==
  /\ outbox \in [Events -> {"none", "pending", "distributed"}]
  /\ endpoint \in [Endpoints -> {"none", "enabled", "disabled"}]
  /\ stops \subseteq {"project", "installation"}
  /\ row \in [Keys -> RowStates]
  /\ due \subseteq Keys
  /\ attempts \in [Keys -> Nat]
  /\ attempt \in [Keys -> Nat]
  /\ logged \in [Keys -> SUBSET Nat]
  /\ pc \in Steps
  /\ at \in Keys \cup {NoRow}
  /\ before \in Nat /\ mine \in Nat
  /\ status \in Statuses
  /\ round \in 0..PerTick
  /\ answer \in [Keys -> {"silent", "accepted", "refused"}]
  /\ posted \in [Keys -> SUBSET Nat]
  /\ failures \in [Keys -> Nat]
  /\ latePosts \in [Keys -> Nat]
  /\ budget \in 0..MaxDisturbances

Init ==
  /\ outbox = [e \in Events |-> "none"]
  /\ endpoint \in [Endpoints -> {"none", "enabled"}]
  /\ stops = {}
  /\ row = [k \in Keys |-> "none"] /\ due = {}
  /\ attempts = [k \in Keys |-> 0] /\ attempt = [k \in Keys |-> 0]
  /\ logged = [k \in Keys |-> {}]
  /\ pc = "idle" /\ at = NoRow /\ before = 0 /\ mine = 0 /\ status = "none" /\ round = 0
  /\ answer = [k \in Keys |-> "silent"]
  /\ posted = [k \in Keys |-> {}]
  /\ failures = [k \in Keys |-> 0]
  /\ latePosts = [k \in Keys |-> 0]
  /\ budget = MaxDisturbances

-----------------------------------------------------------------------------
(* Helpers *)

Goto(step) == pc' = step
Disturb == budget > 0 /\ budget' = budget - 1

\* The worker lets go of the row it holds.
Release == at' = NoRow /\ before' = 0 /\ mine' = 0 /\ status' = "none"

\* Pending, or leased by a Tick that did not get to its end.
ClaimablePending(k) == row[k] = "pending" /\ k \in due /\ "project" \notin stops
Claimable(k) == row[k] \in {"pending", "sending"} /\ k \in due /\ "project" \notin stops

\* What "may be posted now" means to an operator.
Postable(k) == endpoint[k[2]] = "enabled" /\ stops = {}

Recount == latePosts' = [k \in Keys |-> IF Postable(k)' THEN 0 ELSE latePosts[k]]

\* WHERE enabled=1 of registryConfig.
IsRegistered(k) == endpoint[k[2]] /= "none"
IsEnabled(k) == endpoint[k[2]] = "enabled"

\* WHERE state<>'sending' of the replay.
MayReplay(k) == row[k] \notin {"none", "sending"}

\* attempts=0 of the replay.
KeepAttempts(k) == UNCHANGED attempts
ForgetAttempts(k) == attempts' = [attempts EXCEPT ![k] = 0]

\* newID("attempt").
NewAttempt(k) == attempt[k] + 1

\* The INSERT into webhook_attempts, whose error ends the Tick.
WriteLog(k, id) == logged' = [logged EXCEPT ![k] = @ \cup {id}]

\* sql.ErrNoRows is the normal end of the loop, not an error of the Tick.
LeaveTick == Goto("idle")
LeaveLoop == Goto("mail")

\* The state an attempt leaves the row in: the limit is tested against the
\* number of claims before this one, a refusal is final at once.
OutcomeOneLate(result, earlier) ==
  IF result = "ok" THEN "delivered"
  ELSE IF result = "refused" \/ earlier >= MaxAttempts THEN "dead_letter"
  ELSE "pending"
Outcome(result, earlier) ==
  IF result = "ok" THEN "delivered"
  ELSE IF result = "refused" \/ earlier + 1 >= MaxAttempts THEN "dead_letter"
  ELSE "pending"

-----------------------------------------------------------------------------
(* HTTP handlers *)

\* outboxTx: the event commits together with what it reports.
Emit(e) ==
  /\ outbox[e] = "none"
  /\ outbox' = [outbox EXCEPT ![e] = "pending"]
  /\ UNCHANGED <<gates, rows, logged, worker, history, budget>>

\* registry create and delete; a deleted endpoint is disabled, for good.
CreateEndpoint(p) ==
  /\ endpoint[p] = "none"
  /\ endpoint' = [endpoint EXCEPT ![p] = "enabled"]
  /\ UNCHANGED <<outbox, stops, rows, logged, worker, answer, posted, failures, budget>>
  /\ Recount

DeleteEndpoint(p) ==
  /\ endpoint[p] = "enabled" /\ Disturb
  /\ endpoint' = [endpoint EXCEPT ![p] = "disabled"]
  /\ UNCHANGED <<outbox, stops, rows, logged, worker, history>>

PauseProject ==
  /\ "project" \notin stops /\ Disturb
  /\ stops' = stops \cup {"project"}
  /\ UNCHANGED <<outbox, endpoint, rows, logged, worker, history>>

Resume(stop) ==
  /\ stop \in stops
  /\ stops' = stops \ {stop}
  /\ UNCHANGED <<outbox, endpoint, rows, logged, worker, answer, posted, failures, budget>>
  /\ Recount

\* webhook-deliveries replay: any row that is not being sent, delivered ones
\* too; its attempt id stays.
Replay(k) ==
  /\ MayReplay(k) /\ Disturb
  /\ row' = [row EXCEPT ![k] = "pending"]
  /\ ForgetAttempts(k)
  /\ due' = due \ {k}
  /\ answer' = [answer EXCEPT ![k] = "silent"]
  /\ failures' = [failures EXCEPT ![k] = 0]
  /\ UNCHANGED <<outbox, gates, attempt, logged, worker, posted, latePosts>>

-----------------------------------------------------------------------------
(* The worker *)

\* Time passes next_at or lease_until, as the next Tick will see it: a Tick reads
\* the clock it compares with once, when it starts.
Elapse(k) ==
  /\ pc = "idle" /\ k \notin due /\ row[k] \in {"pending", "sending"}
  /\ due' = due \cup {k}
  /\ UNCHANGED <<outbox, gates, row, attempts, attempt, logged, worker, history, budget>>

\* tickOutbox: nothing while outbound is paused; Tick goes on to the mail.
StartTick ==
  /\ pc = "idle"
  /\ Goto(IF "installation" \in stops THEN "mail" ELSE "fanout")
  /\ round' = 0
  /\ UNCHANGED <<outbox, gates, rows, logged, held, history, budget>>

\* The first transaction: pending events become rows, one per enabled endpoint
\* that wants them (INSERT OR IGNORE), due at once, and are distributed.  Nobody
\* asks the two cursors for their errors: one that breaks off leaves events for the
\* next Tick, or endpoints out for good.
FanOut ==
  LET pending == {e \in Events : outbox[e] = "pending"}
      limit   == IF Cardinality(pending) < FanOutLimit THEN Cardinality(pending) ELSE FanOutLimit
  IN
  /\ pc = "fanout"
  /\ \E batch \in SUBSET pending, unread \in SUBSET Wanted :
       LET new == {k \in Wanted \ unread :
                     k[1] \in batch /\ endpoint[k[2]] = "enabled" /\ row[k] = "none"}
       IN
       /\ \/ Cardinality(batch) = limit /\ unread = {} /\ UNCHANGED budget
          \/ Cardinality(batch) <= limit /\ Disturb
       /\ row' = [k \in Keys |-> IF k \in new THEN "pending" ELSE row[k]]
       /\ due' = due \cup new
       /\ outbox' = [e \in Events |-> IF e \in batch THEN "distributed" ELSE outbox[e]]
  /\ Goto("claim")
  /\ UNCHANGED <<gates, attempts, attempt, logged, held, round, history>>

\* The claim: leased for a minute under a new attempt id.
Claim(k) ==
  /\ pc = "claim" /\ round < PerTick /\ Claimable(k)
  /\ row' = [row EXCEPT ![k] = "sending"]
  /\ due' = due \ {k}
  /\ attempts' = [attempts EXCEPT ![k] = @ + 1]
  /\ attempt' = [attempt EXCEPT ![k] = NewAttempt(k)]
  /\ at' = k /\ before' = attempts[k] /\ mine' = NewAttempt(k) /\ status' = "none"
  /\ round' = round + 1
  /\ answer' = [answer EXCEPT ![k] = "silent"]
  /\ Goto("endpoint")
  /\ UNCHANGED <<outbox, gates, logged, posted, failures, latePosts, budget>>

\* No row is due, or ten were handled: tickOutbox returns without an error.
EndLoop ==
  /\ pc = "claim"
  /\ round = PerTick \/ \A k \in Keys : ~Claimable(k)
  /\ LeaveLoop
  /\ UNCHANGED <<outbox, gates, rows, logged, held, round, history, budget>>

\* registryConfig: a disabled endpoint fails the attempt without a request.
ReadEndpoint ==
  /\ pc = "endpoint"
  /\ IF IsEnabled(at)
     THEN Goto("stops") /\ UNCHANGED status
     ELSE Goto("log") /\ status' = "failed"
  /\ UNCHANGED <<outbox, gates, rows, logged, at, before, mine, round, history, budget>>

\* The last look at the pauses.  A stop puts the row back, with the attempt
\* still counted, and ends the loop.
CheckStops ==
  /\ pc = "stops"
  /\ IF stops = {}
     THEN Goto("post") /\ UNCHANGED <<row, due, held>>
     ELSE /\ row' = IF attempt[at] = mine THEN [row EXCEPT ![at] = "pending"] ELSE row
          /\ due' = due \cup {at}
          /\ Release
          /\ Goto("mail")
  /\ UNCHANGED <<outbox, gates, attempts, attempt, logged, round, history, budget>>

\* Statements of these two steps that fail count as a failed attempt.
FailRead ==
  /\ pc \in {"endpoint", "stops"} /\ Disturb
  /\ status' = "failed"
  /\ Goto("log")
  /\ UNCHANGED <<outbox, gates, rows, logged, at, before, mine, round, history>>

\* WebhookClient.Post: a 2xx, a 4xx other than 408 and 429, or anything else,
\* the lost answer to a request that was served included.
Post(result) ==
  /\ pc = "post"
  /\ status' = result
  /\ answer' = [answer EXCEPT ![at] =
       IF result = "ok" THEN "accepted" ELSE IF result = "refused" THEN "refused" ELSE @]
  /\ posted' = [posted EXCEPT ![at] = @ \cup {mine}]
  /\ latePosts' = IF Postable(at) THEN latePosts ELSE [latePosts EXCEPT ![at] = @ + 1]
  /\ Goto("log")
  /\ UNCHANGED <<outbox, gates, rows, logged, at, before, mine, round, failures, budget>>

\* The row of webhook_attempts, a statement of its own.
Log ==
  /\ pc = "log"
  /\ WriteLog(at, mine)
  /\ Goto("record")
  /\ UNCHANGED <<outbox, gates, rows, held, round, history, budget>>

\* The result, unless the row has been claimed again since.
Record ==
  /\ pc = "record"
  /\ IF attempt[at] = mine
     THEN /\ row' = [row EXCEPT ![at] = Outcome(status, before)]
          /\ due' = due \ {at}
          /\ failures' = [failures EXCEPT ![at] = IF status = "ok" THEN @ ELSE @ + 1]
     ELSE UNCHANGED <<row, due, failures>>
  /\ Release
  /\ Goto("claim")
  /\ UNCHANGED <<outbox, gates, attempts, attempt, logged, round, answer, posted, latePosts, budget>>

\* The mail half of the Tick (module Dispatch) has its turn.
EndTick ==
  /\ pc = "mail"
  /\ Goto("idle")
  /\ UNCHANGED <<outbox, gates, rows, logged, held, round, history, budget>>

\* A database error, a configuration that does not open, a cancelled context or
\* the death of the process ends the Tick wherever it is: nothing but the
\* committed rows is kept.  A restart may force recovery (Open).
EndAbruptly(recovery) ==
  /\ pc /= "idle" /\ Disturb
  /\ Goto("idle") /\ Release /\ round' = 0
  /\ stops' = IF recovery THEN stops \cup {"installation"} ELSE stops
  /\ UNCHANGED <<outbox, endpoint, rows, logged, history>>

-----------------------------------------------------------------------------
Operators ==
  \/ \E e \in Events : Emit(e)
  \/ \E p \in Endpoints : CreateEndpoint(p) \/ DeleteEndpoint(p)
  \/ PauseProject \/ \E stop \in {"project", "installation"} : Resume(stop)
  \/ \E k \in Keys : Replay(k)

Worker ==
  \/ StartTick \/ FanOut \/ (\E k \in Keys : Claim(k)) \/ EndLoop
  \/ ReadEndpoint \/ CheckStops \/ (\E result \in {"ok", "refused", "failed"} : Post(result))
  \/ Log \/ Record \/ EndTick

Next ==
  \/ Operators \/ Worker \/ FailRead
  \/ \E k \in Keys : Elapse(k)
  \/ \E recovery \in BOOLEAN : EndAbruptly(recovery)

Spec == Init /\ [][Next]_vars

\* The worker ticks every second for as long as the process lives; rows are
\* claimed oldest next_at first and events distributed oldest first, so none is
\* passed over for ever.  Nobody is obliged to resume anything.
Fairness ==
  /\ WF_vars(Worker)
  /\ \A k \in Keys : SF_vars(Claim(k)) /\ SF_vars(Elapse(k))

FairSpec == Spec /\ Fairness

-----------------------------------------------------------------------------
(* Properties *)

\* A row is marked delivered by the answer to its own latest attempt, made after
\* the last replay: a result recorded late never settles a replayed row
\* (tickOutbox against webhookDeliveries).
DeliveredWasAccepted ==
  \A k \in Keys : row[k] = "delivered" => answer[k] = "accepted"

\* A row is given up only after a refusal or after the last allowed attempt, and
\* no more failures than that are recorded: claims wasted by a pause or a crash
\* use attempts up, they never add any (the dead-letter test of tickOutbox).
AbandonedInTurn ==
  \A k \in Keys :
    /\ row[k] = "dead_letter" => answer[k] = "refused" \/ attempts[k] >= MaxAttempts
    /\ failures[k] <= MaxAttempts

\* After a pause or the removal of the endpoint at most the one request that had
\* passed its last check still leaves (sending.md: recovery and project pauses
\* stop business webhooks too).
StopLetsOnePostOut == \A k \in Keys : latePosts[k] <= 1

\* A settled row has the history of the attempt that settled it, whatever was
\* interrupted (the attempt row is inserted before the result is stored).
SettledIsInspectable ==
  \A k \in Keys : row[k] \in {"delivered", "dead_letter"} => attempt[k] \in logged[k]

\* A request is only made for a row that is leased under the id it carries, and
\* never twice under one id, so a consumer may deduplicate attempts.
AttemptIsUsedOnce ==
  [][pc = "post" /\ pc' = "log" =>
       /\ row[at] = "sending" /\ mine = attempt[at]
       /\ \A older \in posted[at] : older < mine]_vars

\* An event that has a row for an endpoint is delivered or given up in the end,
\* unless everything stays paused; a Tick that died with it gives it back when its lease runs out.
RowsSettle ==
  \A k \in Keys :
    row[k] \in {"pending", "sending"} ~> row[k] \in {"delivered", "dead_letter"} \/ stops /= {}

\* However many webhooks are due, and however they fail, the mail half of Tick
\* gets its turn again.
MailGetsItsTurn == []<>(pc = "mail")

\* The pipeline implements the ledger of debts.
Debt ==
  [k \in Keys |-> IF row[k] \in {"pending", "sending"} THEN "owed"
                  ELSE IF row[k] = "delivered" THEN "paid"
                  ELSE IF row[k] = "dead_letter" THEN "given_up" ELSE "none"]

Owed == INSTANCE EventLedger
          WITH Debts <- Keys, Patience <- MaxAttempts, debt <- Debt, tries <- attempts

ImplementsEventLedger == Owed!Spec
=============================================================================
