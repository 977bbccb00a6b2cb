------------------------------ MODULE Consent ------------------------------
(***************************************************************************)
(* Double opt-in for one list: a person asks (subscribe), is mailed a link *)
(* (a confirmation job), follows it (confirm), withdraws (unsubscribe) or  *)
(* is deleted, while deployments change the list's policy or retire it.    *)
(* A request is a handler of several statements; the worker's part is the  *)
(* confirmation branch of runJob.  Handlers, links, deployments and the    *)
(* worker interleave at every statement.                                   *)
(*                                                                         *)
(* Tokens are numbered in the order they are issued; the mail of a token   *)
(* and its job carry the same number.  A contact stands for an address.    *)
(*                                                                         *)
(* The terms of the list are its policy version and its purpose: a new     *)
(* purpose asks for fresh consent like a new version, but a consent row    *)
(* keeps the version alone, so terms of one version look alike to it.      *)
(***************************************************************************)
EXTENDS Naturals, FiniteSets, DeliveryRules

CONSTANTS
  Contacts,
  Handlers,         \* subscribe requests in progress at once
  Policies,         \* the terms the list may have, a set of positive numbers
  Version,          \* the policy version of the terms
  NoContact,        \* the handler is idle
  PendingLimit,     \* pending consents of the project (10000 in the code)
  MaxTokens,        \* bound: tokens issued
  MaxDisturbances   \* bound: deployments, withdrawals, pauses, crashes, retries

Tokens == 1..MaxTokens

ASSUME ConstantsOK ==
  /\ Policies \subseteq Nat \ {0} /\ Policies /= {}
  /\ Version \in [Policies -> Nat \ {0}]
  /\ NoContact \notin Contacts
  /\ PendingLimit \in Nat
  /\ MaxTokens \in Nat /\ MaxDisturbances \in Nat

VARIABLES
  policy,       \* lists.policy_version and purpose
  retired,      \* lists.retired
  consent,      \* consent.state and policy_version, "none" before the row exists
  told,         \* the last row of consent_history, as above
  recent,       \* contacts whose consent.updated_at is less than ten minutes ago
  suppressed,
  imported,     \* history: contacts whose row an import made and nothing wrote since
  stops,        \* "project", "installation": paused
  token,        \* "none", "live", "expired", "used" or "gone"
  owner,        \* the contact a token was issued for
  issued,       \* tokens issued so far
  handler,      \* step, contact and the terms it read, per subscribe request
  job,          \* jobs.state of the confirmation jobs
  due,          \* jobs whose run_at or lease_until has passed
  pc, at, verdict,  \* the worker: where it is, its job, what Send reported
  copies,       \* history: copies of a token's mail the next server took
  clicks,       \* history: confirmations a token led to
  agreed,       \* history: the terms a contact last agreed to
  terms,        \* history: the terms in force at the request, per token
  overtaken,    \* history: contacts whose last request a change of purpose alone overtook
  late,         \* history: mails attempted after a withdrawal, since the last request
  inWindow,     \* history: tokens issued since the contact's last quiet ten minutes
  budget        \* disturbances left

list     == <<policy, retired>>
people   == <<consent, told, recent, suppressed, imported>>
tokens   == <<token, owner, issued>>
queue    == <<job, due>>
worker   == <<pc, at, verdict>>
history  == <<copies, clicks, agreed, terms, overtaken, late, inWindow>>
vars == <<list, people, stops, tokens, handler, queue, worker, history, budget>>

Versions == {Version[p] : p \in Policies}
Standing == [state : {"none", "pending", "confirmed", "unsubscribed"}, policy : Versions \cup {0}]
Stranger == [state |-> "none", policy |-> 0]
HandlerSteps == {"idle", "limit", "policy", "suppression", "commit", "import"}
Steps == {"idle", "claim", "check", "prepare", "send", "finish"}
Idle == [step |-> "idle", who |-> NoContact, read |-> 0]

TypeOK ==
  /\ policy \in Policies /\ retired \in BOOLEAN
  /\ consent \in [Contacts -> Standing] /\ told \in [Contacts -> Standing]
  /\ recent \subseteq Contacts /\ suppressed \subseteq Contacts /\ imported \subseteq Contacts
  /\ stops \subseteq {"project", "installation"}
  /\ token \in [Tokens -> {"none", "live", "expired", "used", "gone"}]
  /\ owner \in [Tokens -> Contacts \cup {NoContact}]
  /\ issued \in 0..MaxTokens
  /\ handler \in [Handlers -> [step : HandlerSteps, who : Contacts \cup {NoContact},
                               read : Policies \cup {0}]]
  /\ job \in [Tokens -> JobStates] /\ due \subseteq Tokens
  /\ pc \in Steps /\ at \in 0..MaxTokens /\ verdict \in SmtpResults \cup {"none"}
  /\ copies \in [Tokens -> Nat] /\ clicks \in [Tokens -> Nat]
  /\ agreed \in [Contacts -> Policies \cup {0}]
  /\ terms \in [Tokens -> Policies \cup {0}] /\ overtaken \subseteq Contacts
  /\ late \in [Contacts -> Nat] /\ inWindow \in [Contacts -> Nat]
  /\ budget \in 0..MaxDisturbances

Init ==
  /\ policy \in Policies /\ retired = FALSE
  /\ consent = [c \in Contacts |-> Stranger] /\ told = consent
  /\ recent = {} /\ suppressed = {} /\ imported = {} /\ stops = {}
  /\ token = [n \in Tokens |-> "none"] /\ owner = [n \in Tokens |-> NoContact] /\ issued = 0
  /\ handler = [h \in Handlers |-> Idle]
  /\ job = [n \in Tokens |-> "none"] /\ due = {}
  /\ pc = "idle" /\ at = 0 /\ verdict = "none"
  /\ copies = [n \in Tokens |-> 0] /\ clicks = [n \in Tokens |-> 0]
  /\ agreed = [c \in Contacts |-> 0] /\ terms = [n \in Tokens |-> 0] /\ overtaken = {}
  /\ late = [c \in Contacts |-> 0] /\ inWindow = [c \in Contacts |-> 0]
  /\ budget = MaxDisturbances

-----------------------------------------------------------------------------
(* Helpers *)

Disturb == budget > 0 /\ budget' = budget - 1
Goto(step) == pc' = step
Advance(h, step) == handler' = [handler EXCEPT ![h].step = step]
Leave(h) == handler' = [handler EXCEPT ![h] = Idle]

\* A consent row is written together with its line of consent_history, and its
\* updated_at starts the ten minutes anew.
SetConsent(new) ==
  /\ consent' = [c \in Contacts |-> IF c \in DOMAIN new THEN new[c] ELSE consent[c]]
  /\ told' = [c \in Contacts |-> IF c \in DOMAIN new THEN new[c] ELSE told[c]]
  /\ recent' = recent \cup DOMAIN new /\ imported' = imported \ DOMAIN new

\* What a deployment that changes the policy makes of the confirmed consents.
KeepConfirmed(version) ==
  [c \in {x \in Contacts : consent[x].state = "confirmed"} |->
     [state |-> "confirmed", policy |-> Version[version]]]
Reconsent(version) ==
  [c \in {x \in Contacts : consent[x].state = "confirmed"} |->
     [state |-> "pending", policy |-> Version[version]]]

\* The terms a row cannot tell from those in force.
Alike == {p \in Policies : Version[p] = Version[policy]}

Only(c, state, terms_) == [x \in {c} |-> [state |-> state, policy |-> terms_]]

\* used_at IS NULL AND expires_at > now, for a click.
IsLive(n) == token[n] = "live"

\* DELETE ... WHERE kind='confirm' AND used_at IS NULL.
Unused(n) == token[n] \in {"live", "expired"}
Drop(dead) == token' = [n \in Tokens |-> IF n \in dead THEN "gone" ELSE token[n]]

\* A request within ten minutes of the row's last change is ignored.
IsConfirmed(c) == consent[c].state = "confirmed"
IsQuietOnceConfirmed(c) == IsConfirmed(c)
IsQuiet(c) == IsConfirmed(c) \/ (c \in recent /\ consent[c].state /= "none")

\* The final eligibility query of reserveDelivery, the pauses left aside.
EligibleWhateverPolicy(c) == IsConfirmed(c) /\ ~retired /\ c \notin suppressed
Eligible(c) ==
  IsConfirmed(c) /\ consent[c].policy = Version[policy] /\ ~retired /\ c \notin suppressed

\* The eligibility query of a confirmation job.
MayMailWithdrawn(n) == IsLive(n) /\ stops = {}
MayMail(n) ==
  IsLive(n) /\ consent[owner[n]].state = "pending" /\ owner[n] \notin suppressed /\ stops = {}

-----------------------------------------------------------------------------
(* consent subscribe *)

\* allowSubscribe counts the project's pending consents first.
Ask(h, c) ==
  /\ handler[h] = Idle
  /\ Cardinality({x \in Contacts : consent[x].state = "pending"}) < PendingLimit
  /\ handler' = [handler EXCEPT ![h] = [step |-> "limit", who |-> c, read |-> 0]]
  /\ UNCHANGED <<list, people, stops, tokens, queue, worker, history, budget>>

\* The hourly buckets let the request through or not; module Limits counts them.
Limit(h) ==
  /\ handler[h].step = "limit"
  /\ Advance(h, "policy") \/ Leave(h)
  /\ UNCHANGED <<list, people, stops, tokens, queue, worker, history, budget>>

ReadPolicy(h) ==
  /\ handler[h].step = "policy"
  /\ IF retired THEN Leave(h)
     ELSE handler' = [handler EXCEPT ![h].step = "suppression", ![h].read = policy]
  /\ UNCHANGED <<list, people, stops, tokens, queue, worker, history, budget>>

\* A failed read counts as an address that is not suppressed.
ReadSuppression(h) ==
  /\ handler[h].step = "suppression"
  /\ \/ handler[h].who \in suppressed /\ Leave(h) /\ UNCHANGED budget
     \/ handler[h].who \notin suppressed /\ Advance(h, "commit") /\ UNCHANGED budget
     \/ handler[h].who \in suppressed /\ Advance(h, "commit") /\ Disturb
  /\ UNCHANGED <<list, people, stops, tokens, queue, worker, history>>

\* The transaction: a pending row under the policy read earlier, one live token
\* and its job; nothing if the contact is confirmed or the row changed recently.
Commit(h) ==
  LET c == handler[h].who
      n == issued + 1
  IN
  /\ handler[h].step = "commit"
  /\ Leave(h)
  /\ \/ /\ IsQuiet(c)
        /\ UNCHANGED <<people, tokens, queue, terms, overtaken, inWindow, late>>
     \/ /\ ~IsQuiet(c) /\ n \in Tokens
        /\ SetConsent(Only(c, "pending", Version[handler[h].read]))
        /\ token' = [x \in Tokens |->
             IF x = n THEN "live" ELSE IF owner[x] = c /\ Unused(x) THEN "gone" ELSE token[x]]
        /\ owner' = [owner EXCEPT ![n] = c]
        /\ issued' = n
        /\ job' = [job EXCEPT ![n] = "pending"] /\ due' = due \cup {n}
        /\ terms' = [terms EXCEPT ![n] = handler[h].read]
        /\ overtaken' = IF handler[h].read \in Alike \ {policy} THEN overtaken \cup {c}
                        ELSE overtaken \ {c}
        /\ inWindow' = [inWindow EXCEPT ![c] = @ + 1] /\ late' = [late EXCEPT ![c] = 0]
        /\ UNCHANGED suppressed
  /\ UNCHANGED <<list, stops, worker, copies, clicks, agreed, budget>>

-----------------------------------------------------------------------------
(* contacts import with pending consent, a batch of one row *)

\* The list's policy is read once, before the first batch.
BeginImport(h, c) ==
  /\ handler[h] = Idle /\ ~retired /\ Disturb
  /\ handler' = [handler EXCEPT ![h] = [step |-> "import", who |-> c, read |-> policy]]
  /\ UNCHANGED <<list, people, stops, tokens, queue, worker, history>>

\* The rows an import makes.
NoRowYet(c) == consent[c].state = "none"

\* The transaction of a batch leaves a row that is there as it is.  A new one is
\* pending, without a link and without a line of history, suppressed or not.
Import(h) ==
  LET c == handler[h].who IN
  /\ handler[h].step = "import"
  /\ Leave(h)
  /\ IF NoRowYet(c)
     THEN /\ consent' = [consent EXCEPT ![c] = [state |-> "pending", policy |-> Version[handler[h].read]]]
          /\ recent' = recent \cup {c} /\ imported' = imported \cup {c}
          /\ UNCHANGED <<told, suppressed>>
     ELSE UNCHANGED people
  /\ UNCHANGED <<list, stops, tokens, queue, worker, history, budget>>

-----------------------------------------------------------------------------
(* The person, operators, deployments, time *)

\* consent confirm: whoever has the mail follows its link, once and in time.
\* Neither the list nor a suppression is asked.
Confirm(n) ==
  LET c == owner[n] IN
  /\ copies[n] > 0 /\ IsLive(n)
  /\ token' = [token EXCEPT ![n] = "used"]
  /\ SetConsent(Only(c, "confirmed", consent[c].policy))
  /\ clicks' = [clicks EXCEPT ![n] = @ + 1]
  /\ agreed' = [agreed EXCEPT ![c] = terms[n]]
  /\ UNCHANGED <<list, suppressed, stops, owner, issued, handler, queue, worker,
                 copies, terms, overtaken, late, inWindow, budget>>

\* consent unsubscribe: any row, project-wide with a suppression.  A link not
\* yet followed stays good.
Unsubscribe(c, wide) ==
  /\ consent[c].state /= "none" /\ Disturb
  /\ SetConsent(Only(c, "unsubscribed", consent[c].policy))
  /\ suppressed' = IF wide THEN suppressed \cup {c} ELSE suppressed
  /\ UNCHANGED <<list, stops, tokens, handler, queue, worker, history>>

\* contacts delete: the address is suppressed, its tokens are deleted and its
\* pending jobs cancelled; whoever asks with it again is a new contact.
DeleteContact(c) ==
  /\ consent[c].state /= "none" /\ Disturb
  /\ consent' = [consent EXCEPT ![c] = Stranger] /\ told' = [told EXCEPT ![c] = Stranger]
  /\ suppressed' = suppressed \cup {c} /\ imported' = imported \ {c}
  /\ Drop({n \in Tokens : owner[n] = c /\ token[n] /= "none"})
  /\ job' = [n \in Tokens |-> IF owner[n] = c /\ job[n] = "pending" THEN "cancelled" ELSE job[n]]
  /\ inWindow' = [inWindow EXCEPT ![c] = 0]
  /\ UNCHANGED <<list, recent, stops, owner, issued, handler, due, worker,
                 copies, clicks, agreed, terms, overtaken, late>>

\* feedback, a bounce or complaint about an earlier mail.
Suppress(c) ==
  /\ c \notin suppressed /\ Disturb
  /\ suppressed' = suppressed \cup {c}
  /\ UNCHANGED <<list, consent, told, recent, imported, stops, tokens, handler, queue,
                 worker, history>>

\* releases deploy.  A changed version or purpose, which needs allow_destructive,
\* voids the links not yet followed and moves every confirmed consent back to pending.
Deploy(version, retire) ==
  /\ <<version, retire>> /= <<policy, retired>> /\ Disturb
  /\ retire => version = policy
  /\ policy' = version /\ retired' = retire
  /\ IF version = policy THEN UNCHANGED <<token, consent, told, recent, imported>>
     ELSE Drop({n \in Tokens : Unused(n)}) /\ SetConsent(Reconsent(version))
  /\ UNCHANGED <<suppressed, stops, owner, issued, handler, queue, worker, history>>

\* maintenance retention: links that expired, and old ones that were followed, are
\* deleted; so are settled jobs, which nothing reads.
Retain ==
  /\ Disturb
  /\ \E old \in SUBSET {n \in Tokens : token[n] = "used"} :
       LET dead == old \cup {n \in Tokens : token[n] = "expired"} IN dead /= {} /\ Drop(dead)
  /\ UNCHANGED <<list, people, stops, owner, issued, handler, queue, worker, history>>

PauseProject ==
  /\ "project" \notin stops /\ Disturb
  /\ stops' = stops \cup {"project"}
  /\ UNCHANGED <<list, people, tokens, handler, queue, worker, history>>

Resume(stop) ==
  /\ stop \in stops
  /\ stops' = stops \ {stop}
  /\ UNCHANGED <<list, people, tokens, handler, queue, worker, history, budget>>

\* Ten minutes, a day or an hour pass.
Cool(c) ==
  /\ c \in recent
  /\ recent' = recent \ {c}
  /\ inWindow' = [inWindow EXCEPT ![c] = 0]
  /\ UNCHANGED <<list, consent, told, suppressed, imported, stops, tokens, handler, queue,
                 worker, copies, clicks, agreed, terms, overtaken, late, budget>>

Expire(n) ==
  /\ IsLive(n) /\ Disturb
  /\ token' = [token EXCEPT ![n] = "expired"]
  /\ UNCHANGED <<list, people, stops, owner, issued, handler, queue, worker, history>>

-----------------------------------------------------------------------------
(* The worker: the confirmation branch of runJob *)

Elapse(n) ==
  /\ pc = "idle" /\ n \notin due /\ job[n] \in {"pending", "dispatching"}
  /\ due' = due \cup {n}
  /\ UNCHANGED <<list, people, stops, tokens, handler, job, worker, history, budget>>

\* A lapsed lease means an earlier Tick died with the job, whose mail may be out.
RequeueLapsed ==
  job' = [n \in Tokens |-> IF job[n] = "dispatching" /\ n \in due THEN "pending" ELSE job[n]]
ExpireLeases ==
  job' = [n \in Tokens |-> IF job[n] = "dispatching" /\ n \in due THEN "uncertain" ELSE job[n]]

\* The error of that statement is not looked at.
StartTick ==
  /\ pc = "idle" /\ "installation" \notin stops
  /\ \/ ExpireLeases /\ UNCHANGED budget
     \/ UNCHANGED job /\ Disturb
  /\ Goto("claim")
  /\ UNCHANGED <<list, people, stops, tokens, handler, due, at, verdict, history>>

Claim(n) ==
  /\ pc = "claim" /\ job[n] = "pending" /\ n \in due
  /\ job' = [job EXCEPT ![n] = "dispatching"] /\ due' = due \ {n}
  /\ at' = n
  /\ Goto("check")
  /\ UNCHANGED <<list, people, stops, tokens, handler, verdict, history, budget>>

EndTick ==
  /\ pc = "claim"
  /\ Goto("idle")
  /\ UNCHANGED <<list, people, stops, tokens, handler, queue, at, verdict, history,
                 budget>>

\* finishJob or retryJob, and back to the next job.
Settle(state) ==
  /\ job' = [job EXCEPT ![at] = state] /\ due' = due \ {at}
  /\ Goto("claim") /\ at' = 0 /\ verdict' = "none"

\* A pause and a failed read are told apart from a dead link as little as by dispatch.
CheckLink ==
  /\ pc = "check"
  /\ \/ MayMail(at) /\ Goto("prepare") /\ UNCHANGED <<queue, at, verdict, budget>>
     \/ ~MayMail(at) /\ Settle("cancelled") /\ UNCHANGED budget
     \/ MayMail(at) /\ Settle("cancelled") /\ Disturb
  /\ UNCHANGED <<list, people, stops, tokens, handler, history>>

\* Transport, its pin in the payload, and its rate limit.
Prepare ==
  /\ pc = "prepare"
  /\ \/ Goto("send") /\ UNCHANGED <<queue, at, verdict, budget>>
     \/ Settle("failed") /\ UNCHANGED budget
     \/ Settle("pending") /\ Disturb
  /\ UNCHANGED <<list, people, stops, tokens, handler, history>>

Send(o) ==
  LET c == owner[at] IN
  /\ pc = "send"
  /\ IF o.result = "transient" THEN Disturb ELSE UNCHANGED budget
  /\ copies' = [copies EXCEPT ![at] = @ + o.copy]
  /\ late' = [late EXCEPT ![c] =
       IF consent[c].state = "pending" /\ c \notin suppressed THEN 0 ELSE @ + 1]
  /\ verdict' = o.result
  /\ Goto("finish")
  /\ UNCHANGED <<list, people, stops, tokens, handler, queue, at,
                 clicks, agreed, terms, overtaken, inWindow>>

Finish ==
  /\ pc = "finish"
  /\ Settle(JobAfterSend(verdict))
  /\ UNCHANGED <<list, people, stops, tokens, handler, history, budget>>

\* A statement of the Tick fails, and the Tick ends; the job in hand keeps its lease.
FailTick ==
  /\ pc \in Steps \ {"idle", "send"} /\ Disturb
  /\ Goto("idle") /\ at' = 0 /\ verdict' = "none"
  /\ UNCHANGED <<list, people, stops, tokens, handler, queue, history>>

\* The process dies and is started again: requests and the Tick are gone.
Crash(recovery) ==
  /\ Disturb
  /\ handler' = [h \in Handlers |-> Idle]
  /\ Goto("idle") /\ at' = 0 /\ verdict' = "none"
  /\ stops' = IF recovery THEN stops \cup {"installation"} ELSE stops
  /\ UNCHANGED <<list, people, tokens, queue, history>>

-----------------------------------------------------------------------------
Requests ==
  \E h \in Handlers :
    \/ \E c \in Contacts : Ask(h, c) \/ BeginImport(h, c)
    \/ Import(h) \/ Limit(h) \/ ReadPolicy(h) \/ ReadSuppression(h) \/ Commit(h)

People ==
  \/ \E n \in Tokens : Confirm(n)
  \/ \E c \in Contacts : DeleteContact(c) \/ Suppress(c) \/ \E wide \in BOOLEAN : Unsubscribe(c, wide)
  \/ \E version \in Policies, retire \in BOOLEAN : Deploy(version, retire)
  \/ Retain \/ PauseProject \/ \E stop \in {"project", "installation"} : Resume(stop)

Time ==
  (\E c \in Contacts : Cool(c)) \/ \E n \in Tokens : Expire(n) \/ Elapse(n)

Worker ==
  \/ StartTick \/ (\E n \in Tokens : Claim(n)) \/ EndTick
  \/ CheckLink \/ Prepare \/ (\E o \in SendOutcomes : Send(o)) \/ Finish \/ FailTick

Next == Requests \/ People \/ Time \/ Worker \/ \E recovery \in BOOLEAN : Crash(recovery)

Spec == Init /\ [][Next]_vars

-----------------------------------------------------------------------------
(* Properties *)

\* Nobody is mailed on terms they did not agree to: an eligible contact followed
\* a link requested under the terms now in force, also when these changed between
\* the two statements of a request (subscribe, deploy, reserveDelivery).  The one
\* exception: a request overtaken by a change of purpose alone, whose link and row
\* name the version that is still in force.
EligibleMeansAgreed ==
  \A c \in Contacts : Eligible(c) => agreed[c] \in IF c \in overtaken THEN Alike ELSE {policy}

\* A link confirms once: after a withdrawal it does not confirm again
\* (api.md: a single-use expiring token).
LinkWorksOnce == \A n \in Tokens : clicks[n] <= 1

\* However requests, crashes and retries fall, one request brings at most one
\* mail, and only one of a contact's links is good at a time.
OneMailPerRequest ==
  /\ \A n \in Tokens : copies[n] <= 1
  /\ \A m, n \in Tokens : IsLive(m) /\ IsLive(n) /\ owner[m] = owner[n] => m = n

\* Two requests at once do not get round the ten-minute resend cooldown.
CooldownHolds == \A c \in Contacts : inWindow[c] <= 1

\* Once a contact withdrew, was suppressed or is confirmed, at most the one mail
\* that had passed its check still leaves before a new request is made.
WithdrawalLetsOneMailOut == \A c \in Contacts : late[c] <= 1

\* The history, which is never rewritten, ends with the consent in force; only the
\* rows an import made have none before something else happens to them.
HistoryTellsConsent ==
  \A c \in Contacts :
    IF c \in imported THEN told[c] = Stranger /\ consent[c].state = "pending"
    ELSE told[c] = consent[c]

\* A confirmed consent never comes from a deployment, and never passes to another
\* version without a new click (prompt.md: deployment and rollback must never
\* restore obsolete consent).
OnlyClicksConfirm ==
  [][\A c \in Contacts :
       IsConfirmed(c)' /\ (~IsConfirmed(c) \/ consent'[c] /= consent[c])
         => \E n \in Tokens : owner[n] = c /\ clicks'[n] > clicks[n] /\ Version[terms[n]] = consent'[c].policy]_vars

\* Whoever sends mail may rely on the contract about who may be mailed, through
\* every interleaving of requests, links, withdrawals, imports and deployments.
Willing == {c \in Contacts : IsConfirmed(c) /\ consent[c].policy = Version[policy]} \ suppressed

Circle == INSTANCE Audience WITH People <- Contacts, willing <- Willing,
                                 barred <- suppressed, closed <- retired

ImplementsAudience == Circle!Spec

\* The confirmation mails keep to the at-most-once ledger.
Ledger ==
  [n \in Tokens |-> IF job[n] \in {"none", "pending"} THEN "open"
                    ELSE IF job[n] = "dispatching" THEN "attempted" ELSE "closed"]

Mail == INSTANCE MailLedger WITH Mails <- Tokens, ledger <- Ledger

ImplementsMailLedger == Mail!Spec
=============================================================================
