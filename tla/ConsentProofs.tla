--------------------------- MODULE ConsentProofs ----------------------------
(***************************************************************************)
(* Theorems about module Consent, for any contacts, requests and policies, *)
(* any number of links and any bounds.  Each part of the inductive         *)
(* invariant has a lemma of its own, with one step per action;             *)
(* InvariantHolds joins them.                                              *)
(***************************************************************************)
EXTENDS Consent, TLAPS

Holding == {"check", "prepare", "send", "finish"}

\* A request that has begun has a contact, and terms once it read them.
Named ==
  \A h \in Handlers :
    /\ handler[h].step /= "idle" => handler[h].who \in Contacts
    /\ handler[h].step \in {"suppression", "commit", "import"} => handler[h].read \in Policies

\* Tokens are issued in order, each to a contact.
Numbered ==
  \A n \in Tokens :
    /\ n <= issued => owner[n] \in Contacts
    /\ n > issued => /\ token[n] = "none" /\ job[n] = "none" /\ owner[n] = NoContact
                     /\ copies[n] = 0 /\ clicks[n] = 0

\* The worker's job is leased to it: deletions cancel pending jobs only, and leases
\* lapse only between Ticks.
Held ==
  /\ pc \in Holding => at \in Tokens /\ job[at] = "dispatching"
  /\ pc \notin Holding => at = 0
  /\ IF pc = "finish" THEN verdict \in SmtpResults ELSE verdict = "none"

\* A job that may still be worked on has left no copy behind.
Unmailed ==
  /\ \A n \in Tokens : copies[n] <= 1 /\ (job[n] \in {"none", "pending"} => copies[n] = 0)
  /\ pc \in {"check", "prepare", "send"} => copies[at] = 0
  /\ pc = "finish" /\ verdict = "transient" => copies[at] = 0

\* A link not yet followed belongs to a row written with it, under the same version.
Linked ==
  /\ \A n \in Tokens : Unused(n) =>
       /\ clicks[n] = 0 /\ consent[owner[n]].state /= "none"
       /\ terms[n] \in Policies /\ Version[terms[n]] = consent[owner[n]].policy
  /\ \A n \in Tokens : clicks[n] <= 1
  /\ \A m, n \in Tokens : Unused(m) /\ Unused(n) /\ owner[m] = owner[n] => m = n

\* A mail within ten minutes leaves the row fresh.
Cooling ==
  \A c \in Contacts : inWindow[c] > 0 => c \in recent /\ consent[c].state /= "none"

\* A row that does not exist is blank.
Blank == \A c \in Contacts : consent[c].state = "none" => consent[c] = Stranger

\* A confirmed consent is one to terms of the version its row names.
Agreeing ==
  \A c \in Contacts :
    IsConfirmed(c) => agreed[c] \in Policies /\ Version[agreed[c]] = consent[c].policy

\* Links and consents on terms like those in force are on these, unless overtaken.
Overtaking ==
  /\ \A n \in Tokens :
       Unused(n) /\ terms[n] \in Alike => terms[n] = policy \/ owner[n] \in overtaken
  /\ \A c \in Contacts :
       IsConfirmed(c) /\ agreed[c] \in Alike => agreed[c] = policy \/ c \in overtaken

\* A late mail has left no way to another one: the contact is out, or has no link.
Lately ==
  /\ \A c \in Contacts, n \in Tokens :
       late[c] > 0 /\ owner[n] = c /\ IsLive(n) => consent[c].state /= "pending" \/ c \in suppressed
  /\ pc \in {"prepare", "send"} => late[owner[at]] = 0

IInv ==
  /\ TypeOK /\ Named /\ Numbered /\ Held /\ Unmailed /\ Linked /\ Cooling /\ CooldownHolds
  /\ Blank /\ HistoryTellsConsent /\ Agreeing /\ Overtaking /\ Lately
  /\ WithdrawalLetsOneMailOut

-----------------------------------------------------------------------------
(* Lemmas *)

\* Types, in three parts.
TypeOfPeople ==
  /\ policy \in Policies /\ retired \in BOOLEAN
  /\ consent \in [Contacts -> Standing] /\ told \in [Contacts -> Standing]
  /\ recent \subseteq Contacts /\ suppressed \subseteq Contacts /\ imported \subseteq Contacts
  /\ stops \subseteq {"project", "installation"}
  /\ agreed \in [Contacts -> Policies \cup {0}] /\ budget \in 0..MaxDisturbances
  /\ late \in [Contacts -> Nat] /\ inWindow \in [Contacts -> Nat]
TypeOfLinks ==
  /\ token \in [Tokens -> {"none", "live", "expired", "used", "gone"}]
  /\ owner \in [Tokens -> Contacts \cup {NoContact}]
  /\ issued \in 0..MaxTokens
  /\ clicks \in [Tokens -> Nat] /\ terms \in [Tokens -> Policies \cup {0}]
  /\ overtaken \subseteq Contacts
  /\ handler \in [Handlers -> [step : HandlerSteps, who : Contacts \cup {NoContact},
                               read : Policies \cup {0}]]
TypeOfWork ==
  /\ job \in [Tokens -> JobStates] /\ due \subseteq Tokens
  /\ pc \in Steps /\ at \in 0..MaxTokens /\ verdict \in SmtpResults \cup {"none"}
  /\ copies \in [Tokens -> Nat]

LEMMA Forms ==
  ASSUME TypeOK
  PROVE  /\ TypeOfPeople /\ TypeOfLinks /\ TypeOfWork
         /\ \A c \in Contacts : consent[c].state \in {"none", "pending", "confirmed", "unsubscribed"}
                                /\ consent[c].policy \in Versions \cup {0}
         /\ \A h \in Handlers : /\ handler[h].step \in HandlerSteps
                                /\ handler[h].who \in Contacts \cup {NoContact}
                                /\ handler[h].read \in Policies \cup {0}
BY DEF TypeOK, TypeOfPeople, TypeOfLinks, TypeOfWork, Standing

LEMMA InitiallyHolds == Init => IInv
<1> SUFFICES ASSUME Init PROVE IInv OBVIOUS
<1> USE ConstantsOK DEF Init
<1>0. Stranger \in Standing
  BY DEF Stranger, Standing
<1>1. TypeOK
  <2>1. /\ consent \in [Contacts -> Standing] /\ told \in [Contacts -> Standing]
        /\ policy \in Policies /\ retired \in BOOLEAN
        /\ recent \subseteq Contacts /\ suppressed \subseteq Contacts /\ imported \subseteq Contacts
    BY <1>0
  <2>2. /\ token \in [Tokens -> {"none", "live", "expired", "used", "gone"}]
        /\ owner \in [Tokens -> Contacts \cup {NoContact}] /\ issued \in 0..MaxTokens
        /\ job \in [Tokens -> JobStates] /\ due \subseteq Tokens
    BY DEF JobStates
  <2>3. handler \in [Handlers -> [step : HandlerSteps, who : Contacts \cup {NoContact},
                                  read : Policies \cup {0}]]
    BY DEF Idle, HandlerSteps
  <2>4. pc \in Steps /\ at \in 0..MaxTokens /\ verdict \in SmtpResults \cup {"none"}
    BY DEF Steps
  <2>5. /\ copies \in [Tokens -> Nat] /\ clicks \in [Tokens -> Nat]
        /\ agreed \in [Contacts -> Policies \cup {0}] /\ terms \in [Tokens -> Policies \cup {0}]
        /\ overtaken \subseteq Contacts /\ late \in [Contacts -> Nat] /\ inWindow \in [Contacts -> Nat]
        /\ budget \in 0..MaxDisturbances /\ stops \subseteq {"project", "installation"}
    OBVIOUS
  <2> QED BY <2>1, <2>2, <2>3, <2>4, <2>5 DEF TypeOK
<1>2. Named /\ Numbered /\ Held
  BY DEF Named, Numbered, Held, Holding, Idle, Tokens
<1>3. Unmailed /\ Linked /\ Lately /\ WithdrawalLetsOneMailOut
  BY DEF Unmailed, Linked, Unused, Lately, IsLive, WithdrawalLetsOneMailOut
<1>4. Cooling /\ CooldownHolds
  BY DEF Cooling, CooldownHolds
<1>5. Blank /\ HistoryTellsConsent /\ Agreeing /\ Overtaking
  BY DEF Blank, HistoryTellsConsent, Agreeing, Overtaking, Unused, IsConfirmed, Stranger
<1> QED BY <1>1, <1>2, <1>3, <1>4, <1>5 DEF IInv

\* What an SMTP attempt leaves behind, and what becomes of its job.
LEMMA Outcomes ==
  /\ \A o \in SendOutcomes : /\ o.result \in SmtpResults /\ o.copy \in {0, 1}
                             /\ o.result = "transient" => o.copy = 0
  /\ \A v \in SmtpResults :
       /\ JobAfterSend(v) \in {"complete", "pending", "uncertain", "failed"}
       /\ JobAfterSend(v) = "pending" => v = "transient"
<1>1. \A o \in SendOutcomes : /\ o.result \in SmtpResults /\ o.copy \in {0, 1}
                              /\ o.result = "transient" => o.copy = 0
  BY DEF SendOutcomes, Classified, SmtpResults
<1>2. \A v \in SmtpResults :
        /\ JobAfterSend(v) \in {"complete", "pending", "uncertain", "failed"}
        /\ JobAfterSend(v) = "pending" => v = "transient"
  BY DEF JobAfterSend, SmtpResults
<1> QED BY <1>1, <1>2

\* What the statements write into the rows of consent.
LEMMA RowWritten ==
  ASSUME NEW c \in Contacts, NEW st, NEW t, SetConsent(Only(c, st, t))
  PROVE  /\ consent' = [x \in Contacts |-> IF x = c THEN [state |-> st, policy |-> t] ELSE consent[x]]
         /\ told' = [x \in Contacts |-> IF x = c THEN [state |-> st, policy |-> t] ELSE told[x]]
         /\ recent' = recent \cup {c} /\ imported' = imported \ {c}
<1>1. DOMAIN Only(c, st, t) = {c} /\ Only(c, st, t)[c] = [state |-> st, policy |-> t]
  BY DEF Only
<1> QED BY <1>1 DEF SetConsent

LEMMA RowsMoved ==
  ASSUME NEW version, SetConsent(Reconsent(version))
  PROVE  /\ consent' = [x \in Contacts |-> IF IsConfirmed(x) THEN [state |-> "pending", policy |-> Version[version]]
                                           ELSE consent[x]]
         /\ told' = [x \in Contacts |-> IF IsConfirmed(x) THEN [state |-> "pending", policy |-> Version[version]]
                                        ELSE told[x]]
         /\ recent' = recent \cup {x \in Contacts : IsConfirmed(x)}
         /\ imported' = imported \ {x \in Contacts : IsConfirmed(x)}
<1> DEFINE new == Reconsent(version)
<1>1. DOMAIN new = {x \in Contacts : IsConfirmed(x)}
  BY DEF Reconsent, IsConfirmed
<1>2. \A x \in DOMAIN new : new[x] = [state |-> "pending", policy |-> Version[version]]
  BY DEF Reconsent
<1>3. /\ consent' = [x \in Contacts |-> IF x \in DOMAIN new THEN new[x] ELSE consent[x]]
      /\ told' = [x \in Contacts |-> IF x \in DOMAIN new THEN new[x] ELSE told[x]]
      /\ recent' = recent \cup DOMAIN new /\ imported' = imported \ DOMAIN new
  BY DEF SetConsent
<1> HIDE DEF new
<1>4. consent' = [x \in Contacts |-> IF IsConfirmed(x) THEN [state |-> "pending", policy |-> Version[version]]
                                     ELSE consent[x]]
  BY <1>1, <1>2, <1>3
<1>5. told' = [x \in Contacts |-> IF IsConfirmed(x) THEN [state |-> "pending", policy |-> Version[version]]
                                  ELSE told[x]]
  BY <1>1, <1>2, <1>3
<1> QED BY <1>1, <1>3, <1>4, <1>5

\* The transaction of a request: nothing, or a row, a link and its job.
CommitsNothing(h) == UNCHANGED <<consent, told, recent, suppressed, imported, token, owner, issued,
                                 job, due, terms, overtaken, inWindow, late>>
CommitsLink(h, c, n) ==
  /\ ~IsQuiet(c) /\ n \in Tokens /\ n = issued + 1 /\ c \in Contacts
  /\ consent' = [x \in Contacts |-> IF x = c THEN [state |-> "pending", policy |-> Version[handler[h].read]]
                                    ELSE consent[x]]
  /\ told' = [x \in Contacts |-> IF x = c THEN [state |-> "pending", policy |-> Version[handler[h].read]]
                                 ELSE told[x]]
  /\ recent' = recent \cup {c} /\ imported' = imported \ {c}
  /\ token' = [x \in Tokens |->
       IF x = n THEN "live" ELSE IF owner[x] = c /\ Unused(x) THEN "gone" ELSE token[x]]
  /\ owner' = [owner EXCEPT ![n] = c] /\ issued' = n
  /\ job' = [job EXCEPT ![n] = "pending"] /\ due' = due \cup {n}
  /\ terms' = [terms EXCEPT ![n] = handler[h].read] /\ handler[h].read \in Policies
  /\ overtaken' = IF handler[h].read \in Alike \ {policy} THEN overtaken \cup {c}
                  ELSE overtaken \ {c}
  /\ inWindow' = [inWindow EXCEPT ![c] = inWindow[c] + 1] /\ late' = [late EXCEPT ![c] = 0]
  /\ UNCHANGED suppressed

LEMMA Committed ==
  ASSUME Named, NEW h \in Handlers, Commit(h)
  PROVE  /\ handler' = [handler EXCEPT ![h] = Idle]
         /\ UNCHANGED <<policy, retired, stops, pc, at, verdict, copies, clicks, agreed, budget>>
         /\ CommitsNothing(h) \/ CommitsLink(h, handler[h].who, issued + 1)
<1> DEFINE c == handler[h].who
<1>1. c \in Contacts /\ handler[h].read \in Policies
  BY DEF Commit, Named
<1>2. handler' = [handler EXCEPT ![h] = Idle]
      /\ UNCHANGED <<policy, retired, stops, pc, at, verdict, copies, clicks, agreed, budget>>
  BY DEF Commit, Leave, list, worker
<1>3. CASE UNCHANGED <<people, tokens, queue, terms, overtaken, inWindow, late>>
  BY <1>2, <1>3 DEF CommitsNothing, people, tokens, queue
<1>4. CASE ~UNCHANGED <<people, tokens, queue, terms, overtaken, inWindow, late>>
  <2>1. /\ ~IsQuiet(c) /\ issued + 1 \in Tokens
        /\ SetConsent(Only(c, "pending", Version[handler[h].read]))
        /\ token' = [x \in Tokens |->
             IF x = issued + 1 THEN "live" ELSE IF owner[x] = c /\ Unused(x) THEN "gone" ELSE token[x]]
        /\ owner' = [owner EXCEPT ![issued + 1] = c]
        /\ issued' = issued + 1
        /\ job' = [job EXCEPT ![issued + 1] = "pending"] /\ due' = due \cup {issued + 1}
        /\ terms' = [terms EXCEPT ![issued + 1] = handler[h].read]
        /\ overtaken' = IF handler[h].read \in Alike \ {policy} THEN overtaken \cup {c}
                        ELSE overtaken \ {c}
        /\ inWindow' = [inWindow EXCEPT ![c] = inWindow[c] + 1] /\ late' = [late EXCEPT ![c] = 0]
        /\ UNCHANGED suppressed
    BY <1>4 DEF Commit
  <2> QED BY <1>1, <1>2, <2>1, RowWritten DEF CommitsLink
<1> QED BY <1>3, <1>4

\* A token that was issued has a contact.
LEMMA Owned ==
  ASSUME TypeOK, Numbered, NEW n \in Tokens,
         token[n] /= "none" \/ job[n] /= "none" \/ copies[n] > 0
  PROVE  owner[n] \in Contacts /\ n <= issued
<1>1. issued \in Nat /\ n \in Nat
  BY ConstantsOK DEF TypeOK, Tokens
<1>2. ~(n > issued)
  BY DEF Numbered
<1> QED BY <1>1, <1>2 DEF Numbered

\* The job the worker gives up leaves its hands.
LEMMA Settled ==
  ASSUME TypeOK, at \in Tokens, NEW st \in JobStates, Settle(st)
  PROVE  /\ job' = [job EXCEPT ![at] = st] /\ job' \in [Tokens -> JobStates]
         /\ due' = due \ {at} /\ pc' = "claim" /\ at' = 0 /\ verdict' = "none"
BY DEF Settle, Goto, TypeOK


\* The worker goes on with its job, or leaves it in its last or in its first state.
GoesOn == /\ UNCHANGED <<job, due, at, verdict>>
          /\ \/ pc = "check" /\ pc' = "prepare" /\ MayMail(at)
             \/ pc = "prepare" /\ pc' = "send"
Leaves(st) == /\ job' = [job EXCEPT ![at] = st]
              /\ pc' = "claim" /\ at' = 0 /\ verdict' = "none"
              /\ st \in {"complete", "cancelled", "failed", "uncertain", "pending"}
              /\ st = "pending" => pc = "prepare" \/ (pc = "finish" /\ verdict = "transient")

LEMMA WorkerMoves ==
  ASSUME TypeOK, Held, CheckLink \/ Prepare \/ Finish
  PROVE  /\ at \in Tokens /\ job[at] = "dispatching"
         /\ UNCHANGED <<policy, retired, consent, told, recent, suppressed, imported, stops, token,
                        owner, issued, handler, copies, clicks, agreed, terms, overtaken, late, inWindow>>
         /\ GoesOn \/ \E st \in JobStates : Leaves(st)
<1>1. at \in Tokens /\ job[at] = "dispatching"
  BY DEF Held, Holding, CheckLink, Prepare, Finish
<1>2. UNCHANGED <<policy, retired, consent, told, recent, suppressed, imported, stops, token,
                  owner, issued, handler, copies, clicks, agreed, terms, overtaken, late, inWindow>>
  BY DEF CheckLink, Prepare, Finish, list, people, tokens, history
<1>g. SUFFICES GoesOn \/ \E st \in JobStates : Leaves(st)
  BY <1>1, <1>2
<1>3. CASE CheckLink
  <2>1. CASE Settle("cancelled")
    BY <1>1, <2>1, Settled DEF Leaves, JobStates
  <2>2. CASE MayMail(at) /\ Goto("prepare") /\ UNCHANGED <<queue, at, verdict>>
    BY <1>3, <2>2 DEF CheckLink, GoesOn, queue, Goto
  <2> QED BY <1>1, <1>2, <1>3, <2>1, <2>2 DEF CheckLink
<1>4. CASE Prepare
  <2>1. pc = "prepare"
    BY <1>4 DEF Prepare
  <2>2. CASE Settle("failed")
    BY <1>1, <2>1, <2>2, Settled DEF Leaves, JobStates
  <2>3. CASE Settle("pending")
    BY <1>1, <2>1, <2>3, Settled DEF Leaves, JobStates
  <2>4. CASE Goto("send") /\ UNCHANGED <<queue, at, verdict>>
    BY <2>1, <2>4 DEF GoesOn, queue, Goto
  <2> QED BY <1>1, <1>2, <1>4, <2>2, <2>3, <2>4 DEF Prepare
<1>5. CASE Finish
  <2>1. verdict \in SmtpResults /\ Settle(JobAfterSend(verdict)) /\ pc = "finish"
    BY <1>5 DEF Finish, Held
  <2> DEFINE st == JobAfterSend(verdict)
  <2>2. /\ st \in {"complete", "pending", "uncertain", "failed"} /\ st \in JobStates
        /\ (st = "pending" => verdict = "transient") /\ Settle(st)
    BY <2>1, Outcomes DEF JobStates
  <2> HIDE DEF st
  <2>3. Leaves(st)
    BY <1>1, <2>1, <2>2, Settled DEF Leaves
  <2> QED BY <1>1, <1>2, <2>2, <2>3
<1> QED BY <1>3, <1>4, <1>5

\* Types of the rows about people.
LEMMA PeopleTyped == IInv /\ [Next]_vars => TypeOfPeople'
<1> SUFFICES ASSUME IInv, [Next]_vars PROVE TypeOfPeople' OBVIOUS
<1> TypeOK /\ Named /\ Numbered /\ Held BY DEF IInv
<1>t. Disturb => budget' \in 0..MaxDisturbances
  BY ConstantsOK DEF Disturb, TypeOK
<1>s. \A state \in {"none", "pending", "confirmed", "unsubscribed"}, t \in Versions \cup {0} :
        [state |-> state, policy |-> t] \in Standing
  BY DEF Standing
<1>i. TypeOfPeople /\ TypeOfLinks /\ TypeOfWork
  BY Forms
<1>1. ASSUME NEW h \in Handlers, NEW c \in Contacts, Ask(h, c)
      PROVE  TypeOfPeople'
  BY <1>1, <1>i DEF Ask, vars, list, people, tokens, queue, worker, history, TypeOfPeople,
     Named, Numbered, Held, Holding, Stranger
<1>2. ASSUME NEW h \in Handlers, NEW c \in Contacts, BeginImport(h, c)
      PROVE  TypeOfPeople'
  BY <1>2, <1>t, <1>i DEF BeginImport, vars, list, people, tokens, queue, worker, history,
     TypeOfPeople, Named, Numbered, Held, Holding, Stranger
<1>3. ASSUME NEW h \in Handlers, Import(h)
      PROVE  TypeOfPeople'
  <2>1. [state |-> "pending", policy |-> Version[handler[h].read]] \in Standing
    BY <1>3, <1>s DEF Import, Named, Versions
  <2>2. handler[h].who \in Contacts
    BY <1>3 DEF Import, Named
  <2> QED BY <1>3, <1>i, <2>1, <2>2 DEF Import, list, people, history, TypeOfPeople
<1>4. ASSUME NEW h \in Handlers, Limit(h)
      PROVE  TypeOfPeople'
  BY <1>4, <1>i DEF Limit, Advance, Leave, Idle, vars, list, people, tokens, queue, worker,
     history, TypeOfPeople, Named, Numbered, Held, Holding, Stranger
<1>5. ASSUME NEW h \in Handlers, ReadPolicy(h)
      PROVE  TypeOfPeople'
  BY <1>5, <1>i DEF ReadPolicy, Leave, Idle, vars, list, people, tokens, queue, worker,
     history, TypeOfPeople, Named, Numbered, Held, Holding, Stranger
<1>6. ASSUME NEW h \in Handlers, ReadSuppression(h)
      PROVE  TypeOfPeople'
  BY <1>6, <1>t, <1>i DEF ReadSuppression, Advance, Leave, Idle, vars, list, people, tokens, queue,
     worker, history, TypeOfPeople, Named, Numbered, Held, Holding, Stranger
<1>7. ASSUME NEW h \in Handlers, Commit(h)
      PROVE  TypeOfPeople'
  <2>1. CASE CommitsNothing(h)
    BY <1>7, <1>i, <2>1, Committed DEF CommitsNothing, TypeOfPeople
  <2>2. CASE CommitsLink(h, handler[h].who, issued + 1)
    <3>1. [state |-> "pending", policy |-> Version[handler[h].read]] \in Standing
      BY <1>s, <2>2 DEF CommitsLink, Versions
    <3>2. consent' \in [Contacts -> Standing] /\ told' \in [Contacts -> Standing]
      BY <1>i, <2>2, <3>1 DEF CommitsLink, TypeOfPeople
    <3>3. late' \in [Contacts -> Nat] /\ inWindow' \in [Contacts -> Nat]
      BY <1>i, <2>2 DEF CommitsLink, TypeOfPeople
    <3>4. recent' \subseteq Contacts /\ imported' \subseteq Contacts /\ suppressed' \subseteq Contacts
      BY <1>i, <2>2 DEF CommitsLink, TypeOfPeople
    <3> QED BY <1>7, <1>i, <3>2, <3>3, <3>4, Committed DEF TypeOfPeople
  <2> QED BY <1>7, <2>1, <2>2, Committed
<1>8. ASSUME NEW n \in Tokens, Confirm(n)
      PROVE  TypeOfPeople'
  <2> DEFINE c == owner[n]
  <2>1. c \in Contacts /\ SetConsent(Only(c, "confirmed", consent[c].policy))
    BY <1>8, Owned DEF Confirm, IsLive
  <2>2. [state |-> "confirmed", policy |-> consent[c].policy] \in Standing
    BY <1>s, <2>1, Forms
  <2>3. consent' \in [Contacts -> Standing] /\ told' \in [Contacts -> Standing]
        /\ recent' \subseteq Contacts /\ imported' \subseteq Contacts
    BY <1>i, <2>1, <2>2, RowWritten DEF TypeOfPeople
  <2>4. agreed' \in [Contacts -> Policies \cup {0}]
    BY <1>8, <1>i, Forms DEF Confirm, TypeOfPeople, TypeOfLinks
  <2> QED BY <1>8, <1>i, <2>3, <2>4 DEF Confirm, list, TypeOfPeople
<1>9. ASSUME NEW c \in Contacts, DeleteContact(c)
      PROVE  TypeOfPeople'
  BY <1>9, <1>t, <1>s, Forms, <1>i DEF DeleteContact, Drop, vars, list, people, tokens, queue,
     worker, history, TypeOfPeople, Named, Numbered, Held, Holding, Stranger
<1>10. ASSUME NEW c \in Contacts, Suppress(c)
      PROVE  TypeOfPeople'
  BY <1>10, <1>t, <1>i DEF Suppress, vars, list, people, tokens, queue, worker, history,
     TypeOfPeople, Named, Numbered, Held, Holding, Stranger
<1>11. ASSUME NEW c \in Contacts, NEW wide \in BOOLEAN, Unsubscribe(c, wide)
      PROVE  TypeOfPeople'
  BY <1>11, <1>t, <1>s, Forms, <1>i, RowWritten DEF Unsubscribe, vars, list, people, tokens,
     queue, worker, history, TypeOfPeople, Named, Numbered, Held, Holding, Stranger
<1>12. ASSUME NEW version \in Policies, NEW retire \in BOOLEAN, Deploy(version, retire)
      PROVE  TypeOfPeople'
  <2>1. [state |-> "pending", policy |-> Version[version]] \in Standing
    BY <1>s, <1>12 DEF Versions
  <2>2. SetConsent(Reconsent(version)) =>
          /\ consent' \in [Contacts -> Standing] /\ told' \in [Contacts -> Standing]
          /\ recent' \subseteq Contacts /\ imported' \subseteq Contacts
    BY <1>i, <2>1, RowsMoved DEF TypeOfPeople
  <2> QED BY <1>12, <1>t, <1>i, <2>2 DEF Deploy, history, TypeOfPeople
<1>13. CASE Retain
  BY <1>13, <1>t, <1>i DEF Retain, Drop, vars, list, people, tokens, queue, worker, history,
     TypeOfPeople, Named, Numbered, Held, Holding, Stranger
<1>14. CASE PauseProject
  BY <1>14, <1>t, <1>i DEF PauseProject, vars, list, people, tokens, queue, worker, history,
     TypeOfPeople, Named, Numbered, Held, Holding, Stranger
<1>15. ASSUME NEW stop \in {"project", "installation"}, Resume(stop)
      PROVE  TypeOfPeople'
  BY <1>15, <1>i DEF Resume, vars, list, people, tokens, queue, worker, history, TypeOfPeople,
     Named, Numbered, Held, Holding, Stranger
<1>16. ASSUME NEW c \in Contacts, Cool(c)
      PROVE  TypeOfPeople'
  BY <1>16, <1>i DEF Cool, vars, list, people, tokens, queue, worker, history, TypeOfPeople,
     Named, Numbered, Held, Holding, Stranger
<1>17. ASSUME NEW n \in Tokens, Expire(n)
      PROVE  TypeOfPeople'
  BY <1>17, <1>t, <1>i DEF Expire, IsLive, vars, list, people, tokens, queue, worker, history,
     TypeOfPeople, Named, Numbered, Held, Holding, Stranger
<1>18. ASSUME NEW n \in Tokens, Elapse(n)
      PROVE  TypeOfPeople'
  BY <1>18, <1>i DEF Elapse, vars, list, people, tokens, queue, worker, history, TypeOfPeople,
     Named, Numbered, Held, Holding, Stranger
<1>19. CASE StartTick
  BY <1>19, <1>t, <1>i DEF StartTick, ExpireLeases, Goto, vars, list, people, tokens, queue, worker,
     history, TypeOfPeople, Named, Numbered, Held, Holding, Stranger
<1>20. ASSUME NEW n \in Tokens, Claim(n)
      PROVE  TypeOfPeople'
  BY <1>20, <1>i DEF Claim, Goto, vars, list, people, tokens, queue, worker, history,
     TypeOfPeople, Named, Numbered, Held, Holding, Stranger
<1>21. CASE EndTick
  BY <1>21, <1>i DEF EndTick, Goto, vars, list, people, tokens, queue, worker, history,
     TypeOfPeople, Named, Numbered, Held, Holding, Stranger
<1>22. CASE CheckLink
  BY <1>22, <1>t, <1>i, Settled DEF CheckLink, MayMail, Goto, vars, list, people, tokens, queue,
     worker, history, TypeOfPeople, Named, Numbered, Held, Holding, Stranger
<1>23. CASE Prepare
  BY <1>23, <1>t, <1>i, Settled DEF Prepare, Goto, vars, list, people, tokens, queue, worker,
     history, TypeOfPeople, Named, Numbered, Held, Holding, Stranger
<1>24. ASSUME NEW o \in SendOutcomes, Send(o)
      PROVE  TypeOfPeople'
  <2>1. at \in Tokens /\ job[at] = "dispatching"
    BY <1>24 DEF Send, Held, Holding
  <2>2. owner[at] \in Contacts
    BY <2>1, Owned
  <2>3. late' \in [Contacts -> Nat]
    BY <1>24, <1>i, <2>2 DEF Send, TypeOfPeople
  <2> QED BY <1>24, <1>t, <1>i, <2>3 DEF Send, TypeOfPeople, list, people
<1>25. CASE Finish
  BY <1>25, <1>i, Settled, Outcomes DEF Finish, Goto, vars, list, people, tokens, queue,
     worker, history, TypeOfPeople, Named, Numbered, Held, Holding, Stranger
<1>26. ASSUME NEW recovery \in BOOLEAN, Crash(recovery)
      PROVE  TypeOfPeople'
  BY <1>26, <1>t, <1>i DEF Crash, Goto, Idle, vars, list, people, tokens, queue, worker,
     history, TypeOfPeople, Named, Numbered, Held, Holding, Stranger
<1>27. CASE UNCHANGED vars
  BY <1>27, <1>i DEF vars, list, people, tokens, queue, worker, history, TypeOfPeople, Named,
     Numbered, Held, Holding, Stranger
<1>28. CASE FailTick
  BY <1>28, <1>t, <1>i DEF FailTick, Goto, vars, list, people, tokens, queue, worker,
     history, TypeOfPeople, Named, Numbered, Held, Holding, Stranger
<1> QED BY <1>1, <1>2, <1>3, <1>4, <1>5, <1>6, <1>7, <1>8, <1>9, <1>10, <1>11, <1>12, <1>13,
   <1>14, <1>15, <1>16, <1>17, <1>18, <1>19, <1>20, <1>21, <1>22, <1>23, <1>24, <1>25, <1>26,
   <1>27, <1>28 DEF Next, Requests, People, Time, Worker

\* Types of links and requests.
LEMMA LinksTyped == IInv /\ [Next]_vars => TypeOfLinks'
<1> SUFFICES ASSUME IInv, [Next]_vars PROVE TypeOfLinks' OBVIOUS
<1> TypeOK /\ Named /\ Numbered BY DEF IInv
<1>i. TypeOfLinks /\ TypeOfPeople
  BY Forms
<1>j. MaxTokens \in Nat
  BY ConstantsOK
<1>1. ASSUME NEW h \in Handlers, NEW c \in Contacts, Ask(h, c)
      PROVE  TypeOfLinks'
  BY <1>1, <1>i, Forms DEF Ask, vars, list, people, tokens, queue, worker, history,
     TypeOfLinks, Named, Numbered, HandlerSteps, Tokens
<1>2. ASSUME NEW h \in Handlers, NEW c \in Contacts, BeginImport(h, c)
      PROVE  TypeOfLinks'
  <2>1. /\ policy \in Policies
        /\ handler' = [handler EXCEPT ![h] = [step |-> "import", who |-> c, read |-> policy]]
    BY <1>2, <1>i DEF BeginImport, TypeOfPeople
  <2>2. [step |-> "import", who |-> c, read |-> policy]
          \in [step : HandlerSteps, who : Contacts \cup {NoContact}, read : Policies \cup {0}]
    BY <2>1 DEF HandlerSteps
  <2>3. handler' \in [Handlers -> [step : HandlerSteps, who : Contacts \cup {NoContact},
                                   read : Policies \cup {0}]]
    BY <1>i, <2>1, <2>2 DEF TypeOfLinks
  <2> QED BY <1>2, <1>i, <2>3 DEF BeginImport, TypeOfLinks, tokens, history
<1>3. ASSUME NEW h \in Handlers, Import(h)
      PROVE  TypeOfLinks'
  BY <1>3, <1>i, Forms DEF Import, NoRowYet, Leave, Idle, vars, list, people, tokens, queue,
     worker, history, TypeOfLinks, Named, Numbered, HandlerSteps, Tokens
<1>4. ASSUME NEW h \in Handlers, Limit(h)
      PROVE  TypeOfLinks'
  BY <1>4, <1>i, Forms DEF Limit, Advance, Leave, Idle, vars, list, people, tokens, queue,
     worker, history, TypeOfLinks, Named, Numbered, HandlerSteps, Tokens
<1>5. ASSUME NEW h \in Handlers, ReadPolicy(h)
      PROVE  TypeOfLinks'
  BY <1>5, <1>i, Forms DEF ReadPolicy, Leave, Idle, vars, list, people, tokens, queue, worker,
     history, TypeOfLinks, Named, Numbered, HandlerSteps, Tokens
<1>6. ASSUME NEW h \in Handlers, ReadSuppression(h)
      PROVE  TypeOfLinks'
  BY <1>6, <1>i, Forms DEF ReadSuppression, Advance, Leave, Idle, vars, list, people, tokens,
     queue, worker, history, TypeOfLinks, Named, Numbered, HandlerSteps, Tokens
<1>7. ASSUME NEW h \in Handlers, Commit(h)
      PROVE  TypeOfLinks'
  BY <1>7, <1>i, Forms, Committed DEF CommitsNothing, CommitsLink, Idle, IsQuiet, vars, list,
     people, tokens, queue, worker, history, TypeOfLinks, Named, Numbered, HandlerSteps, Tokens
<1>8. ASSUME NEW n \in Tokens, Confirm(n)
      PROVE  TypeOfLinks'
  BY <1>8, <1>i, Forms, RowWritten DEF Confirm, IsLive, vars, list, people, tokens, queue,
     worker, history, TypeOfLinks, Named, Numbered, HandlerSteps, Tokens
<1>9. ASSUME NEW c \in Contacts, DeleteContact(c)
      PROVE  TypeOfLinks'
  BY <1>9, <1>i, Forms DEF DeleteContact, Drop, vars, list, people, tokens, queue, worker,
     history, TypeOfLinks, Named, Numbered, HandlerSteps, Tokens
<1>10. ASSUME NEW c \in Contacts, Suppress(c)
      PROVE  TypeOfLinks'
  BY <1>10, <1>i, Forms DEF Suppress, vars, list, people, tokens, queue, worker, history,
     TypeOfLinks, Named, Numbered, HandlerSteps, Tokens
<1>11. ASSUME NEW c \in Contacts, NEW wide \in BOOLEAN, Unsubscribe(c, wide)
      PROVE  TypeOfLinks'
  BY <1>11, <1>i, Forms, RowWritten DEF Unsubscribe, vars, list, people, tokens, queue, worker,
     history, TypeOfLinks, Named, Numbered, HandlerSteps, Tokens
<1>12. ASSUME NEW version \in Policies, NEW retire \in BOOLEAN, Deploy(version, retire)
      PROVE  TypeOfLinks'
  BY <1>12, <1>i, Forms, RowsMoved DEF Deploy, Drop, Unused, vars, list, people, tokens, queue,
     worker, history, TypeOfLinks, Named, Numbered, HandlerSteps, Tokens
<1>13. CASE Retain
  BY <1>13, <1>i, Forms DEF Retain, Drop, vars, list, people, tokens, queue, worker, history,
     TypeOfLinks, Named, Numbered, HandlerSteps, Tokens
<1>14. CASE PauseProject
  BY <1>14, <1>i, Forms DEF PauseProject, vars, list, people, tokens, queue, worker, history,
     TypeOfLinks, Named, Numbered, HandlerSteps, Tokens
<1>15. ASSUME NEW stop \in {"project", "installation"}, Resume(stop)
      PROVE  TypeOfLinks'
  BY <1>15, <1>i, Forms DEF Resume, vars, list, people, tokens, queue, worker, history,
     TypeOfLinks, Named, Numbered, HandlerSteps, Tokens
<1>16. ASSUME NEW c \in Contacts, Cool(c)
      PROVE  TypeOfLinks'
  BY <1>16, <1>i, Forms DEF Cool, vars, list, people, tokens, queue, worker, history,
     TypeOfLinks, Named, Numbered, HandlerSteps, Tokens
<1>17. ASSUME NEW n \in Tokens, Expire(n)
      PROVE  TypeOfLinks'
  BY <1>17, <1>i, Forms DEF Expire, IsLive, vars, list, people, tokens, queue, worker, history,
     TypeOfLinks, Named, Numbered, HandlerSteps, Tokens
<1>18. ASSUME NEW n \in Tokens, Elapse(n)
      PROVE  TypeOfLinks'
  BY <1>18, <1>i, Forms DEF Elapse, vars, list, people, tokens, queue, worker, history,
     TypeOfLinks, Named, Numbered, HandlerSteps, Tokens
<1>19. CASE StartTick
  BY <1>19, <1>i, Forms DEF StartTick, ExpireLeases, Goto, vars, list, people, tokens, queue,
     worker, history, TypeOfLinks, Named, Numbered, HandlerSteps, Tokens
<1>20. ASSUME NEW n \in Tokens, Claim(n)
      PROVE  TypeOfLinks'
  BY <1>20, <1>i, Forms DEF Claim, Goto, vars, list, people, tokens, queue, worker, history,
     TypeOfLinks, Named, Numbered, HandlerSteps, Tokens
<1>21. CASE EndTick
  BY <1>21, <1>i, Forms DEF EndTick, Goto, vars, list, people, tokens, queue, worker, history,
     TypeOfLinks, Named, Numbered, HandlerSteps, Tokens
<1>22. CASE CheckLink
  BY <1>22, <1>i, Forms, Settled DEF CheckLink, MayMail, Goto, vars, list, people, tokens,
     queue, worker, history, TypeOfLinks, Named, Numbered, HandlerSteps, Tokens
<1>23. CASE Prepare
  BY <1>23, <1>i, Forms, Settled DEF Prepare, Goto, vars, list, people, tokens, queue, worker,
     history, TypeOfLinks, Named, Numbered, HandlerSteps, Tokens
<1>24. ASSUME NEW o \in SendOutcomes, Send(o)
      PROVE  TypeOfLinks'
  BY <1>24, <1>i, Forms, Outcomes DEF Send, Goto, vars, list, people, tokens, queue, worker,
     history, TypeOfLinks, Named, Numbered, HandlerSteps, Tokens
<1>25. CASE Finish
  BY <1>25, <1>i, Forms, Settled, Outcomes DEF Finish, Goto, vars, list, people, tokens, queue,
     worker, history, TypeOfLinks, Named, Numbered, HandlerSteps, Tokens
<1>26. ASSUME NEW recovery \in BOOLEAN, Crash(recovery)
      PROVE  TypeOfLinks'
  BY <1>26, <1>i, Forms DEF Crash, Goto, Idle, vars, list, people, tokens, queue, worker,
     history, TypeOfLinks, Named, Numbered, HandlerSteps, Tokens
<1>27. CASE UNCHANGED vars
  BY <1>27, <1>i, Forms DEF vars, list, people, tokens, queue, worker, history, TypeOfLinks,
     Named, Numbered, HandlerSteps, Tokens
<1>28. CASE FailTick
  BY <1>28, <1>i, Forms DEF FailTick, Goto, vars, list, people, tokens, queue, worker,
     history, TypeOfLinks, Named, Numbered, HandlerSteps, Tokens
<1> QED BY <1>1, <1>2, <1>3, <1>4, <1>5, <1>6, <1>7, <1>8, <1>9, <1>10, <1>11, <1>12, <1>13,
   <1>14, <1>15, <1>16, <1>17, <1>18, <1>19, <1>20, <1>21, <1>22, <1>23, <1>24, <1>25, <1>26,
   <1>27, <1>28 DEF Next, Requests, People, Time, Worker

\* Types of the worker's part, and the job it holds.
LEMMA WorkTyped == IInv /\ [Next]_vars => TypeOfWork' /\ Held'
<1> SUFFICES ASSUME IInv, [Next]_vars PROVE TypeOfWork' /\ Held' OBVIOUS
<1> TypeOK /\ Named /\ Numbered /\ Held BY DEF IInv
<1>i. TypeOfWork
  BY Forms
<1>j. MaxTokens \in Nat
  BY ConstantsOK
<1>1. ASSUME NEW h \in Handlers, NEW c \in Contacts, Ask(h, c)
      PROVE  TypeOfWork' /\ Held'
  BY <1>1, <1>i DEF Ask, vars, list, people, tokens, queue, worker, history, TypeOfWork, Held,
     Holding, JobStates, Steps, SmtpResults, SendOutcomes, JobAfterSend, Tokens
<1>2. ASSUME NEW h \in Handlers, NEW c \in Contacts, BeginImport(h, c)
      PROVE  TypeOfWork' /\ Held'
  BY <1>2, <1>i DEF BeginImport, vars, list, people, tokens, queue, worker, history,
     TypeOfWork, Held, Holding, JobStates, Steps, SmtpResults, SendOutcomes, JobAfterSend,
     Tokens
<1>3. ASSUME NEW h \in Handlers, Import(h)
      PROVE  TypeOfWork' /\ Held'
  BY <1>3, <1>i DEF Import, NoRowYet, Leave, Idle, vars, list, people, tokens, queue, worker,
     history, TypeOfWork, Held, Holding, JobStates, Steps, SmtpResults, SendOutcomes,
     JobAfterSend, Tokens
<1>4. ASSUME NEW h \in Handlers, Limit(h)
      PROVE  TypeOfWork' /\ Held'
  BY <1>4, <1>i DEF Limit, Advance, Leave, Idle, vars, list, people, tokens, queue, worker,
     history, TypeOfWork, Held, Holding, JobStates, Steps, SmtpResults, SendOutcomes,
     JobAfterSend, Tokens
<1>5. ASSUME NEW h \in Handlers, ReadPolicy(h)
      PROVE  TypeOfWork' /\ Held'
  BY <1>5, <1>i DEF ReadPolicy, Leave, Idle, vars, list, people, tokens, queue, worker,
     history, TypeOfWork, Held, Holding, JobStates, Steps, SmtpResults, SendOutcomes,
     JobAfterSend, Tokens
<1>6. ASSUME NEW h \in Handlers, ReadSuppression(h)
      PROVE  TypeOfWork' /\ Held'
  BY <1>6, <1>i DEF ReadSuppression, Advance, Leave, Idle, vars, list, people, tokens, queue,
     worker, history, TypeOfWork, Held, Holding, JobStates, Steps, SmtpResults, SendOutcomes,
     JobAfterSend, Tokens
<1>7. ASSUME NEW h \in Handlers, Commit(h)
      PROVE  TypeOfWork' /\ Held'
  <2>1. CASE CommitsNothing(h)
    BY <1>7, <1>i, <2>1, Committed DEF CommitsNothing, TypeOfWork, Held
  <2>2. CASE CommitsLink(h, handler[h].who, issued + 1)
    <3>1. job' \in [Tokens -> JobStates] /\ due' \subseteq Tokens
      BY <1>i, <2>2 DEF CommitsLink, TypeOfWork, JobStates
    <3>2. pc \in Holding => at /= issued + 1
      BY <2>2 DEF Numbered, Held, CommitsLink, Tokens, TypeOK
    <3>3. pc \in Holding => job'[at] = job[at]
      BY <1>i, <2>2, <3>2 DEF CommitsLink, Held, TypeOfWork
    <3> QED BY <1>7, <1>i, <3>1, <3>3, Committed DEF TypeOfWork, Held
  <2> QED BY <1>7, <2>1, <2>2, Committed
<1>8. ASSUME NEW n \in Tokens, Confirm(n)
      PROVE  TypeOfWork' /\ Held'
  BY <1>8, <1>i, RowWritten DEF Confirm, IsLive, vars, list, people, tokens, queue, worker,
     history, TypeOfWork, Held, Holding, JobStates, Steps, SmtpResults, SendOutcomes,
     JobAfterSend, Tokens
<1>9. ASSUME NEW c \in Contacts, DeleteContact(c)
      PROVE  TypeOfWork' /\ Held'
  BY <1>9, <1>i DEF DeleteContact, Drop, vars, list, people, tokens, queue, worker, history,
     TypeOfWork, Held, Holding, JobStates, Steps, SmtpResults, SendOutcomes, JobAfterSend,
     Tokens
<1>10. ASSUME NEW c \in Contacts, Suppress(c)
      PROVE  TypeOfWork' /\ Held'
  BY <1>10, <1>i DEF Suppress, vars, list, people, tokens, queue, worker, history, TypeOfWork,
     Held, Holding, JobStates, Steps, SmtpResults, SendOutcomes, JobAfterSend, Tokens
<1>11. ASSUME NEW c \in Contacts, NEW wide \in BOOLEAN, Unsubscribe(c, wide)
      PROVE  TypeOfWork' /\ Held'
  BY <1>11, <1>i, RowWritten DEF Unsubscribe, vars, list, people, tokens, queue, worker,
     history, TypeOfWork, Held, Holding, JobStates, Steps, SmtpResults, SendOutcomes,
     JobAfterSend, Tokens
<1>12. ASSUME NEW version \in Policies, NEW retire \in BOOLEAN, Deploy(version, retire)
      PROVE  TypeOfWork' /\ Held'
  BY <1>12, <1>i, RowsMoved DEF Deploy, Drop, Unused, vars, list, people, tokens, queue,
     worker, history, TypeOfWork, Held, Holding, JobStates, Steps, SmtpResults, SendOutcomes,
     JobAfterSend, Tokens
<1>13. CASE Retain
  BY <1>13, <1>i DEF Retain, Drop, vars, list, people, tokens, queue, worker, history,
     TypeOfWork, Held, Holding, JobStates, Steps, SmtpResults, SendOutcomes, JobAfterSend,
     Tokens
<1>14. CASE PauseProject
  BY <1>14, <1>i DEF PauseProject, vars, list, people, tokens, queue, worker, history,
     TypeOfWork, Held, Holding, JobStates, Steps, SmtpResults, SendOutcomes, JobAfterSend,
     Tokens
<1>15. ASSUME NEW stop \in {"project", "installation"}, Resume(stop)
      PROVE  TypeOfWork' /\ Held'
  BY <1>15, <1>i DEF Resume, vars, list, people, tokens, queue, worker, history, TypeOfWork,
     Held, Holding, JobStates, Steps, SmtpResults, SendOutcomes, JobAfterSend, Tokens
<1>16. ASSUME NEW c \in Contacts, Cool(c)
      PROVE  TypeOfWork' /\ Held'
  BY <1>16, <1>i DEF Cool, vars, list, people, tokens, queue, worker, history, TypeOfWork,
     Held, Holding, JobStates, Steps, SmtpResults, SendOutcomes, JobAfterSend, Tokens
<1>17. ASSUME NEW n \in Tokens, Expire(n)
      PROVE  TypeOfWork' /\ Held'
  BY <1>17, <1>i DEF Expire, IsLive, vars, list, people, tokens, queue, worker, history,
     TypeOfWork, Held, Holding, JobStates, Steps, SmtpResults, SendOutcomes, JobAfterSend,
     Tokens
<1>18. ASSUME NEW n \in Tokens, Elapse(n)
      PROVE  TypeOfWork' /\ Held'
  BY <1>18, <1>i DEF Elapse, vars, list, people, tokens, queue, worker, history, TypeOfWork,
     Held, Holding, JobStates, Steps, SmtpResults, SendOutcomes, JobAfterSend, Tokens
<1>19. CASE StartTick
  BY <1>19, <1>i DEF StartTick, ExpireLeases, Goto, vars, list, people, tokens, queue, worker,
     history, TypeOfWork, Held, Holding, JobStates, Steps, SmtpResults, SendOutcomes,
     JobAfterSend, Tokens
<1>20. ASSUME NEW n \in Tokens, Claim(n)
      PROVE  TypeOfWork' /\ Held'
  BY <1>20, <1>i DEF Claim, Goto, vars, list, people, tokens, queue, worker, history,
     TypeOfWork, Held, Holding, JobStates, Steps, SmtpResults, SendOutcomes, JobAfterSend,
     Tokens
<1>21. CASE EndTick
  BY <1>21, <1>i DEF EndTick, Goto, vars, list, people, tokens, queue, worker, history,
     TypeOfWork, Held, Holding, JobStates, Steps, SmtpResults, SendOutcomes, JobAfterSend,
     Tokens
<1>22. CASE CheckLink
  <2>0. at \in Tokens
    BY <1>22 DEF CheckLink, Held, Holding
  <2>1. CASE \E st \in {"cancelled"} : Settle(st)
    <3>1. PICK st \in {"cancelled"} : Settle(st)
      BY <2>1
    <3>2. st \in JobStates
      BY DEF JobStates
    <3>3. job' \in [Tokens -> JobStates] /\ due' = due \ {at} /\ pc' = "claim" /\ at' = 0 /\ verdict' = "none"
      BY <2>0, <3>1, <3>2, Settled
    <3> QED BY <1>22, <1>i, <1>j, <3>3 DEF CheckLink, history, TypeOfWork, Held, Holding, Steps
  <2>2. CASE Goto("prepare") /\ UNCHANGED <<queue, at, verdict>>
    BY <1>22, <1>i, <2>2 DEF CheckLink, Goto, queue, history, TypeOfWork, Held, Holding, Steps
  <2> QED BY <1>22, <2>1, <2>2 DEF CheckLink
<1>23. CASE Prepare
  <2>0. at \in Tokens
    BY <1>23 DEF Prepare, Held, Holding
  <2>1. CASE \E st \in {"failed", "pending"} : Settle(st)
    <3>1. PICK st \in {"failed", "pending"} : Settle(st)
      BY <2>1
    <3>2. st \in JobStates
      BY DEF JobStates
    <3>3. job' \in [Tokens -> JobStates] /\ due' = due \ {at} /\ pc' = "claim" /\ at' = 0 /\ verdict' = "none"
      BY <2>0, <3>1, <3>2, Settled
    <3> QED BY <1>23, <1>i, <1>j, <3>3 DEF Prepare, history, TypeOfWork, Held, Holding, Steps
  <2>2. CASE Goto("send") /\ UNCHANGED <<queue, at, verdict>>
    BY <1>23, <1>i, <2>2 DEF Prepare, Goto, queue, history, TypeOfWork, Held, Holding, Steps
  <2> QED BY <1>23, <2>1, <2>2 DEF Prepare
<1>24. ASSUME NEW o \in SendOutcomes, Send(o)
      PROVE  TypeOfWork' /\ Held'
  <2>1. at \in Tokens /\ o.copy \in Nat /\ o.result \in SmtpResults
    BY <1>24, Outcomes DEF Send, Held, Holding
  <2>2. copies' \in [Tokens -> Nat]
    BY <1>24, <1>i, <2>1 DEF Send, TypeOfWork
  <2> QED BY <1>24, <1>i, <2>1, <2>2 DEF Send, Goto, queue, TypeOfWork, Held, Holding, Steps
<1>25. CASE Finish
  <2>0. at \in Tokens
    BY <1>25 DEF Finish, Held, Holding
  <2>1. CASE \E st \in {"complete", "pending", "uncertain", "failed"} : Settle(st)
    <3>1. PICK st \in {"complete", "pending", "uncertain", "failed"} : Settle(st)
      BY <2>1
    <3>2. st \in JobStates
      BY DEF JobStates
    <3>3. job' \in [Tokens -> JobStates] /\ due' = due \ {at} /\ pc' = "claim" /\ at' = 0 /\ verdict' = "none"
      BY <2>0, <3>1, <3>2, Settled
    <3> QED BY <1>25, <1>i, <1>j, <3>3 DEF Finish, history, TypeOfWork, Held, Holding, Steps
  <2>2. verdict \in SmtpResults /\ Settle(JobAfterSend(verdict))
    BY <1>25 DEF Finish, Held
  <2> QED BY <2>1, <2>2, Outcomes
<1>26. ASSUME NEW recovery \in BOOLEAN, Crash(recovery)
      PROVE  TypeOfWork' /\ Held'
  <2>1. pc' = "idle" /\ at' = 0 /\ verdict' = "none" /\ UNCHANGED <<job, due, copies>>
    BY <1>26 DEF Crash, Goto, queue, history
  <2> QED BY <1>i, <1>j, <2>1 DEF TypeOfWork, Held, Holding, Steps
<1>27. CASE UNCHANGED vars
  BY <1>27, <1>i DEF vars, list, people, tokens, queue, worker, history, TypeOfWork, Held,
     Holding, JobStates, Steps, SmtpResults, SendOutcomes, JobAfterSend, Tokens
<1>28. CASE FailTick
  <2>1. pc' = "idle" /\ at' = 0 /\ verdict' = "none" /\ UNCHANGED <<job, due, copies>>
    BY <1>28 DEF FailTick, Goto, queue, history
  <2> QED BY <1>i, <1>j, <2>1 DEF TypeOfWork, Held, Holding, Steps
<1> QED BY <1>1, <1>2, <1>3, <1>4, <1>5, <1>6, <1>7, <1>8, <1>9, <1>10, <1>11, <1>12, <1>13,
   <1>14, <1>15, <1>16, <1>17, <1>18, <1>19, <1>20, <1>21, <1>22, <1>23, <1>24, <1>25, <1>26,
   <1>27, <1>28 DEF Next, Requests, People, Time, Worker

\* A request that has begun keeps its contact.
LEMMA NamedHolds == IInv /\ [Next]_vars => Named'
<1> SUFFICES ASSUME IInv, [Next]_vars PROVE Named' OBVIOUS
<1> TypeOK /\ Named BY DEF IInv
<1> TypeOfPeople /\ TypeOfLinks /\ TypeOfWork
  BY Forms
<1>1. ASSUME NEW h \in Handlers, NEW c \in Contacts, Ask(h, c)
      PROVE  Named'
  BY <1>1 DEF Ask, vars, list, people, tokens, queue, worker, history, Named, HandlerSteps,
     TypeOfLinks, Idle
<1>2. ASSUME NEW h \in Handlers, NEW c \in Contacts, BeginImport(h, c)
      PROVE  Named'
  BY <1>2, Forms DEF BeginImport, vars, list, people, tokens, queue, worker, history, Named,
     HandlerSteps, TypeOfPeople, TypeOfLinks, Idle
<1>3. ASSUME NEW h \in Handlers, Import(h)
      PROVE  Named'
  BY <1>3 DEF Import, NoRowYet, Leave, Idle, vars, list, people, tokens, queue, worker,
     history, Named, HandlerSteps, TypeOfLinks
<1>4. ASSUME NEW h \in Handlers, Limit(h)
      PROVE  Named'
  BY <1>4 DEF Limit, Advance, Leave, Idle, vars, list, people, tokens, queue, worker, history,
     Named, HandlerSteps, TypeOfLinks
<1>5. ASSUME NEW h \in Handlers, ReadPolicy(h)
      PROVE  Named'
  BY <1>5, Forms DEF ReadPolicy, Leave, Idle, vars, list, people, tokens, queue, worker, history,
     Named, HandlerSteps, TypeOfPeople, TypeOfLinks
<1>6. ASSUME NEW h \in Handlers, ReadSuppression(h)
      PROVE  Named'
  BY <1>6 DEF ReadSuppression, Advance, Leave, Idle, vars, list, people, tokens, queue, worker,
     history, Named, HandlerSteps, TypeOfLinks
<1>7. ASSUME NEW h \in Handlers, Commit(h)
      PROVE  Named'
  BY <1>7, Committed DEF CommitsNothing, CommitsLink, Idle, IsQuiet, vars, list, people,
     tokens, queue, worker, history, Named, HandlerSteps, TypeOfLinks
<1>8. ASSUME NEW n \in Tokens, Confirm(n)
      PROVE  Named'
  BY <1>8, RowWritten DEF Confirm, IsLive, vars, list, people, tokens, queue, worker, history,
     Named, HandlerSteps, TypeOfLinks, Idle
<1>9. ASSUME NEW c \in Contacts, DeleteContact(c)
      PROVE  Named'
  BY <1>9 DEF DeleteContact, Drop, vars, list, people, tokens, queue, worker, history, Named,
     HandlerSteps, TypeOfLinks, Idle
<1>10. ASSUME NEW c \in Contacts, Suppress(c)
      PROVE  Named'
  BY <1>10 DEF Suppress, vars, list, people, tokens, queue, worker, history, Named,
     HandlerSteps, TypeOfLinks, Idle
<1>11. ASSUME NEW c \in Contacts, NEW wide \in BOOLEAN, Unsubscribe(c, wide)
      PROVE  Named'
  BY <1>11, RowWritten DEF Unsubscribe, vars, list, people, tokens, queue, worker, history,
     Named, HandlerSteps, TypeOfLinks, Idle
<1>12. ASSUME NEW version \in Policies, NEW retire \in BOOLEAN, Deploy(version, retire)
      PROVE  Named'
  BY <1>12, RowsMoved DEF Deploy, Drop, Unused, vars, list, people, tokens, queue, worker,
     history, Named, HandlerSteps, TypeOfLinks, Idle
<1>13. CASE Retain
  BY <1>13 DEF Retain, Drop, vars, list, people, tokens, queue, worker, history, Named,
     HandlerSteps, TypeOfLinks, Idle
<1>14. CASE PauseProject
  BY <1>14 DEF PauseProject, vars, list, people, tokens, queue, worker, history, Named,
     HandlerSteps, TypeOfLinks, Idle
<1>15. ASSUME NEW stop \in {"project", "installation"}, Resume(stop)
      PROVE  Named'
  BY <1>15 DEF Resume, vars, list, people, tokens, queue, worker, history, Named, HandlerSteps,
     TypeOfLinks, Idle
<1>16. ASSUME NEW c \in Contacts, Cool(c)
      PROVE  Named'
  BY <1>16 DEF Cool, vars, list, people, tokens, queue, worker, history, Named, HandlerSteps,
     TypeOfLinks, Idle
<1>17. ASSUME NEW n \in Tokens, Expire(n)
      PROVE  Named'
  BY <1>17 DEF Expire, IsLive, vars, list, people, tokens, queue, worker, history, Named,
     HandlerSteps, TypeOfLinks, Idle
<1>18. ASSUME NEW n \in Tokens, Elapse(n)
      PROVE  Named'
  BY <1>18 DEF Elapse, vars, list, people, tokens, queue, worker, history, Named, HandlerSteps,
     TypeOfLinks, Idle
<1>19. CASE StartTick
  BY <1>19 DEF StartTick, ExpireLeases, Goto, vars, list, people, tokens, queue, worker,
     history, Named, HandlerSteps, TypeOfLinks, Idle
<1>20. ASSUME NEW n \in Tokens, Claim(n)
      PROVE  Named'
  BY <1>20 DEF Claim, Goto, vars, list, people, tokens, queue, worker, history, Named,
     HandlerSteps, TypeOfLinks, Idle
<1>21. CASE EndTick
  BY <1>21 DEF EndTick, Goto, vars, list, people, tokens, queue, worker, history, Named,
     HandlerSteps, TypeOfLinks, Idle
<1>22. CASE CheckLink
  BY <1>22, Settled DEF CheckLink, MayMail, Goto, vars, list, people, tokens, queue, worker,
     history, Named, HandlerSteps, TypeOfLinks, Idle
<1>23. CASE Prepare
  BY <1>23, Settled DEF Prepare, Goto, vars, list, people, tokens, queue, worker, history,
     Named, HandlerSteps, TypeOfLinks, Idle
<1>24. ASSUME NEW o \in SendOutcomes, Send(o)
      PROVE  Named'
  BY <1>24, Outcomes DEF Send, Goto, vars, list, people, tokens, queue, worker, history, Named,
     HandlerSteps, TypeOfLinks, Idle
<1>25. CASE Finish
  BY <1>25, Settled, Outcomes DEF Finish, Goto, vars, list, people, tokens, queue, worker,
     history, Named, HandlerSteps, TypeOfLinks, Idle
<1>26. ASSUME NEW recovery \in BOOLEAN, Crash(recovery)
      PROVE  Named'
  BY <1>26 DEF Crash, Goto, Idle, vars, list, people, tokens, queue, worker, history, Named,
     HandlerSteps, TypeOfLinks
<1>27. CASE UNCHANGED vars
  BY <1>27 DEF vars, list, people, tokens, queue, worker, history, Named, HandlerSteps,
     TypeOfLinks, Idle
<1>28. CASE FailTick
  BY <1>28 DEF FailTick, Goto, vars, list, people, tokens, queue, worker, history, Named,
     HandlerSteps, TypeOfLinks
<1> QED BY <1>1, <1>2, <1>3, <1>4, <1>5, <1>6, <1>7, <1>8, <1>9, <1>10, <1>11, <1>12, <1>13,
   <1>14, <1>15, <1>16, <1>17, <1>18, <1>19, <1>20, <1>21, <1>22, <1>23, <1>24, <1>25, <1>26,
   <1>27, <1>28 DEF Next, Requests, People, Time, Worker

\* Tokens are issued in order.
LEMMA NumberedHolds == IInv /\ [Next]_vars => Numbered'
<1> SUFFICES ASSUME IInv, [Next]_vars PROVE Numbered' OBVIOUS
<1> TypeOK /\ Named /\ Numbered /\ Held BY DEF IInv
<1> TypeOfPeople /\ TypeOfLinks /\ TypeOfWork
  BY Forms
<1> MaxTokens \in Nat /\ NoContact \notin Contacts
  BY ConstantsOK
<1>1. ASSUME NEW h \in Handlers, NEW c \in Contacts, Ask(h, c)
      PROVE  Numbered'
  BY <1>1 DEF Ask, vars, list, people, tokens, queue, worker, history, Numbered, Held, Holding,
     TypeOfLinks, TypeOfWork, Tokens
<1>2. ASSUME NEW h \in Handlers, NEW c \in Contacts, BeginImport(h, c)
      PROVE  Numbered'
  BY <1>2 DEF BeginImport, vars, list, people, tokens, queue, worker, history, Numbered, Held,
     Holding, TypeOfLinks, TypeOfWork, Tokens
<1>3. ASSUME NEW h \in Handlers, Import(h)
      PROVE  Numbered'
  BY <1>3 DEF Import, NoRowYet, Leave, Idle, vars, list, people, tokens, queue, worker,
     history, Numbered, Held, Holding, TypeOfLinks, TypeOfWork, Tokens
<1>4. ASSUME NEW h \in Handlers, Limit(h)
      PROVE  Numbered'
  BY <1>4 DEF Limit, Advance, Leave, Idle, vars, list, people, tokens, queue, worker, history,
     Numbered, Held, Holding, TypeOfLinks, TypeOfWork, Tokens
<1>5. ASSUME NEW h \in Handlers, ReadPolicy(h)
      PROVE  Numbered'
  BY <1>5 DEF ReadPolicy, Leave, Idle, vars, list, people, tokens, queue, worker, history,
     Numbered, Held, Holding, TypeOfLinks, TypeOfWork, Tokens
<1>6. ASSUME NEW h \in Handlers, ReadSuppression(h)
      PROVE  Numbered'
  BY <1>6 DEF ReadSuppression, Advance, Leave, Idle, vars, list, people, tokens, queue, worker,
     history, Numbered, Held, Holding, TypeOfLinks, TypeOfWork, Tokens
<1>7. ASSUME NEW h \in Handlers, Commit(h)
      PROVE  Numbered'
  <2>1. CASE CommitsNothing(h)
    BY <1>7, <2>1, Committed DEF CommitsNothing, Numbered, Held, Holding, TypeOfLinks,
       TypeOfWork, Tokens
  <2>2. CASE CommitsLink(h, handler[h].who, issued + 1)
    <3> DEFINE k == issued + 1
               c == handler[h].who
    <3>1. /\ k \in Tokens /\ issued' = k /\ c \in Contacts /\ owner' = [owner EXCEPT ![k] = c]
          /\ UNCHANGED <<copies, clicks>> /\ job' = [job EXCEPT ![k] = "pending"]
      BY <1>7, <2>2, Committed DEF CommitsLink
    <3>2. \A n \in Tokens : n > k => token'[n] = token[n]
      <4>1. \A n \in Tokens : n > k => n > issued /\ token[n] = "none" /\ n /= k
        BY <3>1 DEF Numbered, TypeOfLinks, Tokens
      <4> QED BY <2>2, <3>1, <4>1 DEF CommitsLink, Unused
    <3>3. \A n \in Tokens : n <= k => n <= issued \/ n = k
      BY DEF TypeOfLinks, Tokens
    <3>4. \A n \in Tokens : n > k => n > issued /\ n /= k
      BY DEF TypeOfLinks, Tokens
    <3> QED BY <3>1, <3>2, <3>3, <3>4 DEF Numbered, TypeOfLinks, TypeOfWork
  <2> QED BY <1>7, <2>1, <2>2, Committed
<1>8. ASSUME NEW n \in Tokens, Confirm(n)
      PROVE  Numbered'
  BY <1>8, RowWritten DEF Confirm, IsLive, vars, list, people, tokens, queue, worker, history,
     Numbered, Held, Holding, TypeOfLinks, TypeOfWork, Tokens
<1>9. ASSUME NEW c \in Contacts, DeleteContact(c)
      PROVE  Numbered'
  BY <1>9 DEF DeleteContact, Drop, vars, list, people, tokens, queue, worker, history,
     Numbered, Held, Holding, TypeOfLinks, TypeOfWork, Tokens
<1>10. ASSUME NEW c \in Contacts, Suppress(c)
      PROVE  Numbered'
  BY <1>10 DEF Suppress, vars, list, people, tokens, queue, worker, history, Numbered, Held,
     Holding, TypeOfLinks, TypeOfWork, Tokens
<1>11. ASSUME NEW c \in Contacts, NEW wide \in BOOLEAN, Unsubscribe(c, wide)
      PROVE  Numbered'
  BY <1>11, RowWritten DEF Unsubscribe, vars, list, people, tokens, queue, worker, history,
     Numbered, Held, Holding, TypeOfLinks, TypeOfWork, Tokens
<1>12. ASSUME NEW version \in Policies, NEW retire \in BOOLEAN, Deploy(version, retire)
      PROVE  Numbered'
  BY <1>12, RowsMoved DEF Deploy, Drop, Unused, vars, list, people, tokens, queue, worker,
     history, Numbered, Held, Holding, TypeOfLinks, TypeOfWork, Tokens
<1>13. CASE Retain
  BY <1>13 DEF Retain, Drop, vars, list, people, tokens, queue, worker, history, Numbered,
     Held, Holding, TypeOfLinks, TypeOfWork, Tokens
<1>14. CASE PauseProject
  BY <1>14 DEF PauseProject, vars, list, people, tokens, queue, worker, history, Numbered,
     Held, Holding, TypeOfLinks, TypeOfWork, Tokens
<1>15. ASSUME NEW stop \in {"project", "installation"}, Resume(stop)
      PROVE  Numbered'
  BY <1>15 DEF Resume, vars, list, people, tokens, queue, worker, history, Numbered, Held,
     Holding, TypeOfLinks, TypeOfWork, Tokens
<1>16. ASSUME NEW c \in Contacts, Cool(c)
      PROVE  Numbered'
  BY <1>16 DEF Cool, vars, list, people, tokens, queue, worker, history, Numbered, Held,
     Holding, TypeOfLinks, TypeOfWork, Tokens
<1>17. ASSUME NEW n \in Tokens, Expire(n)
      PROVE  Numbered'
  BY <1>17 DEF Expire, IsLive, vars, list, people, tokens, queue, worker, history, Numbered,
     Held, Holding, TypeOfLinks, TypeOfWork, Tokens
<1>18. ASSUME NEW n \in Tokens, Elapse(n)
      PROVE  Numbered'
  BY <1>18 DEF Elapse, vars, list, people, tokens, queue, worker, history, Numbered, Held,
     Holding, TypeOfLinks, TypeOfWork, Tokens
<1>19. CASE StartTick
  BY <1>19 DEF StartTick, ExpireLeases, Goto, vars, list, people, tokens, queue, worker,
     history, Numbered, Held, Holding, TypeOfLinks, TypeOfWork, Tokens
<1>20. ASSUME NEW n \in Tokens, Claim(n)
      PROVE  Numbered'
  BY <1>20 DEF Claim, Goto, vars, list, people, tokens, queue, worker, history, Numbered, Held,
     Holding, TypeOfLinks, TypeOfWork, Tokens
<1>21. CASE EndTick
  BY <1>21 DEF EndTick, Goto, vars, list, people, tokens, queue, worker, history, Numbered,
     Held, Holding, TypeOfLinks, TypeOfWork, Tokens
<1>22. CASE CheckLink
  <2>1. CASE GoesOn
    BY <1>22, <2>1, WorkerMoves DEF GoesOn, CheckLink, Goto, Numbered, Held, Holding,
       TypeOfLinks, TypeOfWork, Tokens
  <2>2. CASE \E st \in JobStates : Leaves(st)
    <3>1. PICK st \in JobStates : Leaves(st)
      BY <2>2
    <3> QED BY <1>22, <3>1, WorkerMoves DEF Leaves, Numbered, Held, Holding, TypeOfLinks,
       TypeOfWork, Tokens
  <2> QED BY <1>22, <2>1, <2>2, WorkerMoves
<1>23. CASE Prepare
  <2>1. CASE GoesOn
    BY <1>23, <2>1, WorkerMoves DEF GoesOn, Prepare, Goto, Numbered, Held, Holding,
       TypeOfLinks, TypeOfWork, Tokens
  <2>2. CASE \E st \in JobStates : Leaves(st)
    <3>1. PICK st \in JobStates : Leaves(st)
      BY <2>2
    <3> QED BY <1>23, <3>1, WorkerMoves DEF Leaves, Numbered, Held, Holding, TypeOfLinks,
       TypeOfWork, Tokens
  <2> QED BY <1>23, <2>1, <2>2, WorkerMoves
<1>24. ASSUME NEW o \in SendOutcomes, Send(o)
      PROVE  Numbered'
  BY <1>24, Outcomes DEF Send, Goto, vars, list, people, tokens, queue, worker, history,
     Numbered, Held, Holding, TypeOfLinks, TypeOfWork, Tokens
<1>25. CASE Finish
  <2>1. CASE GoesOn
    BY <1>25, <2>1, WorkerMoves DEF GoesOn, Finish, Goto, Numbered, Held, Holding, TypeOfLinks,
       TypeOfWork, Tokens
  <2>2. CASE \E st \in JobStates : Leaves(st)
    <3>1. PICK st \in JobStates : Leaves(st)
      BY <2>2
    <3> QED BY <1>25, <3>1, WorkerMoves DEF Leaves, Numbered, Held, Holding, TypeOfLinks,
       TypeOfWork, Tokens
  <2> QED BY <1>25, <2>1, <2>2, WorkerMoves
<1>26. ASSUME NEW recovery \in BOOLEAN, Crash(recovery)
      PROVE  Numbered'
  BY <1>26 DEF Crash, Goto, Idle, vars, list, people, tokens, queue, worker, history, Numbered,
     Held, Holding, TypeOfLinks, TypeOfWork, Tokens
<1>27. CASE UNCHANGED vars
  BY <1>27 DEF vars, list, people, tokens, queue, worker, history, Numbered, Held, Holding,
     TypeOfLinks, TypeOfWork, Tokens
<1>28. CASE FailTick
  BY <1>28 DEF FailTick, Goto, vars, list, people, tokens, queue, worker, history, Numbered,
     Held, Holding, TypeOfLinks, TypeOfWork, Tokens
<1> QED BY <1>1, <1>2, <1>3, <1>4, <1>5, <1>6, <1>7, <1>8, <1>9, <1>10, <1>11, <1>12, <1>13,
   <1>14, <1>15, <1>16, <1>17, <1>18, <1>19, <1>20, <1>21, <1>22, <1>23, <1>24, <1>25, <1>26,
   <1>27, <1>28 DEF Next, Requests, People, Time, Worker

\* No second copy of a link's mail.
LEMMA UnmailedHolds == IInv /\ [Next]_vars => Unmailed'
<1> SUFFICES ASSUME IInv, [Next]_vars PROVE Unmailed' OBVIOUS
<1> TypeOK /\ Named /\ Numbered /\ Held /\ Unmailed BY DEF IInv
<1> TypeOfPeople /\ TypeOfLinks /\ TypeOfWork
  BY Forms
<1>1. ASSUME NEW h \in Handlers, NEW c \in Contacts, Ask(h, c)
      PROVE  Unmailed'
  BY <1>1 DEF Ask, vars, list, people, tokens, queue, worker, history, Unmailed, Held, Holding,
     TypeOfWork
<1>2. ASSUME NEW h \in Handlers, NEW c \in Contacts, BeginImport(h, c)
      PROVE  Unmailed'
  BY <1>2 DEF BeginImport, vars, list, people, tokens, queue, worker, history, Unmailed, Held,
     Holding, TypeOfWork
<1>3. ASSUME NEW h \in Handlers, Import(h)
      PROVE  Unmailed'
  BY <1>3 DEF Import, NoRowYet, Leave, Idle, vars, list, people, tokens, queue, worker,
     history, Unmailed, Held, Holding, TypeOfWork
<1>4. ASSUME NEW h \in Handlers, Limit(h)
      PROVE  Unmailed'
  BY <1>4 DEF Limit, Advance, Leave, Idle, vars, list, people, tokens, queue, worker, history,
     Unmailed, Held, Holding, TypeOfWork
<1>5. ASSUME NEW h \in Handlers, ReadPolicy(h)
      PROVE  Unmailed'
  BY <1>5 DEF ReadPolicy, Leave, Idle, vars, list, people, tokens, queue, worker, history,
     Unmailed, Held, Holding, TypeOfWork
<1>6. ASSUME NEW h \in Handlers, ReadSuppression(h)
      PROVE  Unmailed'
  BY <1>6 DEF ReadSuppression, Advance, Leave, Idle, vars, list, people, tokens, queue, worker,
     history, Unmailed, Held, Holding, TypeOfWork
<1>7. ASSUME NEW h \in Handlers, Commit(h)
      PROVE  Unmailed'
  <2>1. CASE CommitsNothing(h)
    BY <1>7, <2>1, Committed DEF CommitsNothing, Unmailed, Held, Holding, TypeOfWork
  <2>2. CASE CommitsLink(h, handler[h].who, issued + 1)
    <3> DEFINE k == issued + 1
    <3>1. k \in Tokens /\ job' = [job EXCEPT ![k] = "pending"] /\ UNCHANGED <<copies, pc, at, verdict>>
      BY <1>7, <2>2, Committed DEF CommitsLink
    <3>2. copies[k] = 0
      BY <3>1 DEF Numbered, TypeOfLinks, Tokens
    <3> QED BY <3>1, <3>2 DEF Unmailed, TypeOfWork
  <2> QED BY <1>7, <2>1, <2>2, Committed
<1>8. ASSUME NEW n \in Tokens, Confirm(n)
      PROVE  Unmailed'
  BY <1>8, RowWritten DEF Confirm, IsLive, vars, list, people, tokens, queue, worker, history,
     Unmailed, Held, Holding, TypeOfWork
<1>9. ASSUME NEW c \in Contacts, DeleteContact(c)
      PROVE  Unmailed'
  BY <1>9 DEF DeleteContact, Drop, vars, list, people, tokens, queue, worker, history,
     Unmailed, Held, Holding, TypeOfWork
<1>10. ASSUME NEW c \in Contacts, Suppress(c)
      PROVE  Unmailed'
  BY <1>10 DEF Suppress, vars, list, people, tokens, queue, worker, history, Unmailed, Held,
     Holding, TypeOfWork
<1>11. ASSUME NEW c \in Contacts, NEW wide \in BOOLEAN, Unsubscribe(c, wide)
      PROVE  Unmailed'
  BY <1>11, RowWritten DEF Unsubscribe, vars, list, people, tokens, queue, worker, history,
     Unmailed, Held, Holding, TypeOfWork
<1>12. ASSUME NEW version \in Policies, NEW retire \in BOOLEAN, Deploy(version, retire)
      PROVE  Unmailed'
  BY <1>12, RowsMoved DEF Deploy, Drop, Unused, vars, list, people, tokens, queue, worker,
     history, Unmailed, Held, Holding, TypeOfWork
<1>13. CASE Retain
  BY <1>13 DEF Retain, Drop, vars, list, people, tokens, queue, worker, history, Unmailed,
     Held, Holding, TypeOfWork
<1>14. CASE PauseProject
  BY <1>14 DEF PauseProject, vars, list, people, tokens, queue, worker, history, Unmailed,
     Held, Holding, TypeOfWork
<1>15. ASSUME NEW stop \in {"project", "installation"}, Resume(stop)
      PROVE  Unmailed'
  BY <1>15 DEF Resume, vars, list, people, tokens, queue, worker, history, Unmailed, Held,
     Holding, TypeOfWork
<1>16. ASSUME NEW c \in Contacts, Cool(c)
      PROVE  Unmailed'
  BY <1>16 DEF Cool, vars, list, people, tokens, queue, worker, history, Unmailed, Held,
     Holding, TypeOfWork
<1>17. ASSUME NEW n \in Tokens, Expire(n)
      PROVE  Unmailed'
  BY <1>17 DEF Expire, IsLive, vars, list, people, tokens, queue, worker, history, Unmailed,
     Held, Holding, TypeOfWork
<1>18. ASSUME NEW n \in Tokens, Elapse(n)
      PROVE  Unmailed'
  BY <1>18 DEF Elapse, vars, list, people, tokens, queue, worker, history, Unmailed, Held,
     Holding, TypeOfWork
<1>19. CASE StartTick
  BY <1>19 DEF StartTick, ExpireLeases, Goto, vars, list, people, tokens, queue, worker,
     history, Unmailed, Held, Holding, TypeOfWork
<1>20. ASSUME NEW n \in Tokens, Claim(n)
      PROVE  Unmailed'
  BY <1>20 DEF Claim, Goto, vars, list, people, tokens, queue, worker, history, Unmailed, Held,
     Holding, TypeOfWork
<1>21. CASE EndTick
  BY <1>21 DEF EndTick, Goto, vars, list, people, tokens, queue, worker, history, Unmailed,
     Held, Holding, TypeOfWork
<1>22. CASE CheckLink
  <2>1. CASE GoesOn
    BY <1>22, <2>1, WorkerMoves DEF GoesOn, CheckLink, Goto, Unmailed, Held, Holding, TypeOfWork
  <2>2. CASE \E st \in JobStates : Leaves(st)
    <3>1. PICK st \in JobStates : Leaves(st)
      BY <2>2
    <3> QED BY <1>22, <3>1, WorkerMoves DEF Leaves, Unmailed, Held, Holding, TypeOfWork
  <2> QED BY <1>22, <2>1, <2>2, WorkerMoves
<1>23. CASE Prepare
  <2>1. CASE GoesOn
    BY <1>23, <2>1, WorkerMoves DEF GoesOn, Prepare, Goto, Unmailed, Held, Holding, TypeOfWork
  <2>2. CASE \E st \in JobStates : Leaves(st)
    <3>1. PICK st \in JobStates : Leaves(st)
      BY <2>2
    <3> QED BY <1>23, <3>1, WorkerMoves DEF Leaves, Unmailed, Held, Holding, TypeOfWork
  <2> QED BY <1>23, <2>1, <2>2, WorkerMoves
<1>24. ASSUME NEW o \in SendOutcomes, Send(o)
      PROVE  Unmailed'
  BY <1>24, Outcomes DEF Send, Goto, vars, list, people, tokens, queue, worker, history,
     Unmailed, Held, Holding, TypeOfWork
<1>25. CASE Finish
  <2>1. CASE GoesOn
    BY <1>25, <2>1, WorkerMoves DEF GoesOn, Finish, Goto, Unmailed, Held, Holding, TypeOfWork
  <2>2. CASE \E st \in JobStates : Leaves(st)
    <3>1. PICK st \in JobStates : Leaves(st)
      BY <2>2
    <3> QED BY <1>25, <3>1, WorkerMoves DEF Leaves, Unmailed, Held, Holding, TypeOfWork
  <2> QED BY <1>25, <2>1, <2>2, WorkerMoves
<1>26. ASSUME NEW recovery \in BOOLEAN, Crash(recovery)
      PROVE  Unmailed'
  BY <1>26 DEF Crash, Goto, Idle, vars, list, people, tokens, queue, worker, history, Unmailed,
     Held, Holding, TypeOfWork
<1>27. CASE UNCHANGED vars
  BY <1>27 DEF vars, list, people, tokens, queue, worker, history, Unmailed, Held, Holding,
     TypeOfWork
<1>28. CASE FailTick
  BY <1>28 DEF FailTick, Goto, vars, list, people, tokens, queue, worker, history, Unmailed,
     Held, Holding, TypeOfWork
<1> QED BY <1>1, <1>2, <1>3, <1>4, <1>5, <1>6, <1>7, <1>8, <1>9, <1>10, <1>11, <1>12, <1>13,
   <1>14, <1>15, <1>16, <1>17, <1>18, <1>19, <1>20, <1>21, <1>22, <1>23, <1>24, <1>25, <1>26,
   <1>27, <1>28 DEF Next, Requests, People, Time, Worker

\* A link stands for a row on its own terms, and alone.
LEMMA LinkedHolds == IInv /\ [Next]_vars => Linked'
<1> SUFFICES ASSUME IInv, [Next]_vars PROVE Linked' OBVIOUS
<1> TypeOK /\ Named /\ Numbered /\ Linked BY DEF IInv
<1> TypeOfPeople /\ TypeOfLinks /\ TypeOfWork
  BY Forms
<1>1. ASSUME NEW h \in Handlers, NEW c \in Contacts, Ask(h, c)
      PROVE  Linked'
  BY <1>1 DEF Ask, vars, list, people, tokens, queue, worker, history, Linked, Unused,
     Stranger, TypeOfPeople, TypeOfLinks
<1>2. ASSUME NEW h \in Handlers, NEW c \in Contacts, BeginImport(h, c)
      PROVE  Linked'
  BY <1>2 DEF BeginImport, vars, list, people, tokens, queue, worker, history, Linked, Unused,
     Stranger, TypeOfPeople, TypeOfLinks
<1>3. ASSUME NEW h \in Handlers, Import(h)
      PROVE  Linked'
  <2>o. \A m \in Tokens : Unused(m) => owner[m] \in Contacts
    BY Owned DEF Unused
  <2> QED BY <1>3, <2>o DEF Import, NoRowYet, Leave, list, people, tokens, history, Linked,
     Unused, Stranger, TypeOfPeople, TypeOfLinks
<1>4. ASSUME NEW h \in Handlers, Limit(h)
      PROVE  Linked'
  BY <1>4 DEF Limit, Advance, Leave, Idle, vars, list, people, tokens, queue, worker, history,
     Linked, Unused, Stranger, TypeOfPeople, TypeOfLinks
<1>5. ASSUME NEW h \in Handlers, ReadPolicy(h)
      PROVE  Linked'
  BY <1>5 DEF ReadPolicy, Leave, Idle, vars, list, people, tokens, queue, worker, history,
     Linked, Unused, Stranger, TypeOfPeople, TypeOfLinks
<1>6. ASSUME NEW h \in Handlers, ReadSuppression(h)
      PROVE  Linked'
  BY <1>6 DEF ReadSuppression, Advance, Leave, Idle, vars, list, people, tokens, queue, worker,
     history, Linked, Unused, Stranger, TypeOfPeople, TypeOfLinks
<1>7. ASSUME NEW h \in Handlers, Commit(h)
      PROVE  Linked'
  <2>1. CASE CommitsNothing(h)
    BY <1>7, <2>1, Committed DEF CommitsNothing, Linked, Unused, Stranger, TypeOfPeople,
       TypeOfLinks
  <2>2. CASE CommitsLink(h, handler[h].who, issued + 1)
    <3> DEFINE k == issued + 1
               c == handler[h].who
    <3>1. /\ k \in Tokens /\ c \in Contacts /\ owner' = [owner EXCEPT ![k] = c]
          /\ consent' = [consent EXCEPT ![c] = [state |-> "pending", policy |-> Version[handler[h].read]]]
          /\ terms' = [terms EXCEPT ![k] = handler[h].read] /\ UNCHANGED clicks
          /\ handler[h].read \in Policies
          /\ token' = [x \in Tokens |->
               IF x = k THEN "live" ELSE IF owner[x] = c /\ Unused(x) THEN "gone" ELSE token[x]]
      BY <1>7, <2>2, Committed DEF CommitsLink, TypeOfPeople
    <3>2. clicks[k] = 0
      BY <3>1 DEF Numbered, TypeOfLinks, Tokens
    <3>3. \A n \in Tokens : Unused(n)' <=> n = k \/ (Unused(n) /\ owner[n] /= c)
      <4>1. ASSUME NEW n \in Tokens
            PROVE  token'[n] \in {"live", "expired"} <=> n = k \/ (Unused(n) /\ owner[n] /= c)
        <5>1. CASE n = k
          BY <3>1, <5>1
        <5>2. CASE n /= k /\ owner[n] = c
          BY <3>1, <5>2 DEF Unused
        <5>3. CASE n /= k /\ owner[n] /= c
          BY <3>1, <5>3 DEF Unused
        <5> QED BY <5>1, <5>2, <5>3
      <4> QED BY <4>1 DEF Unused
    <3>4. owner'[k] = c /\ \A n \in Tokens \ {k} : owner'[n] = owner[n]
      BY <3>1 DEF TypeOfLinks
    <3>5. ASSUME NEW n \in Tokens, Unused(n)'
          PROVE  clicks'[n] = 0 /\ consent'[owner'[n]].state /= "none" 
                 /\ terms'[n] \in Policies /\ Version[terms'[n]] = consent'[owner'[n]].policy
      <4>1. CASE n = k
        BY <3>1, <3>2, <3>4, <4>1 DEF TypeOfPeople, TypeOfLinks
      <4>2. CASE n /= k
        <5>1. Unused(n) /\ owner[n] /= c /\ owner'[n] = owner[n]
          BY <3>3, <3>4, <3>5, <4>2
        <5>2. owner[n] \in Contacts
          BY <5>1, Owned DEF Unused
        <5> QED BY <3>1, <4>2, <5>1, <5>2 DEF Linked, TypeOfPeople, TypeOfLinks
      <4> QED BY <4>1, <4>2
    <3>6. \A m, n \in Tokens : Unused(m)' /\ Unused(n)' /\ owner'[m] = owner'[n] => m = n
      BY <3>3, <3>4 DEF Linked
    <3> QED BY <3>1, <3>5, <3>6 DEF Linked
  <2> QED BY <1>7, <2>1, <2>2, Committed
<1>8. ASSUME NEW n \in Tokens, Confirm(n)
      PROVE  Linked'
  <2> DEFINE c == owner[n]
  <2>1. c \in Contacts /\ SetConsent(Only(c, "confirmed", consent[c].policy))
    BY <1>8, Owned DEF Confirm, IsLive
  <2>2. \A x \in Contacts : consent'[x].policy = consent[x].policy
                            /\ (consent[x].state /= "none" => consent'[x].state /= "none")
    BY <2>1, RowWritten
  <2>3. \A m \in Tokens : Unused(m) => owner[m] \in Contacts
    BY Owned DEF Unused
  <2>4. /\ token' = [token EXCEPT ![n] = "used"] /\ clicks' = [clicks EXCEPT ![n] = clicks[n] + 1]
        /\ UNCHANGED <<owner, terms>> /\ clicks[n] = 0
    BY <1>8 DEF Confirm, Linked, Unused, IsLive
  <2>5. \A m \in Tokens : Unused(m)' => Unused(m) /\ m /= n
    BY <2>4 DEF Unused, TypeOfLinks
  <2>6. \A m \in Tokens : clicks'[m] <= 1 /\ (m /= n => clicks'[m] = clicks[m])
    BY <2>4 DEF Linked, TypeOfLinks
  <2> QED BY <2>2, <2>3, <2>4, <2>5, <2>6 DEF Linked
<1>9. ASSUME NEW c \in Contacts, DeleteContact(c)
      PROVE  Linked'
  BY <1>9 DEF DeleteContact, Drop, vars, list, people, tokens, queue, worker, history, Linked,
     Unused, Stranger, TypeOfPeople, TypeOfLinks
<1>10. ASSUME NEW c \in Contacts, Suppress(c)
      PROVE  Linked'
  BY <1>10 DEF Suppress, vars, list, people, tokens, queue, worker, history, Linked, Unused,
     Stranger, TypeOfPeople, TypeOfLinks
<1>11. ASSUME NEW c \in Contacts, NEW wide \in BOOLEAN, Unsubscribe(c, wide)
      PROVE  Linked'
  <2>1. SetConsent(Only(c, "unsubscribed", consent[c].policy)) /\ UNCHANGED <<token, owner, terms, clicks>>
    BY <1>11 DEF Unsubscribe, tokens, history
  <2>2. \A x \in Contacts : consent'[x].policy = consent[x].policy
                            /\ (consent[x].state /= "none" => consent'[x].state /= "none")
    BY <2>1, RowWritten
  <2>3. \A m \in Tokens : Unused(m) => owner[m] \in Contacts
    BY Owned DEF Unused
  <2> QED BY <2>1, <2>2, <2>3 DEF Linked, Unused
<1>12. ASSUME NEW version \in Policies, NEW retire \in BOOLEAN, Deploy(version, retire)
      PROVE  Linked'
  BY <1>12, RowsMoved DEF Deploy, Drop, Unused, vars, list, people, tokens, queue, worker,
     history, Linked, Stranger, TypeOfPeople, TypeOfLinks
<1>13. CASE Retain
  BY <1>13 DEF Retain, Drop, vars, list, people, tokens, queue, worker, history, Linked,
     Unused, Stranger, TypeOfPeople, TypeOfLinks
<1>14. CASE PauseProject
  BY <1>14 DEF PauseProject, vars, list, people, tokens, queue, worker, history, Linked,
     Unused, Stranger, TypeOfPeople, TypeOfLinks
<1>15. ASSUME NEW stop \in {"project", "installation"}, Resume(stop)
      PROVE  Linked'
  BY <1>15 DEF Resume, vars, list, people, tokens, queue, worker, history, Linked, Unused,
     Stranger, TypeOfPeople, TypeOfLinks
<1>16. ASSUME NEW c \in Contacts, Cool(c)
      PROVE  Linked'
  BY <1>16 DEF Cool, vars, list, people, tokens, queue, worker, history, Linked, Unused,
     Stranger, TypeOfPeople, TypeOfLinks
<1>17. ASSUME NEW n \in Tokens, Expire(n)
      PROVE  Linked'
  BY <1>17 DEF Expire, IsLive, vars, list, people, tokens, queue, worker, history, Linked,
     Unused, Stranger, TypeOfPeople, TypeOfLinks
<1>18. ASSUME NEW n \in Tokens, Elapse(n)
      PROVE  Linked'
  BY <1>18 DEF Elapse, vars, list, people, tokens, queue, worker, history, Linked, Unused,
     Stranger, TypeOfPeople, TypeOfLinks
<1>19. CASE StartTick
  BY <1>19 DEF StartTick, ExpireLeases, Goto, vars, list, people, tokens, queue, worker,
     history, Linked, Unused, Stranger, TypeOfPeople, TypeOfLinks
<1>20. ASSUME NEW n \in Tokens, Claim(n)
      PROVE  Linked'
  BY <1>20 DEF Claim, Goto, vars, list, people, tokens, queue, worker, history, Linked, Unused,
     Stranger, TypeOfPeople, TypeOfLinks
<1>21. CASE EndTick
  BY <1>21 DEF EndTick, Goto, vars, list, people, tokens, queue, worker, history, Linked,
     Unused, Stranger, TypeOfPeople, TypeOfLinks
<1>22. CASE CheckLink
  BY <1>22, Settled DEF CheckLink, MayMail, Goto, vars, list, people, tokens, queue, worker,
     history, Linked, Unused, Stranger, TypeOfPeople, TypeOfLinks
<1>23. CASE Prepare
  BY <1>23, Settled DEF Prepare, Goto, vars, list, people, tokens, queue, worker, history,
     Linked, Unused, Stranger, TypeOfPeople, TypeOfLinks
<1>24. ASSUME NEW o \in SendOutcomes, Send(o)
      PROVE  Linked'
  BY <1>24, Outcomes DEF Send, Goto, vars, list, people, tokens, queue, worker, history,
     Linked, Unused, Stranger, TypeOfPeople, TypeOfLinks
<1>25. CASE Finish
  BY <1>25, Settled, Outcomes DEF Finish, Goto, vars, list, people, tokens, queue, worker,
     history, Linked, Unused, Stranger, TypeOfPeople, TypeOfLinks
<1>26. ASSUME NEW recovery \in BOOLEAN, Crash(recovery)
      PROVE  Linked'
  BY <1>26 DEF Crash, Goto, Idle, vars, list, people, tokens, queue, worker, history, Linked,
     Unused, Stranger, TypeOfPeople, TypeOfLinks
<1>27. CASE UNCHANGED vars
  BY <1>27 DEF vars, list, people, tokens, queue, worker, history, Linked, Unused, Stranger,
     TypeOfPeople, TypeOfLinks
<1>28. CASE FailTick
  BY <1>28 DEF FailTick, Goto, vars, list, people, tokens, queue, worker, history, Linked,
     Unused, Stranger, TypeOfPeople, TypeOfLinks
<1> QED BY <1>1, <1>2, <1>3, <1>4, <1>5, <1>6, <1>7, <1>8, <1>9, <1>10, <1>11, <1>12, <1>13,
   <1>14, <1>15, <1>16, <1>17, <1>18, <1>19, <1>20, <1>21, <1>22, <1>23, <1>24, <1>25, <1>26,
   <1>27, <1>28 DEF Next, Requests, People, Time, Worker

\* The ten minutes.
LEMMA CoolingHolds == IInv /\ [Next]_vars => Cooling' /\ CooldownHolds'
<1> SUFFICES ASSUME IInv, [Next]_vars PROVE Cooling' /\ CooldownHolds' OBVIOUS
<1> TypeOK /\ Named /\ Numbered /\ Cooling /\ CooldownHolds BY DEF IInv
<1> TypeOfPeople /\ TypeOfLinks /\ TypeOfWork
  BY Forms
<1>1. ASSUME NEW h \in Handlers, NEW c \in Contacts, Ask(h, c)
      PROVE  Cooling' /\ CooldownHolds'
  BY <1>1 DEF Ask, vars, list, people, tokens, queue, worker, history, Cooling, CooldownHolds,
     IsConfirmed, TypeOfPeople, Stranger
<1>2. ASSUME NEW h \in Handlers, NEW c \in Contacts, BeginImport(h, c)
      PROVE  Cooling' /\ CooldownHolds'
  BY <1>2 DEF BeginImport, vars, list, people, tokens, queue, worker, history, Cooling,
     CooldownHolds, IsConfirmed, TypeOfPeople, Stranger
<1>3. ASSUME NEW h \in Handlers, Import(h)
      PROVE  Cooling' /\ CooldownHolds'
  BY <1>3 DEF Import, NoRowYet, Leave, Idle, vars, list, people, tokens, queue, worker,
     history, Cooling, CooldownHolds, IsConfirmed, TypeOfPeople, Stranger
<1>4. ASSUME NEW h \in Handlers, Limit(h)
      PROVE  Cooling' /\ CooldownHolds'
  BY <1>4 DEF Limit, Advance, Leave, Idle, vars, list, people, tokens, queue, worker, history,
     Cooling, CooldownHolds, IsConfirmed, TypeOfPeople, Stranger
<1>5. ASSUME NEW h \in Handlers, ReadPolicy(h)
      PROVE  Cooling' /\ CooldownHolds'
  BY <1>5 DEF ReadPolicy, Leave, Idle, vars, list, people, tokens, queue, worker, history,
     Cooling, CooldownHolds, IsConfirmed, TypeOfPeople, Stranger
<1>6. ASSUME NEW h \in Handlers, ReadSuppression(h)
      PROVE  Cooling' /\ CooldownHolds'
  BY <1>6 DEF ReadSuppression, Advance, Leave, Idle, vars, list, people, tokens, queue, worker,
     history, Cooling, CooldownHolds, IsConfirmed, TypeOfPeople, Stranger
<1>7. ASSUME NEW h \in Handlers, Commit(h)
      PROVE  Cooling' /\ CooldownHolds'
  BY <1>7, Committed DEF CommitsNothing, CommitsLink, Idle, IsQuiet, vars, list, people,
     tokens, queue, worker, history, Cooling, CooldownHolds, IsConfirmed, TypeOfPeople, Stranger
<1>8. ASSUME NEW n \in Tokens, Confirm(n)
      PROVE  Cooling' /\ CooldownHolds'
  <2>1. owner[n] \in Contacts /\ SetConsent(Only(owner[n], "confirmed", consent[owner[n]].policy))
    BY <1>8, Owned DEF Confirm, IsLive
  <2> QED BY <1>8, <2>1, RowWritten DEF Confirm, IsLive, list, queue, worker, Cooling,
     CooldownHolds, IsConfirmed, TypeOfPeople, Stranger
<1>9. ASSUME NEW c \in Contacts, DeleteContact(c)
      PROVE  Cooling' /\ CooldownHolds'
  BY <1>9 DEF DeleteContact, Drop, vars, list, people, tokens, queue, worker, history, Cooling,
     CooldownHolds, IsConfirmed, TypeOfPeople, Stranger
<1>10. ASSUME NEW c \in Contacts, Suppress(c)
      PROVE  Cooling' /\ CooldownHolds'
  BY <1>10 DEF Suppress, vars, list, people, tokens, queue, worker, history, Cooling,
     CooldownHolds, IsConfirmed, TypeOfPeople, Stranger
<1>11. ASSUME NEW c \in Contacts, NEW wide \in BOOLEAN, Unsubscribe(c, wide)
      PROVE  Cooling' /\ CooldownHolds'
  BY <1>11, RowWritten DEF Unsubscribe, vars, list, people, tokens, queue, worker, history,
     Cooling, CooldownHolds, IsConfirmed, TypeOfPeople, Stranger
<1>12. ASSUME NEW version \in Policies, NEW retire \in BOOLEAN, Deploy(version, retire)
      PROVE  Cooling' /\ CooldownHolds'
  BY <1>12, RowsMoved DEF Deploy, Drop, Unused, vars, list, people, tokens, queue, worker,
     history, Cooling, CooldownHolds, IsConfirmed, TypeOfPeople, Stranger
<1>13. CASE Retain
  BY <1>13 DEF Retain, Drop, vars, list, people, tokens, queue, worker, history, Cooling,
     CooldownHolds, IsConfirmed, TypeOfPeople, Stranger
<1>14. CASE PauseProject
  BY <1>14 DEF PauseProject, vars, list, people, tokens, queue, worker, history, Cooling,
     CooldownHolds, IsConfirmed, TypeOfPeople, Stranger
<1>15. ASSUME NEW stop \in {"project", "installation"}, Resume(stop)
      PROVE  Cooling' /\ CooldownHolds'
  BY <1>15 DEF Resume, vars, list, people, tokens, queue, worker, history, Cooling,
     CooldownHolds, IsConfirmed, TypeOfPeople, Stranger
<1>16. ASSUME NEW c \in Contacts, Cool(c)
      PROVE  Cooling' /\ CooldownHolds'
  BY <1>16 DEF Cool, vars, list, people, tokens, queue, worker, history, Cooling,
     CooldownHolds, IsConfirmed, TypeOfPeople, Stranger
<1>17. ASSUME NEW n \in Tokens, Expire(n)
      PROVE  Cooling' /\ CooldownHolds'
  BY <1>17 DEF Expire, IsLive, vars, list, people, tokens, queue, worker, history, Cooling,
     CooldownHolds, IsConfirmed, TypeOfPeople, Stranger
<1>18. ASSUME NEW n \in Tokens, Elapse(n)
      PROVE  Cooling' /\ CooldownHolds'
  BY <1>18 DEF Elapse, vars, list, people, tokens, queue, worker, history, Cooling,
     CooldownHolds, IsConfirmed, TypeOfPeople, Stranger
<1>19. CASE StartTick
  BY <1>19 DEF StartTick, ExpireLeases, Goto, vars, list, people, tokens, queue, worker,
     history, Cooling, CooldownHolds, IsConfirmed, TypeOfPeople, Stranger
<1>20. ASSUME NEW n \in Tokens, Claim(n)
      PROVE  Cooling' /\ CooldownHolds'
  BY <1>20 DEF Claim, Goto, vars, list, people, tokens, queue, worker, history, Cooling,
     CooldownHolds, IsConfirmed, TypeOfPeople, Stranger
<1>21. CASE EndTick
  BY <1>21 DEF EndTick, Goto, vars, list, people, tokens, queue, worker, history, Cooling,
     CooldownHolds, IsConfirmed, TypeOfPeople, Stranger
<1>22. CASE CheckLink
  BY <1>22, Settled DEF CheckLink, MayMail, Goto, vars, list, people, tokens, queue, worker,
     history, Cooling, CooldownHolds, IsConfirmed, TypeOfPeople, Stranger
<1>23. CASE Prepare
  BY <1>23, Settled DEF Prepare, Goto, vars, list, people, tokens, queue, worker, history,
     Cooling, CooldownHolds, IsConfirmed, TypeOfPeople, Stranger
<1>24. ASSUME NEW o \in SendOutcomes, Send(o)
      PROVE  Cooling' /\ CooldownHolds'
  BY <1>24, Outcomes DEF Send, Goto, vars, list, people, tokens, queue, worker, history,
     Cooling, CooldownHolds, IsConfirmed, TypeOfPeople, Stranger
<1>25. CASE Finish
  BY <1>25, Settled, Outcomes DEF Finish, Goto, vars, list, people, tokens, queue, worker,
     history, Cooling, CooldownHolds, IsConfirmed, TypeOfPeople, Stranger
<1>26. ASSUME NEW recovery \in BOOLEAN, Crash(recovery)
      PROVE  Cooling' /\ CooldownHolds'
  BY <1>26 DEF Crash, Goto, Idle, vars, list, people, tokens, queue, worker, history, Cooling,
     CooldownHolds, IsConfirmed, TypeOfPeople, Stranger
<1>27. CASE UNCHANGED vars
  BY <1>27 DEF vars, list, people, tokens, queue, worker, history, Cooling, CooldownHolds,
     IsConfirmed, TypeOfPeople, Stranger
<1>28. CASE FailTick
  BY <1>28 DEF FailTick, Goto, vars, list, people, tokens, queue, worker, history, Cooling,
     CooldownHolds, IsConfirmed, TypeOfPeople, Stranger
<1> QED BY <1>1, <1>2, <1>3, <1>4, <1>5, <1>6, <1>7, <1>8, <1>9, <1>10, <1>11, <1>12, <1>13,
   <1>14, <1>15, <1>16, <1>17, <1>18, <1>19, <1>20, <1>21, <1>22, <1>23, <1>24, <1>25, <1>26,
   <1>27, <1>28 DEF Next, Requests, People, Time, Worker

\* Rows and their history.
LEMMA HistoryHolds == IInv /\ [Next]_vars => Blank' /\ HistoryTellsConsent'
<1> SUFFICES ASSUME IInv, [Next]_vars PROVE Blank' /\ HistoryTellsConsent' OBVIOUS
<1> TypeOK /\ Named /\ Numbered /\ Blank /\ HistoryTellsConsent BY DEF IInv
<1> TypeOfPeople /\ TypeOfLinks /\ TypeOfWork
  BY Forms
<1>1. ASSUME NEW h \in Handlers, NEW c \in Contacts, Ask(h, c)
      PROVE  Blank' /\ HistoryTellsConsent'
  BY <1>1 DEF Ask, vars, list, people, tokens, queue, worker, history, Blank,
     HistoryTellsConsent, Stranger, IsConfirmed, TypeOfPeople
<1>2. ASSUME NEW h \in Handlers, NEW c \in Contacts, BeginImport(h, c)
      PROVE  Blank' /\ HistoryTellsConsent'
  BY <1>2 DEF BeginImport, vars, list, people, tokens, queue, worker, history, Blank,
     HistoryTellsConsent, Stranger, IsConfirmed, TypeOfPeople
<1>3. ASSUME NEW h \in Handlers, Import(h)
      PROVE  Blank' /\ HistoryTellsConsent'
  BY <1>3 DEF Import, NoRowYet, Leave, Idle, vars, list, people, tokens, queue, worker,
     history, Blank, HistoryTellsConsent, Stranger, IsConfirmed, TypeOfPeople
<1>4. ASSUME NEW h \in Handlers, Limit(h)
      PROVE  Blank' /\ HistoryTellsConsent'
  BY <1>4 DEF Limit, Advance, Leave, Idle, vars, list, people, tokens, queue, worker, history,
     Blank, HistoryTellsConsent, Stranger, IsConfirmed, TypeOfPeople
<1>5. ASSUME NEW h \in Handlers, ReadPolicy(h)
      PROVE  Blank' /\ HistoryTellsConsent'
  BY <1>5 DEF ReadPolicy, Leave, Idle, vars, list, people, tokens, queue, worker, history,
     Blank, HistoryTellsConsent, Stranger, IsConfirmed, TypeOfPeople
<1>6. ASSUME NEW h \in Handlers, ReadSuppression(h)
      PROVE  Blank' /\ HistoryTellsConsent'
  BY <1>6 DEF ReadSuppression, Advance, Leave, Idle, vars, list, people, tokens, queue, worker,
     history, Blank, HistoryTellsConsent, Stranger, IsConfirmed, TypeOfPeople
<1>7. ASSUME NEW h \in Handlers, Commit(h)
      PROVE  Blank' /\ HistoryTellsConsent'
  BY <1>7, Committed DEF CommitsNothing, CommitsLink, Idle, IsQuiet, vars, list, people,
     tokens, queue, worker, history, Blank, HistoryTellsConsent, Stranger, IsConfirmed,
     TypeOfPeople
<1>8. ASSUME NEW n \in Tokens, Confirm(n)
      PROVE  Blank' /\ HistoryTellsConsent'
  <2>1. owner[n] \in Contacts /\ SetConsent(Only(owner[n], "confirmed", consent[owner[n]].policy))
    BY <1>8, Owned DEF Confirm, IsLive
  <2> QED BY <1>8, <2>1, RowWritten DEF Confirm, IsLive, list, queue, worker, Blank,
     HistoryTellsConsent, Stranger, IsConfirmed, TypeOfPeople
<1>9. ASSUME NEW c \in Contacts, DeleteContact(c)
      PROVE  Blank' /\ HistoryTellsConsent'
  BY <1>9 DEF DeleteContact, Drop, vars, list, people, tokens, queue, worker, history, Blank,
     HistoryTellsConsent, Stranger, IsConfirmed, TypeOfPeople
<1>10. ASSUME NEW c \in Contacts, Suppress(c)
      PROVE  Blank' /\ HistoryTellsConsent'
  BY <1>10 DEF Suppress, vars, list, people, tokens, queue, worker, history, Blank,
     HistoryTellsConsent, Stranger, IsConfirmed, TypeOfPeople
<1>11. ASSUME NEW c \in Contacts, NEW wide \in BOOLEAN, Unsubscribe(c, wide)
      PROVE  Blank' /\ HistoryTellsConsent'
  BY <1>11, RowWritten DEF Unsubscribe, vars, list, people, tokens, queue, worker, history,
     Blank, HistoryTellsConsent, Stranger, IsConfirmed, TypeOfPeople
<1>12. ASSUME NEW version \in Policies, NEW retire \in BOOLEAN, Deploy(version, retire)
      PROVE  Blank' /\ HistoryTellsConsent'
  BY <1>12, RowsMoved DEF Deploy, Drop, Unused, vars, list, people, tokens, queue, worker,
     history, Blank, HistoryTellsConsent, Stranger, IsConfirmed, TypeOfPeople
<1>13. CASE Retain
  BY <1>13 DEF Retain, Drop, vars, list, people, tokens, queue, worker, history, Blank,
     HistoryTellsConsent, Stranger, IsConfirmed, TypeOfPeople
<1>14. CASE PauseProject
  BY <1>14 DEF PauseProject, vars, list, people, tokens, queue, worker, history, Blank,
     HistoryTellsConsent, Stranger, IsConfirmed, TypeOfPeople
<1>15. ASSUME NEW stop \in {"project", "installation"}, Resume(stop)
      PROVE  Blank' /\ HistoryTellsConsent'
  BY <1>15 DEF Resume, vars, list, people, tokens, queue, worker, history, Blank,
     HistoryTellsConsent, Stranger, IsConfirmed, TypeOfPeople
<1>16. ASSUME NEW c \in Contacts, Cool(c)
      PROVE  Blank' /\ HistoryTellsConsent'
  BY <1>16 DEF Cool, vars, list, people, tokens, queue, worker, history, Blank,
     HistoryTellsConsent, Stranger, IsConfirmed, TypeOfPeople
<1>17. ASSUME NEW n \in Tokens, Expire(n)
      PROVE  Blank' /\ HistoryTellsConsent'
  BY <1>17 DEF Expire, IsLive, vars, list, people, tokens, queue, worker, history, Blank,
     HistoryTellsConsent, Stranger, IsConfirmed, TypeOfPeople
<1>18. ASSUME NEW n \in Tokens, Elapse(n)
      PROVE  Blank' /\ HistoryTellsConsent'
  BY <1>18 DEF Elapse, vars, list, people, tokens, queue, worker, history, Blank,
     HistoryTellsConsent, Stranger, IsConfirmed, TypeOfPeople
<1>19. CASE StartTick
  BY <1>19 DEF StartTick, ExpireLeases, Goto, vars, list, people, tokens, queue, worker,
     history, Blank, HistoryTellsConsent, Stranger, IsConfirmed, TypeOfPeople
<1>20. ASSUME NEW n \in Tokens, Claim(n)
      PROVE  Blank' /\ HistoryTellsConsent'
  BY <1>20 DEF Claim, Goto, vars, list, people, tokens, queue, worker, history, Blank,
     HistoryTellsConsent, Stranger, IsConfirmed, TypeOfPeople
<1>21. CASE EndTick
  BY <1>21 DEF EndTick, Goto, vars, list, people, tokens, queue, worker, history, Blank,
     HistoryTellsConsent, Stranger, IsConfirmed, TypeOfPeople
<1>22. CASE CheckLink
  BY <1>22, Settled DEF CheckLink, MayMail, Goto, vars, list, people, tokens, queue, worker,
     history, Blank, HistoryTellsConsent, Stranger, IsConfirmed, TypeOfPeople
<1>23. CASE Prepare
  BY <1>23, Settled DEF Prepare, Goto, vars, list, people, tokens, queue, worker, history,
     Blank, HistoryTellsConsent, Stranger, IsConfirmed, TypeOfPeople
<1>24. ASSUME NEW o \in SendOutcomes, Send(o)
      PROVE  Blank' /\ HistoryTellsConsent'
  BY <1>24, Outcomes DEF Send, Goto, vars, list, people, tokens, queue, worker, history, Blank,
     HistoryTellsConsent, Stranger, IsConfirmed, TypeOfPeople
<1>25. CASE Finish
  BY <1>25, Settled, Outcomes DEF Finish, Goto, vars, list, people, tokens, queue, worker,
     history, Blank, HistoryTellsConsent, Stranger, IsConfirmed, TypeOfPeople
<1>26. ASSUME NEW recovery \in BOOLEAN, Crash(recovery)
      PROVE  Blank' /\ HistoryTellsConsent'
  BY <1>26 DEF Crash, Goto, Idle, vars, list, people, tokens, queue, worker, history, Blank,
     HistoryTellsConsent, Stranger, IsConfirmed, TypeOfPeople
<1>27. CASE UNCHANGED vars
  BY <1>27 DEF vars, list, people, tokens, queue, worker, history, Blank, HistoryTellsConsent,
     Stranger, IsConfirmed, TypeOfPeople
<1>28. CASE FailTick
  BY <1>28 DEF FailTick, Goto, vars, list, people, tokens, queue, worker, history, Blank,
     HistoryTellsConsent, Stranger, IsConfirmed, TypeOfPeople
<1> QED BY <1>1, <1>2, <1>3, <1>4, <1>5, <1>6, <1>7, <1>8, <1>9, <1>10, <1>11, <1>12, <1>13,
   <1>14, <1>15, <1>16, <1>17, <1>18, <1>19, <1>20, <1>21, <1>22, <1>23, <1>24, <1>25, <1>26,
   <1>27, <1>28 DEF Next, Requests, People, Time, Worker

\* Only a click on the row's own terms confirms.
LEMMA AgreeingHolds == IInv /\ [Next]_vars => Agreeing'
<1> SUFFICES ASSUME IInv, [Next]_vars PROVE Agreeing' OBVIOUS
<1> TypeOK /\ Named /\ Numbered /\ Linked /\ Agreeing BY DEF IInv
<1> TypeOfPeople /\ TypeOfLinks /\ TypeOfWork
  BY Forms
<1>1. ASSUME NEW h \in Handlers, NEW c \in Contacts, Ask(h, c)
      PROVE  Agreeing'
  BY <1>1 DEF Ask, vars, list, people, tokens, queue, worker, history, Agreeing, IsConfirmed,
     Linked, Unused, Stranger, TypeOfPeople, TypeOfLinks
<1>2. ASSUME NEW h \in Handlers, NEW c \in Contacts, BeginImport(h, c)
      PROVE  Agreeing'
  BY <1>2 DEF BeginImport, vars, list, people, tokens, queue, worker, history, Agreeing,
     IsConfirmed, Linked, Unused, Stranger, TypeOfPeople, TypeOfLinks
<1>3. ASSUME NEW h \in Handlers, Import(h)
      PROVE  Agreeing'
  <2>1. UNCHANGED agreed /\ handler[h].who \in Contacts
    BY <1>3 DEF Import, Named, history
  <2>2. \A c \in Contacts : IsConfirmed(c)' => IsConfirmed(c) /\ consent'[c] = consent[c]
    BY <1>3, <2>1 DEF Import, IsConfirmed, people, TypeOfPeople
  <2> QED BY <2>1, <2>2 DEF Agreeing
<1>4. ASSUME NEW h \in Handlers, Limit(h)
      PROVE  Agreeing'
  BY <1>4 DEF Limit, Advance, Leave, Idle, vars, list, people, tokens, queue, worker, history,
     Agreeing, IsConfirmed, Linked, Unused, Stranger, TypeOfPeople, TypeOfLinks
<1>5. ASSUME NEW h \in Handlers, ReadPolicy(h)
      PROVE  Agreeing'
  BY <1>5 DEF ReadPolicy, Leave, Idle, vars, list, people, tokens, queue, worker, history,
     Agreeing, IsConfirmed, Linked, Unused, Stranger, TypeOfPeople, TypeOfLinks
<1>6. ASSUME NEW h \in Handlers, ReadSuppression(h)
      PROVE  Agreeing'
  BY <1>6 DEF ReadSuppression, Advance, Leave, Idle, vars, list, people, tokens, queue, worker,
     history, Agreeing, IsConfirmed, Linked, Unused, Stranger, TypeOfPeople, TypeOfLinks
<1>7. ASSUME NEW h \in Handlers, Commit(h)
      PROVE  Agreeing'
  BY <1>7, Committed DEF CommitsNothing, CommitsLink, Idle, IsQuiet, vars, list, people,
     tokens, queue, worker, history, Agreeing, IsConfirmed, Linked, Unused, Stranger,
     TypeOfPeople, TypeOfLinks
<1>8. ASSUME NEW n \in Tokens, Confirm(n)
      PROVE  Agreeing'
  <2>1. owner[n] \in Contacts /\ SetConsent(Only(owner[n], "confirmed", consent[owner[n]].policy))
    BY <1>8, Owned DEF Confirm, IsLive
  <2> QED BY <1>8, <2>1, RowWritten DEF Confirm, IsLive, list, queue, worker, Agreeing,
     IsConfirmed, Linked, Unused, Stranger, TypeOfPeople, TypeOfLinks
<1>9. ASSUME NEW c \in Contacts, DeleteContact(c)
      PROVE  Agreeing'
  BY <1>9 DEF DeleteContact, Drop, vars, list, people, tokens, queue, worker, history,
     Agreeing, IsConfirmed, Linked, Unused, Stranger, TypeOfPeople, TypeOfLinks
<1>10. ASSUME NEW c \in Contacts, Suppress(c)
      PROVE  Agreeing'
  BY <1>10 DEF Suppress, vars, list, people, tokens, queue, worker, history, Agreeing,
     IsConfirmed, Linked, Unused, Stranger, TypeOfPeople, TypeOfLinks
<1>11. ASSUME NEW c \in Contacts, NEW wide \in BOOLEAN, Unsubscribe(c, wide)
      PROVE  Agreeing'
  BY <1>11, RowWritten DEF Unsubscribe, vars, list, people, tokens, queue, worker, history,
     Agreeing, IsConfirmed, Linked, Unused, Stranger, TypeOfPeople, TypeOfLinks
<1>12. ASSUME NEW version \in Policies, NEW retire \in BOOLEAN, Deploy(version, retire)
      PROVE  Agreeing'
  BY <1>12, RowsMoved DEF Deploy, Drop, Unused, vars, list, people, tokens, queue, worker,
     history, Agreeing, IsConfirmed, Linked, Stranger, TypeOfPeople, TypeOfLinks
<1>13. CASE Retain
  BY <1>13 DEF Retain, Drop, vars, list, people, tokens, queue, worker, history, Agreeing,
     IsConfirmed, Linked, Unused, Stranger, TypeOfPeople, TypeOfLinks
<1>14. CASE PauseProject
  BY <1>14 DEF PauseProject, vars, list, people, tokens, queue, worker, history, Agreeing,
     IsConfirmed, Linked, Unused, Stranger, TypeOfPeople, TypeOfLinks
<1>15. ASSUME NEW stop \in {"project", "installation"}, Resume(stop)
      PROVE  Agreeing'
  BY <1>15 DEF Resume, vars, list, people, tokens, queue, worker, history, Agreeing,
     IsConfirmed, Linked, Unused, Stranger, TypeOfPeople, TypeOfLinks
<1>16. ASSUME NEW c \in Contacts, Cool(c)
      PROVE  Agreeing'
  BY <1>16 DEF Cool, vars, list, people, tokens, queue, worker, history, Agreeing, IsConfirmed,
     Linked, Unused, Stranger, TypeOfPeople, TypeOfLinks
<1>17. ASSUME NEW n \in Tokens, Expire(n)
      PROVE  Agreeing'
  BY <1>17 DEF Expire, IsLive, vars, list, people, tokens, queue, worker, history, Agreeing,
     IsConfirmed, Linked, Unused, Stranger, TypeOfPeople, TypeOfLinks
<1>18. ASSUME NEW n \in Tokens, Elapse(n)
      PROVE  Agreeing'
  BY <1>18 DEF Elapse, vars, list, people, tokens, queue, worker, history, Agreeing,
     IsConfirmed, Linked, Unused, Stranger, TypeOfPeople, TypeOfLinks
<1>19. CASE StartTick
  BY <1>19 DEF StartTick, ExpireLeases, Goto, vars, list, people, tokens, queue, worker,
     history, Agreeing, IsConfirmed, Linked, Unused, Stranger, TypeOfPeople, TypeOfLinks
<1>20. ASSUME NEW n \in Tokens, Claim(n)
      PROVE  Agreeing'
  BY <1>20 DEF Claim, Goto, vars, list, people, tokens, queue, worker, history, Agreeing,
     IsConfirmed, Linked, Unused, Stranger, TypeOfPeople, TypeOfLinks
<1>21. CASE EndTick
  BY <1>21 DEF EndTick, Goto, vars, list, people, tokens, queue, worker, history, Agreeing,
     IsConfirmed, Linked, Unused, Stranger, TypeOfPeople, TypeOfLinks
<1>22. CASE CheckLink
  BY <1>22, Settled DEF CheckLink, MayMail, Goto, vars, list, people, tokens, queue, worker,
     history, Agreeing, IsConfirmed, Linked, Unused, Stranger, TypeOfPeople, TypeOfLinks
<1>23. CASE Prepare
  BY <1>23, Settled DEF Prepare, Goto, vars, list, people, tokens, queue, worker, history,
     Agreeing, IsConfirmed, Linked, Unused, Stranger, TypeOfPeople, TypeOfLinks
<1>24. ASSUME NEW o \in SendOutcomes, Send(o)
      PROVE  Agreeing'
  BY <1>24, Outcomes DEF Send, Goto, vars, list, people, tokens, queue, worker, history,
     Agreeing, IsConfirmed, Linked, Unused, Stranger, TypeOfPeople, TypeOfLinks
<1>25. CASE Finish
  BY <1>25, Settled, Outcomes DEF Finish, Goto, vars, list, people, tokens, queue, worker,
     history, Agreeing, IsConfirmed, Linked, Unused, Stranger, TypeOfPeople, TypeOfLinks
<1>26. ASSUME NEW recovery \in BOOLEAN, Crash(recovery)
      PROVE  Agreeing'
  BY <1>26 DEF Crash, Goto, Idle, vars, list, people, tokens, queue, worker, history, Agreeing,
     IsConfirmed, Linked, Unused, Stranger, TypeOfPeople, TypeOfLinks
<1>27. CASE UNCHANGED vars
  BY <1>27 DEF vars, list, people, tokens, queue, worker, history, Agreeing, IsConfirmed,
     Linked, Unused, Stranger, TypeOfPeople, TypeOfLinks
<1>28. CASE FailTick
  BY <1>28 DEF FailTick, Goto, vars, list, people, tokens, queue, worker, history, Agreeing,
     IsConfirmed, Linked, Unused, Stranger, TypeOfPeople, TypeOfLinks
<1> QED BY <1>1, <1>2, <1>3, <1>4, <1>5, <1>6, <1>7, <1>8, <1>9, <1>10, <1>11, <1>12, <1>13,
   <1>14, <1>15, <1>16, <1>17, <1>18, <1>19, <1>20, <1>21, <1>22, <1>23, <1>24, <1>25, <1>26,
   <1>27, <1>28 DEF Next, Requests, People, Time, Worker

\* Terms change under links and consents only where a deployment voids them, or where
\* the request itself was overtaken.
LEMMA OvertakingHolds == IInv /\ [Next]_vars => Overtaking'
<1> SUFFICES ASSUME IInv, [Next]_vars PROVE Overtaking' OBVIOUS
<1> TypeOK /\ Named /\ Numbered /\ Overtaking BY DEF IInv
<1> TypeOfPeople /\ TypeOfLinks /\ TypeOfWork
  BY Forms
<1>o. \A m \in Tokens : Unused(m) => owner[m] \in Contacts
  BY Owned DEF Unused
<1> DEFINE Same == /\ UNCHANGED <<policy, owner, terms, agreed, overtaken>>
                   /\ \A n \in Tokens : Unused(n)' => Unused(n)
                   /\ \A c \in Contacts : IsConfirmed(c)' => IsConfirmed(c)
<1>s. ASSUME Same PROVE Overtaking'
  BY <1>s DEF Overtaking, Alike
<1>1. ASSUME NEW h \in Handlers, Commit(h) PROVE Overtaking'
  <2>1. CASE CommitsNothing(h)
    <3>1. Same
      BY <1>1, <2>1, Committed DEF CommitsNothing, Unused, IsConfirmed
    <3> QED BY <1>s, <3>1
  <2>2. CASE CommitsLink(h, handler[h].who, issued + 1)
    <3> DEFINE k == issued + 1
               c == handler[h].who
    <3>1. /\ k \in Tokens /\ c \in Contacts /\ UNCHANGED <<policy, agreed>>
          /\ owner'[k] = c /\ terms'[k] = handler[h].read
          /\ \A n \in Tokens \ {k} : owner'[n] = owner[n] /\ terms'[n] = terms[n]
          /\ overtaken' = IF handler[h].read \in Alike \ {policy} THEN overtaken \cup {c}
                          ELSE overtaken \ {c}
      BY <1>1, <2>2, Committed DEF CommitsLink, TypeOfLinks
    <3>2. Alike' = Alike
      BY <3>1 DEF Alike
    <3>3. ASSUME NEW n \in Tokens, n /= k, Unused(n)' PROVE Unused(n) /\ owner[n] /= c
      BY <2>2, <3>3 DEF CommitsLink, Unused
    <3>4. \A x \in Contacts : IsConfirmed(x)' => IsConfirmed(x) /\ x /= c
      BY <2>2 DEF CommitsLink, IsConfirmed
    <3>5. ASSUME NEW n \in Tokens, Unused(n)', terms'[n] \in Alike
          PROVE  terms'[n] = policy \/ owner'[n] \in overtaken'
      <4>1. CASE n = k
        BY <3>1, <3>5, <4>1
      <4>2. CASE n /= k
        BY <3>1, <3>3, <3>5, <4>2 DEF Overtaking
      <4> QED BY <4>1, <4>2
    <3>6. ASSUME NEW x \in Contacts, IsConfirmed(x)', agreed[x] \in Alike
          PROVE  agreed[x] = policy \/ x \in overtaken'
      BY <3>1, <3>4, <3>6 DEF Overtaking
    <3> HIDE DEF k, c
    <3> QED BY <3>1, <3>2, <3>5, <3>6 DEF Overtaking
  <2> QED BY <1>1, <2>1, <2>2, Committed
<1>2. ASSUME NEW n \in Tokens, Confirm(n) PROVE Overtaking'
  <2> DEFINE c == owner[n]
  <2>1. /\ c \in Contacts /\ Unused(n) /\ UNCHANGED <<policy, owner, terms, overtaken>>
        /\ agreed' = [agreed EXCEPT ![c] = terms[n]]
        /\ token' = [token EXCEPT ![n] = "used"]
    BY <1>2, <1>o DEF Confirm, IsLive, Unused, list
  <2>2. \A x \in Contacts : x /= c => consent'[x] = consent[x]
    <3>1. SetConsent(Only(c, "confirmed", consent[c].policy))
      BY <1>2 DEF Confirm
    <3> QED BY <2>1, <3>1, RowWritten
  <2>3. Alike' = Alike /\ \A m \in Tokens : Unused(m)' => Unused(m)
    BY <2>1 DEF Alike, Unused, TypeOfLinks
  <2>4. ASSUME NEW x \in Contacts, IsConfirmed(x)', agreed'[x] \in Alike
        PROVE  agreed'[x] = policy \/ x \in overtaken
    <3>1. CASE x = c
      BY <2>1, <2>4, <3>1 DEF Overtaking, TypeOfPeople
    <3>2. CASE x /= c
      BY <2>1, <2>2, <2>4, <3>2 DEF Overtaking, IsConfirmed, TypeOfPeople
    <3> QED BY <3>1, <3>2
  <2> QED BY <2>1, <2>3, <2>4 DEF Overtaking
<1>3. ASSUME NEW version \in Policies, NEW retire \in BOOLEAN, Deploy(version, retire)
      PROVE  Overtaking'
  <2>1. CASE version = policy
    <3>1. Same
      BY <1>3, <2>1 DEF Deploy, tokens, history, Unused, IsConfirmed
    <3> QED BY <1>s, <3>1
  <2>2. CASE version /= policy
    <3>1. \A n \in Tokens : ~Unused(n)'
      BY <1>3, <2>2 DEF Deploy, Drop, Unused
    <3>2. \A c \in Contacts : ~IsConfirmed(c)'
      BY <1>3, <2>2, RowsMoved DEF Deploy, IsConfirmed
    <3> QED BY <3>1, <3>2 DEF Overtaking
  <2> QED BY <2>1, <2>2
<1>4. ASSUME NEW c \in Contacts, DeleteContact(c) \/ Suppress(c) \/ \E wide \in BOOLEAN : Unsubscribe(c, wide)
      PROVE  Same
  <2>1. CASE DeleteContact(c)
    BY <2>1 DEF DeleteContact, Drop, Unused, IsConfirmed, Stranger, list, TypeOfPeople
  <2>2. CASE Suppress(c)
    BY <2>2 DEF Suppress, Unused, IsConfirmed, list, tokens, history
  <2>3. ASSUME NEW wide \in BOOLEAN, Unsubscribe(c, wide) PROVE Same
    BY <2>3, RowWritten DEF Unsubscribe, Unused, IsConfirmed, list, tokens, history
  <2> QED BY <1>4, <2>1, <2>2, <2>3
<1>5. ASSUME Retain \/ PauseProject \/ (\E stop \in {"project", "installation"} : Resume(stop)) \/ Time
      PROVE  Same
  BY <1>5 DEF Retain, PauseProject, Resume, Time, Cool, Expire, Elapse, Drop, Unused, IsLive,
     IsConfirmed, list, people, tokens, history, TypeOfLinks
<1>6. ASSUME Worker \/ UNCHANGED vars \/ \E recovery \in BOOLEAN : Crash(recovery)
      PROVE  Same
  BY <1>6 DEF Worker, StartTick, Claim, EndTick, CheckLink, Prepare, Send, Finish, FailTick, Crash,
     Unused, IsConfirmed, vars, list, people, tokens, history
<1>7. ASSUME NEW h \in Handlers, Import(h) PROVE Same
  BY <1>7 DEF Import, NoRowYet, Named, Unused, IsConfirmed, list, tokens, history, people,
     TypeOfPeople
<1>8. ASSUME NEW h \in Handlers, NEW c \in Contacts, Ask(h, c) \/ BeginImport(h, c)
      PROVE  Same
  BY <1>8 DEF Ask, BeginImport, Unused, IsConfirmed, list, people, tokens, history
<1>9. ASSUME NEW h \in Handlers, Limit(h) \/ ReadPolicy(h) \/ ReadSuppression(h)
      PROVE  Same
  BY <1>9 DEF Limit, ReadPolicy, ReadSuppression, Unused, IsConfirmed, list, people, tokens, history
<1> HIDE DEF Same
<1> QED BY <1>s, <1>1, <1>2, <1>3, <1>4, <1>5, <1>6, <1>7, <1>8, <1>9 DEF Next, Requests, People

\* After a late mail the way to another one is closed.
LEMMA LatelyHolds == IInv /\ [Next]_vars => Lately' /\ WithdrawalLetsOneMailOut'
<1> SUFFICES ASSUME IInv, [Next]_vars PROVE Lately' /\ WithdrawalLetsOneMailOut' OBVIOUS
<1> TypeOK /\ Named /\ Numbered /\ Held /\ Linked /\ Lately /\ WithdrawalLetsOneMailOut BY DEF IInv
<1> TypeOfPeople /\ TypeOfLinks /\ TypeOfWork
  BY Forms
<1>1. ASSUME NEW h \in Handlers, NEW c \in Contacts, Ask(h, c)
      PROVE  Lately' /\ WithdrawalLetsOneMailOut'
  BY <1>1 DEF Ask, vars, list, people, tokens, queue, worker, history, Lately,
     WithdrawalLetsOneMailOut, IsLive, Unused, IsConfirmed, Linked, Held, Holding, Stranger,
     TypeOfPeople, TypeOfLinks, TypeOfWork
<1>2. ASSUME NEW h \in Handlers, NEW c \in Contacts, BeginImport(h, c)
      PROVE  Lately' /\ WithdrawalLetsOneMailOut'
  BY <1>2 DEF BeginImport, vars, list, people, tokens, queue, worker, history, Lately,
     WithdrawalLetsOneMailOut, IsLive, Unused, IsConfirmed, Linked, Held, Holding, Stranger,
     TypeOfPeople, TypeOfLinks, TypeOfWork
<1>3. ASSUME NEW h \in Handlers, Import(h)
      PROVE  Lately' /\ WithdrawalLetsOneMailOut'
  BY <1>3 DEF Import, NoRowYet, Leave, Idle, vars, list, people, tokens, queue, worker,
     history, Lately, WithdrawalLetsOneMailOut, IsLive, Unused, IsConfirmed, Linked, Held,
     Holding, Stranger, TypeOfPeople, TypeOfLinks, TypeOfWork
<1>4. ASSUME NEW h \in Handlers, Limit(h)
      PROVE  Lately' /\ WithdrawalLetsOneMailOut'
  BY <1>4 DEF Limit, Advance, Leave, Idle, vars, list, people, tokens, queue, worker, history,
     Lately, WithdrawalLetsOneMailOut, IsLive, Unused, IsConfirmed, Linked, Held, Holding,
     Stranger, TypeOfPeople, TypeOfLinks, TypeOfWork
<1>5. ASSUME NEW h \in Handlers, ReadPolicy(h)
      PROVE  Lately' /\ WithdrawalLetsOneMailOut'
  BY <1>5 DEF ReadPolicy, Leave, Idle, vars, list, people, tokens, queue, worker, history,
     Lately, WithdrawalLetsOneMailOut, IsLive, Unused, IsConfirmed, Linked, Held, Holding,
     Stranger, TypeOfPeople, TypeOfLinks, TypeOfWork
<1>6. ASSUME NEW h \in Handlers, ReadSuppression(h)
      PROVE  Lately' /\ WithdrawalLetsOneMailOut'
  BY <1>6 DEF ReadSuppression, Advance, Leave, Idle, vars, list, people, tokens, queue, worker,
     history, Lately, WithdrawalLetsOneMailOut, IsLive, Unused, IsConfirmed, Linked, Held,
     Holding, Stranger, TypeOfPeople, TypeOfLinks, TypeOfWork
<1>7. ASSUME NEW h \in Handlers, Commit(h)
      PROVE  Lately' /\ WithdrawalLetsOneMailOut'
  <2>1. CASE CommitsNothing(h)
    BY <1>7, <2>1, Committed DEF CommitsNothing, Lately, WithdrawalLetsOneMailOut, IsLive,
       Unused, IsConfirmed, Linked, Held, Holding, Stranger, TypeOfPeople, TypeOfLinks,
       TypeOfWork
  <2>2. CASE CommitsLink(h, handler[h].who, issued + 1)
    <3> DEFINE k == issued + 1
               c == handler[h].who
    <3>1. /\ k \in Tokens /\ c \in Contacts /\ owner' = [owner EXCEPT ![k] = c]
          /\ consent' = [consent EXCEPT ![c] = [state |-> "pending", policy |-> Version[handler[h].read]]]
          /\ late' = [late EXCEPT ![c] = 0] /\ UNCHANGED <<pc, at, suppressed>>
          /\ token' = [x \in Tokens |->
               IF x = k THEN "live" ELSE IF owner[x] = c /\ Unused(x) THEN "gone" ELSE token[x]]
      BY <1>7, <2>2, Committed DEF CommitsLink, TypeOfPeople
    <3>2. pc \in Holding => at /= k /\ at \in Tokens
      BY <3>1 DEF Numbered, Held, TypeOfLinks, Tokens
    <3>3. owner'[k] = c /\ \A n \in Tokens \ {k} : owner'[n] = owner[n]
      BY <3>1 DEF TypeOfLinks
    <3>4. late'[c] = 0 /\ \A x \in Contacts : late'[x] <= late[x] /\ (x /= c => late'[x] = late[x])
      BY <3>1 DEF TypeOfPeople
    <3>5. ASSUME NEW x \in Contacts, NEW n \in Tokens, late'[x] > 0, owner'[n] = x, IsLive(n)'
          PROVE  consent'[x].state /= "pending" \/ x \in suppressed'
      <4>1. x /= c /\ n /= k /\ late[x] > 0 /\ owner[n] = x
        BY <3>3, <3>4, <3>5
      <4>2. IsLive(n) /\ consent'[x] = consent[x]
        BY <3>1, <3>5, <4>1 DEF IsLive, TypeOfPeople
      <4> QED BY <3>1, <3>5, <4>1, <4>2 DEF Lately
    <3>6. pc' \in {"prepare", "send"} => late'[owner'[at']] = 0
      <4>1. SUFFICES ASSUME pc \in {"prepare", "send"} PROVE late'[owner[at]] = 0
        BY <3>1, <3>2, <3>3 DEF Holding
      <4>2. at \in Tokens /\ owner[at] \in Contacts
        BY <3>2, <4>1, Owned DEF Held, Holding
      <4> QED BY <3>4, <4>1, <4>2 DEF Lately
    <3>7. WithdrawalLetsOneMailOut'
      BY <3>1 DEF WithdrawalLetsOneMailOut, TypeOfPeople
    <3> QED BY <3>5, <3>6, <3>7 DEF Lately
  <2> QED BY <1>7, <2>1, <2>2, Committed
<1>8. ASSUME NEW n \in Tokens, Confirm(n)
      PROVE  Lately' /\ WithdrawalLetsOneMailOut'
  <2> DEFINE c == owner[n]
  <2>1. c \in Contacts /\ SetConsent(Only(c, "confirmed", consent[c].policy))
    BY <1>8, Owned DEF Confirm, IsLive
  <2>2. \A x \in Contacts : consent[x].state /= "pending" => consent'[x].state /= "pending"
    BY <2>1, RowWritten
  <2>3. /\ UNCHANGED <<suppressed, owner, pc, at, late>> /\ \A m \in Tokens : IsLive(m)' => IsLive(m)
    BY <1>8 DEF Confirm, worker, IsLive, TypeOfLinks
  <2> QED BY <2>2, <2>3 DEF Lately, WithdrawalLetsOneMailOut
<1>9. ASSUME NEW c \in Contacts, DeleteContact(c)
      PROVE  Lately' /\ WithdrawalLetsOneMailOut'
  BY <1>9 DEF DeleteContact, Drop, vars, list, people, tokens, queue, worker, history, Lately,
     WithdrawalLetsOneMailOut, IsLive, Unused, IsConfirmed, Linked, Held, Holding, Stranger,
     TypeOfPeople, TypeOfLinks, TypeOfWork
<1>10. ASSUME NEW c \in Contacts, Suppress(c)
      PROVE  Lately' /\ WithdrawalLetsOneMailOut'
  BY <1>10 DEF Suppress, vars, list, people, tokens, queue, worker, history, Lately,
     WithdrawalLetsOneMailOut, IsLive, Unused, IsConfirmed, Linked, Held, Holding, Stranger,
     TypeOfPeople, TypeOfLinks, TypeOfWork
<1>11. ASSUME NEW c \in Contacts, NEW wide \in BOOLEAN, Unsubscribe(c, wide)
      PROVE  Lately' /\ WithdrawalLetsOneMailOut'
  BY <1>11, RowWritten DEF Unsubscribe, vars, list, people, tokens, queue, worker, history,
     Lately, WithdrawalLetsOneMailOut, IsLive, Unused, IsConfirmed, Linked, Held, Holding,
     Stranger, TypeOfPeople, TypeOfLinks, TypeOfWork
<1>12. ASSUME NEW version \in Policies, NEW retire \in BOOLEAN, Deploy(version, retire)
      PROVE  Lately' /\ WithdrawalLetsOneMailOut'
  BY <1>12, RowsMoved DEF Deploy, Drop, Unused, vars, list, people, tokens, queue, worker,
     history, Lately, WithdrawalLetsOneMailOut, IsLive, IsConfirmed, Linked, Held, Holding,
     Stranger, TypeOfPeople, TypeOfLinks, TypeOfWork
<1>13. CASE Retain
  BY <1>13 DEF Retain, Drop, vars, list, people, tokens, queue, worker, history, Lately,
     WithdrawalLetsOneMailOut, IsLive, Unused, IsConfirmed, Linked, Held, Holding, Stranger,
     TypeOfPeople, TypeOfLinks, TypeOfWork
<1>14. CASE PauseProject
  BY <1>14 DEF PauseProject, vars, list, people, tokens, queue, worker, history, Lately,
     WithdrawalLetsOneMailOut, IsLive, Unused, IsConfirmed, Linked, Held, Holding, Stranger,
     TypeOfPeople, TypeOfLinks, TypeOfWork
<1>15. ASSUME NEW stop \in {"project", "installation"}, Resume(stop)
      PROVE  Lately' /\ WithdrawalLetsOneMailOut'
  BY <1>15 DEF Resume, vars, list, people, tokens, queue, worker, history, Lately,
     WithdrawalLetsOneMailOut, IsLive, Unused, IsConfirmed, Linked, Held, Holding, Stranger,
     TypeOfPeople, TypeOfLinks, TypeOfWork
<1>16. ASSUME NEW c \in Contacts, Cool(c)
      PROVE  Lately' /\ WithdrawalLetsOneMailOut'
  BY <1>16 DEF Cool, vars, list, people, tokens, queue, worker, history, Lately,
     WithdrawalLetsOneMailOut, IsLive, Unused, IsConfirmed, Linked, Held, Holding, Stranger,
     TypeOfPeople, TypeOfLinks, TypeOfWork
<1>17. ASSUME NEW n \in Tokens, Expire(n)
      PROVE  Lately' /\ WithdrawalLetsOneMailOut'
  BY <1>17 DEF Expire, IsLive, vars, list, people, tokens, queue, worker, history, Lately,
     WithdrawalLetsOneMailOut, Unused, IsConfirmed, Linked, Held, Holding, Stranger,
     TypeOfPeople, TypeOfLinks, TypeOfWork
<1>18. ASSUME NEW n \in Tokens, Elapse(n)
      PROVE  Lately' /\ WithdrawalLetsOneMailOut'
  BY <1>18 DEF Elapse, vars, list, people, tokens, queue, worker, history, Lately,
     WithdrawalLetsOneMailOut, IsLive, Unused, IsConfirmed, Linked, Held, Holding, Stranger,
     TypeOfPeople, TypeOfLinks, TypeOfWork
<1>19. CASE StartTick
  BY <1>19 DEF StartTick, ExpireLeases, Goto, vars, list, people, tokens, queue, worker,
     history, Lately, WithdrawalLetsOneMailOut, IsLive, Unused, IsConfirmed, Linked, Held,
     Holding, Stranger, TypeOfPeople, TypeOfLinks, TypeOfWork
<1>20. ASSUME NEW n \in Tokens, Claim(n)
      PROVE  Lately' /\ WithdrawalLetsOneMailOut'
  BY <1>20 DEF Claim, Goto, vars, list, people, tokens, queue, worker, history, Lately,
     WithdrawalLetsOneMailOut, IsLive, Unused, IsConfirmed, Linked, Held, Holding, Stranger,
     TypeOfPeople, TypeOfLinks, TypeOfWork
<1>21. CASE EndTick
  BY <1>21 DEF EndTick, Goto, vars, list, people, tokens, queue, worker, history, Lately,
     WithdrawalLetsOneMailOut, IsLive, Unused, IsConfirmed, Linked, Held, Holding, Stranger,
     TypeOfPeople, TypeOfLinks, TypeOfWork
<1>22. CASE CheckLink
  <2>1. CASE GoesOn
    <3>1. MayMail(at) /\ at \in Tokens /\ UNCHANGED <<at, owner, late, token, consent, suppressed>>
      BY <1>22, <2>1, WorkerMoves DEF GoesOn, CheckLink
    <3>2. owner[at] \in Contacts
      BY <3>1, Owned DEF MayMail, IsLive
    <3>3. ~(late[owner[at]] > 0) /\ late[owner[at]] = 0
      BY <3>1, <3>2 DEF Lately, MayMail, TypeOfPeople
    <3> QED BY <3>1, <3>3 DEF Lately, WithdrawalLetsOneMailOut, IsLive
  <2>2. CASE \E st \in JobStates : Leaves(st)
    <3>1. PICK st \in JobStates : Leaves(st)
      BY <2>2
    <3> QED BY <1>22, <3>1, WorkerMoves DEF Leaves, Lately, WithdrawalLetsOneMailOut, IsLive,
       Unused, IsConfirmed, Linked, Held, Holding, Stranger, TypeOfPeople, TypeOfLinks,
       TypeOfWork, MayMail
  <2> QED BY <1>22, <2>1, <2>2, WorkerMoves
<1>23. CASE Prepare
  <2>1. CASE GoesOn
    BY <1>23, <2>1, WorkerMoves DEF GoesOn, Prepare, Goto, Lately, WithdrawalLetsOneMailOut,
       IsLive, Unused, IsConfirmed, Linked, Held, Holding, Stranger, TypeOfPeople, TypeOfLinks,
       TypeOfWork, MayMail
  <2>2. CASE \E st \in JobStates : Leaves(st)
    <3>1. PICK st \in JobStates : Leaves(st)
      BY <2>2
    <3> QED BY <1>23, <3>1, WorkerMoves DEF Leaves, Lately, WithdrawalLetsOneMailOut, IsLive,
       Unused, IsConfirmed, Linked, Held, Holding, Stranger, TypeOfPeople, TypeOfLinks,
       TypeOfWork, MayMail
  <2> QED BY <1>23, <2>1, <2>2, WorkerMoves
<1>24. ASSUME NEW o \in SendOutcomes, Send(o)
      PROVE  Lately' /\ WithdrawalLetsOneMailOut'
  BY <1>24, Outcomes DEF Send, Goto, vars, list, people, tokens, queue, worker, history,
     Lately, WithdrawalLetsOneMailOut, IsLive, Unused, IsConfirmed, Linked, Held, Holding,
     Stranger, TypeOfPeople, TypeOfLinks, TypeOfWork
<1>25. CASE Finish
  <2>1. CASE GoesOn
    BY <1>25, <2>1, WorkerMoves DEF GoesOn, Finish, Goto, Lately, WithdrawalLetsOneMailOut,
       IsLive, Unused, IsConfirmed, Linked, Held, Holding, Stranger, TypeOfPeople, TypeOfLinks,
       TypeOfWork, MayMail
  <2>2. CASE \E st \in JobStates : Leaves(st)
    <3>1. PICK st \in JobStates : Leaves(st)
      BY <2>2
    <3> QED BY <1>25, <3>1, WorkerMoves DEF Leaves, Lately, WithdrawalLetsOneMailOut, IsLive,
       Unused, IsConfirmed, Linked, Held, Holding, Stranger, TypeOfPeople, TypeOfLinks,
       TypeOfWork, MayMail
  <2> QED BY <1>25, <2>1, <2>2, WorkerMoves
<1>26. ASSUME NEW recovery \in BOOLEAN, Crash(recovery)
      PROVE  Lately' /\ WithdrawalLetsOneMailOut'
  BY <1>26 DEF Crash, Goto, Idle, vars, list, people, tokens, queue, worker, history, Lately,
     WithdrawalLetsOneMailOut, IsLive, Unused, IsConfirmed, Linked, Held, Holding, Stranger,
     TypeOfPeople, TypeOfLinks, TypeOfWork
<1>27. CASE UNCHANGED vars
  BY <1>27 DEF vars, list, people, tokens, queue, worker, history, Lately,
     WithdrawalLetsOneMailOut, IsLive, Unused, IsConfirmed, Linked, Held, Holding, Stranger,
     TypeOfPeople, TypeOfLinks, TypeOfWork
<1>28. CASE FailTick
  BY <1>28 DEF FailTick, Goto, vars, list, people, tokens, queue, worker, history, Lately,
     WithdrawalLetsOneMailOut, IsLive, Unused, IsConfirmed, Linked, Held, Holding, Stranger,
     TypeOfPeople, TypeOfLinks, TypeOfWork
<1> QED BY <1>1, <1>2, <1>3, <1>4, <1>5, <1>6, <1>7, <1>8, <1>9, <1>10, <1>11, <1>12, <1>13,
   <1>14, <1>15, <1>16, <1>17, <1>18, <1>19, <1>20, <1>21, <1>22, <1>23, <1>24, <1>25, <1>26,
   <1>27, <1>28 DEF Next, Requests, People, Time, Worker

LEMMA InvariantHolds == IInv /\ [Next]_vars => IInv'
<1> SUFFICES ASSUME IInv, [Next]_vars PROVE IInv' OBVIOUS
<1>1. TypeOK'
  BY PeopleTyped, LinksTyped, WorkTyped DEF TypeOK, TypeOfPeople, TypeOfLinks, TypeOfWork
<1>2. Held' /\ Named' /\ Numbered' /\ Unmailed' /\ Linked'
  BY WorkTyped, NamedHolds, NumberedHolds, UnmailedHolds, LinkedHolds
<1>3. Cooling' /\ CooldownHolds' /\ Blank' /\ HistoryTellsConsent'
  BY CoolingHolds, HistoryHolds
<1>4. Agreeing' /\ Overtaking' /\ Lately' /\ WithdrawalLetsOneMailOut'
  BY AgreeingHolds, OvertakingHolds, LatelyHolds
<1> QED BY <1>1, <1>2, <1>3, <1>4 DEF IInv

LEMMA Inductive == Spec => []IInv
BY InitiallyHolds, InvariantHolds, PTL DEF Spec

-----------------------------------------------------------------------------
(* Theorems *)

\* Every variable keeps its type, whatever requests, people, deployments, crashes
\* and the worker do (subscribe, confirm, unsubscribe, runJob).
THEOREM TypeCorrect == Spec => []TypeOK
<1>1. IInv => TypeOK
  BY DEF IInv
<1> QED BY <1>1, Inductive, PTL

\* Who is eligible followed a link requested under the terms now in force, also when
\* a deployment falls between the statements of a request (consent.go): terms of the
\* same version in any case, and these very terms but for a request that a change of
\* purpose alone overtook, which the version the row keeps cannot tell (releases.go).
THEOREM MailMeansAgreement == Spec => []EligibleMeansAgreed
<1>1. IInv => EligibleMeansAgreed
  BY DEF IInv, Agreeing, Overtaking, Alike, EligibleMeansAgreed, Eligible
<1> QED BY <1>1, Inductive, PTL

\* A confirmation link confirms at most once (Confirm's UPDATE ... used_at IS NULL).
THEOREM LinksAreSingleUse == Spec => []LinkWorksOnce
<1>1. IInv => LinkWorksOnce
  BY DEF IInv, Linked, LinkWorksOnce
<1> QED BY <1>1, Inductive, PTL

\* One request brings at most one mail, and a contact has one good link, through
\* lapsed leases, retries and restarts (runJob, expireLeases, subscribe).
THEOREM RequestsMailOnce == Spec => []OneMailPerRequest
<1>1. IInv => OneMailPerRequest
  BY DEF IInv, Unmailed, Linked, OneMailPerRequest, IsLive, Unused
<1> QED BY <1>1, Inductive, PTL

\* Any number of requests at once bring one link in ten minutes (subscribe).
THEOREM CooldownIsKept == Spec => []CooldownHolds
<1>1. IInv => CooldownHolds
  BY DEF IInv
<1> QED BY <1>1, Inductive, PTL

\* After a withdrawal only the mail that had passed its check leaves (runJob).
THEOREM WithdrawalStops == Spec => []WithdrawalLetsOneMailOut
<1>1. IInv => WithdrawalLetsOneMailOut
  BY DEF IInv
<1> QED BY <1>1, Inductive, PTL

\* The last line of consent_history is the consent in force, imports apart.
THEOREM HistoryIsComplete == Spec => []HistoryTellsConsent
<1>1. IInv => HistoryTellsConsent
  BY DEF IInv
<1> QED BY <1>1, Inductive, PTL

\* Only following a link makes a consent confirmed, and under that link's version: no
\* deployment, import or request does (Confirm).
THEOREM ConfirmationNeedsClick == Spec => OnlyClicksConfirm
<1> DEFINE Clicked == \A c \in Contacts :
       IsConfirmed(c)' /\ (~IsConfirmed(c) \/ consent'[c] /= consent[c])
         => \E n \in Tokens : owner[n] = c /\ clicks'[n] > clicks[n] /\ Version[terms[n]] = consent'[c].policy
<1>1. IInv /\ [Next]_vars => [Clicked]_vars
  <2> SUFFICES ASSUME IInv, [Next]_vars PROVE Clicked OBVIOUS
  <2> TypeOK /\ Named /\ Numbered /\ Linked BY DEF IInv
  <2> TypeOfPeople /\ TypeOfLinks /\ TypeOfWork
    BY Forms
  <2>1. ASSUME NEW h \in Handlers, NEW c \in Contacts, Ask(h, c)
        PROVE  Clicked
    BY <2>1 DEF Ask, vars, list, people, tokens, queue, worker, history, IsConfirmed, Stranger,
       TypeOfPeople, TypeOfLinks
  <2>2. ASSUME NEW h \in Handlers, NEW c \in Contacts, BeginImport(h, c)
        PROVE  Clicked
    BY <2>2 DEF BeginImport, vars, list, people, tokens, queue, worker, history, IsConfirmed,
       Stranger, TypeOfPeople, TypeOfLinks
  <2>3. ASSUME NEW h \in Handlers, Import(h)
        PROVE  Clicked
    BY <2>3 DEF Import, NoRowYet, Leave, Idle, vars, list, people, tokens, queue, worker,
       history, IsConfirmed, Stranger, TypeOfPeople, TypeOfLinks
  <2>4. ASSUME NEW h \in Handlers, Limit(h)
        PROVE  Clicked
    BY <2>4 DEF Limit, Advance, Leave, Idle, vars, list, people, tokens, queue, worker,
       history, IsConfirmed, Stranger, TypeOfPeople, TypeOfLinks
  <2>5. ASSUME NEW h \in Handlers, ReadPolicy(h)
        PROVE  Clicked
    BY <2>5 DEF ReadPolicy, Leave, Idle, vars, list, people, tokens, queue, worker, history,
       IsConfirmed, Stranger, TypeOfPeople, TypeOfLinks
  <2>6. ASSUME NEW h \in Handlers, ReadSuppression(h)
        PROVE  Clicked
    BY <2>6 DEF ReadSuppression, Advance, Leave, Idle, vars, list, people, tokens, queue,
       worker, history, IsConfirmed, Stranger, TypeOfPeople, TypeOfLinks
  <2>7. ASSUME NEW h \in Handlers, Commit(h)
        PROVE  Clicked
    BY <2>7, Committed DEF CommitsNothing, CommitsLink, Idle, IsQuiet, vars, list, people,
       tokens, queue, worker, history, IsConfirmed, Stranger, TypeOfPeople, TypeOfLinks
  <2>8. ASSUME NEW n \in Tokens, Confirm(n)
        PROVE  Clicked
    <3> DEFINE c == owner[n]
    <3>1. c \in Contacts /\ SetConsent(Only(c, "confirmed", consent[c].policy))
      BY <2>8, Owned DEF Confirm, IsLive
    <3>2. \A x \in Contacts : x /= c => consent'[x] = consent[x]
      BY <3>1, RowWritten
    <3>3. consent'[c].policy = consent[c].policy /\ Version[terms[n]] = consent[c].policy
      BY <2>8, <3>1, RowWritten DEF Confirm, Linked, Unused, IsLive
    <3>4. clicks'[n] > clicks[n]
      BY <2>8 DEF Confirm, TypeOfLinks
    <3> QED BY <3>2, <3>3, <3>4 DEF IsConfirmed
  <2>9. ASSUME NEW c \in Contacts, DeleteContact(c)
        PROVE  Clicked
    BY <2>9 DEF DeleteContact, Drop, vars, list, people, tokens, queue, worker, history,
       IsConfirmed, Stranger, TypeOfPeople, TypeOfLinks
  <2>10. ASSUME NEW c \in Contacts, Suppress(c)
        PROVE  Clicked
    BY <2>10 DEF Suppress, vars, list, people, tokens, queue, worker, history, IsConfirmed,
       Stranger, TypeOfPeople, TypeOfLinks
  <2>11. ASSUME NEW c \in Contacts, NEW wide \in BOOLEAN, Unsubscribe(c, wide)
        PROVE  Clicked
    BY <2>11, RowWritten DEF Unsubscribe, vars, list, people, tokens, queue, worker, history,
       IsConfirmed, Stranger, TypeOfPeople, TypeOfLinks
  <2>12. ASSUME NEW version \in Policies, NEW retire \in BOOLEAN, Deploy(version, retire)
        PROVE  Clicked
    BY <2>12, RowsMoved DEF Deploy, Drop, Unused, vars, list, people, tokens, queue, worker,
       history, IsConfirmed, Stranger, TypeOfPeople, TypeOfLinks
  <2>13. CASE Retain
    BY <2>13 DEF Retain, Drop, vars, list, people, tokens, queue, worker, history, IsConfirmed,
       Stranger, TypeOfPeople, TypeOfLinks
  <2>14. CASE PauseProject
    BY <2>14 DEF PauseProject, vars, list, people, tokens, queue, worker, history, IsConfirmed,
       Stranger, TypeOfPeople, TypeOfLinks
  <2>15. ASSUME NEW stop \in {"project", "installation"}, Resume(stop)
        PROVE  Clicked
    BY <2>15 DEF Resume, vars, list, people, tokens, queue, worker, history, IsConfirmed,
       Stranger, TypeOfPeople, TypeOfLinks
  <2>16. ASSUME NEW c \in Contacts, Cool(c)
        PROVE  Clicked
    BY <2>16 DEF Cool, vars, list, people, tokens, queue, worker, history, IsConfirmed,
       Stranger, TypeOfPeople, TypeOfLinks
  <2>17. ASSUME NEW n \in Tokens, Expire(n)
        PROVE  Clicked
    BY <2>17 DEF Expire, IsLive, vars, list, people, tokens, queue, worker, history,
       IsConfirmed, Stranger, TypeOfPeople, TypeOfLinks
  <2>18. ASSUME NEW n \in Tokens, Elapse(n)
        PROVE  Clicked
    BY <2>18 DEF Elapse, vars, list, people, tokens, queue, worker, history, IsConfirmed,
       Stranger, TypeOfPeople, TypeOfLinks
  <2>19. CASE StartTick
    BY <2>19 DEF StartTick, ExpireLeases, Goto, vars, list, people, tokens, queue, worker,
       history, IsConfirmed, Stranger, TypeOfPeople, TypeOfLinks
  <2>20. ASSUME NEW n \in Tokens, Claim(n)
        PROVE  Clicked
    BY <2>20 DEF Claim, Goto, vars, list, people, tokens, queue, worker, history, IsConfirmed,
       Stranger, TypeOfPeople, TypeOfLinks
  <2>21. CASE EndTick
    BY <2>21 DEF EndTick, Goto, vars, list, people, tokens, queue, worker, history,
       IsConfirmed, Stranger, TypeOfPeople, TypeOfLinks
  <2>22. CASE CheckLink
    BY <2>22, Settled DEF CheckLink, MayMail, Goto, vars, list, people, tokens, queue, worker,
       history, IsConfirmed, Stranger, TypeOfPeople, TypeOfLinks
  <2>23. CASE Prepare
    BY <2>23, Settled DEF Prepare, Goto, vars, list, people, tokens, queue, worker, history,
       IsConfirmed, Stranger, TypeOfPeople, TypeOfLinks
  <2>24. ASSUME NEW o \in SendOutcomes, Send(o)
        PROVE  Clicked
    BY <2>24, Outcomes DEF Send, Goto, vars, list, people, tokens, queue, worker, history,
       IsConfirmed, Stranger, TypeOfPeople, TypeOfLinks
  <2>25. CASE Finish
    BY <2>25, Settled, Outcomes DEF Finish, Goto, vars, list, people, tokens, queue, worker,
       history, IsConfirmed, Stranger, TypeOfPeople, TypeOfLinks
  <2>26. ASSUME NEW recovery \in BOOLEAN, Crash(recovery)
        PROVE  Clicked
    BY <2>26 DEF Crash, Goto, Idle, vars, list, people, tokens, queue, worker, history,
       IsConfirmed, Stranger, TypeOfPeople, TypeOfLinks
  <2>27. CASE UNCHANGED vars
    BY <2>27 DEF vars, list, people, tokens, queue, worker, history, IsConfirmed, Stranger,
       TypeOfPeople, TypeOfLinks
  <2>28. CASE FailTick
    BY <2>28 DEF FailTick, Goto, vars, list, people, tokens, queue, worker, history,
       IsConfirmed, Stranger, TypeOfPeople, TypeOfLinks
  <2> QED BY <2>1, <2>2, <2>3, <2>4, <2>5, <2>6, <2>7, <2>8, <2>9, <2>10, <2>11, <2>12, <2>13,
     <2>14, <2>15, <2>16, <2>17, <2>18, <2>19, <2>20, <2>21, <2>22, <2>23, <2>24, <2>25, <2>26, <2>27, <2>28 DEF Next, Requests, People, Time, Worker
<1> QED BY <1>1, Inductive, PTL DEF Spec, OnlyClicksConfirm

-----------------------------------------------------------------------------
(* The ledger *)

LEMMA LedgerSteps ==
  ASSUME IInv, IInv', [Next]_vars
  PROVE  [Mail!Next]_<<Ledger, copies>>
<1> TypeOK /\ Numbered /\ Held /\ Named /\ Unmailed /\ Unmailed' /\ TypeOK'
  BY DEF IInv
<1> TypeOfPeople /\ TypeOfLinks /\ TypeOfWork /\ job' \in [Tokens -> JobStates]
  BY Forms DEF TypeOK
<1> DEFINE Of(s) == IF s \in {"none", "pending"} THEN "open"
                    ELSE IF s = "dispatching" THEN "attempted" ELSE "closed"
<1>l. /\ Ledger = [n \in Tokens |-> Of(job[n])] /\ Ledger' = [n \in Tokens |-> Of(job'[n])]
  BY DEF Ledger
<1>u. ASSUME UNCHANGED <<job, copies>> PROVE UNCHANGED <<Ledger, copies>>
  BY <1>u DEF Ledger
<1>x. ASSUME NEW n \in Tokens, NEW st, job' = [job EXCEPT ![n] = st]
      PROVE  Ledger' = [Ledger EXCEPT ![n] = Of(st)]
  BY <1>l, <1>x DEF TypeOfWork
<1> HIDE DEF Of
<1>1. ASSUME NEW h \in Handlers, NEW c \in Contacts, Ask(h, c)
      PROVE  [Mail!Next]_<<Ledger, copies>>
  <2>1. UNCHANGED <<job, copies>>
    BY <1>1 DEF Ask, vars, list, people, tokens, queue, worker, history
  <2> QED BY <1>u, <2>1
<1>2. ASSUME NEW h \in Handlers, NEW c \in Contacts, BeginImport(h, c)
      PROVE  [Mail!Next]_<<Ledger, copies>>
  <2>1. UNCHANGED <<job, copies>>
    BY <1>2 DEF BeginImport, vars, list, people, tokens, queue, worker, history
  <2> QED BY <1>u, <2>1
<1>3. ASSUME NEW h \in Handlers, Import(h)
      PROVE  [Mail!Next]_<<Ledger, copies>>
  <2>1. UNCHANGED <<job, copies>>
    BY <1>3 DEF Import, vars, list, people, tokens, queue, worker, history
  <2> QED BY <1>u, <2>1
<1>4. ASSUME NEW h \in Handlers, Limit(h)
      PROVE  [Mail!Next]_<<Ledger, copies>>
  <2>1. UNCHANGED <<job, copies>>
    BY <1>4 DEF Limit, vars, list, people, tokens, queue, worker, history
  <2> QED BY <1>u, <2>1
<1>5. ASSUME NEW h \in Handlers, ReadPolicy(h)
      PROVE  [Mail!Next]_<<Ledger, copies>>
  <2>1. UNCHANGED <<job, copies>>
    BY <1>5 DEF ReadPolicy, vars, list, people, tokens, queue, worker, history
  <2> QED BY <1>u, <2>1
<1>6. ASSUME NEW h \in Handlers, ReadSuppression(h)
      PROVE  [Mail!Next]_<<Ledger, copies>>
  <2>1. UNCHANGED <<job, copies>>
    BY <1>6 DEF ReadSuppression, vars, list, people, tokens, queue, worker, history
  <2> QED BY <1>u, <2>1
<1>7. ASSUME NEW h \in Handlers, Commit(h)
      PROVE  [Mail!Next]_<<Ledger, copies>>
  <2>1. CASE CommitsNothing(h)
    BY <1>7, <1>u, <2>1, Committed DEF CommitsNothing
  <2>2. CASE CommitsLink(h, handler[h].who, issued + 1)
    <3> DEFINE k == issued + 1
    <3>1. k \in Tokens /\ job' = [job EXCEPT ![k] = "pending"] /\ UNCHANGED copies
      BY <1>7, <2>2, Committed DEF CommitsLink
    <3>2. job[k] = "none"
      BY <3>1 DEF Numbered, TypeOfLinks, Tokens
    <3>3. Ledger' = [Ledger EXCEPT ![k] = Of("pending")] /\ Ledger[k] = Of("pending")
      BY <1>l, <1>x, <3>1, <3>2 DEF Of
    <3>4. Ledger' = Ledger
      BY <1>l, <3>3
    <3> QED BY <3>1, <3>4
  <2> QED BY <1>7, <2>1, <2>2, Committed
<1>8. ASSUME NEW n \in Tokens, Confirm(n)
      PROVE  [Mail!Next]_<<Ledger, copies>>
  <2>1. UNCHANGED <<job, copies>>
    BY <1>8 DEF Confirm, vars, list, people, tokens, queue, worker, history
  <2> QED BY <1>u, <2>1
<1>9. ASSUME NEW c \in Contacts, DeleteContact(c)
      PROVE  [Mail!Next]_<<Ledger, copies>>
  <2> DEFINE given == {n \in Tokens : owner[n] = c /\ job[n] = "pending"}
  <2>1. UNCHANGED copies /\ job' = [n \in Tokens |-> IF n \in given THEN "cancelled" ELSE job[n]]
    BY <1>9 DEF DeleteContact
  <2>2. \A n \in given : Ledger[n] /= "closed"
    BY <1>l DEF Of
  <2>3. Ledger' = [n \in Tokens |-> IF n \in given THEN "closed" ELSE Ledger[n]]
    BY <1>l, <2>1 DEF Of
  <2>4. Mail!Abandon(given) /\ given \in SUBSET Tokens
    BY <2>1, <2>2, <2>3 DEF Mail!Abandon
  <2> QED BY <2>4 DEF Mail!Next
<1>10. ASSUME NEW c \in Contacts, Suppress(c)
      PROVE  [Mail!Next]_<<Ledger, copies>>
  <2>1. UNCHANGED <<job, copies>>
    BY <1>10 DEF Suppress, vars, list, people, tokens, queue, worker, history
  <2> QED BY <1>u, <2>1
<1>11. ASSUME NEW c \in Contacts, NEW wide \in BOOLEAN, Unsubscribe(c, wide)
      PROVE  [Mail!Next]_<<Ledger, copies>>
  <2>1. UNCHANGED <<job, copies>>
    BY <1>11 DEF Unsubscribe, vars, list, people, tokens, queue, worker, history
  <2> QED BY <1>u, <2>1
<1>12. ASSUME NEW version \in Policies, NEW retire \in BOOLEAN, Deploy(version, retire)
      PROVE  [Mail!Next]_<<Ledger, copies>>
  <2>1. UNCHANGED <<job, copies>>
    BY <1>12 DEF Deploy, vars, list, people, tokens, queue, worker, history
  <2> QED BY <1>u, <2>1
<1>13. CASE Retain
  <2>1. UNCHANGED <<job, copies>>
    BY <1>13 DEF Retain, vars, list, people, tokens, queue, worker, history
  <2> QED BY <1>u, <2>1
<1>14. CASE PauseProject
  <2>1. UNCHANGED <<job, copies>>
    BY <1>14 DEF PauseProject, vars, list, people, tokens, queue, worker, history
  <2> QED BY <1>u, <2>1
<1>15. ASSUME NEW stop \in {"project", "installation"}, Resume(stop)
      PROVE  [Mail!Next]_<<Ledger, copies>>
  <2>1. UNCHANGED <<job, copies>>
    BY <1>15 DEF Resume, vars, list, people, tokens, queue, worker, history
  <2> QED BY <1>u, <2>1
<1>16. ASSUME NEW c \in Contacts, Cool(c)
      PROVE  [Mail!Next]_<<Ledger, copies>>
  <2>1. UNCHANGED <<job, copies>>
    BY <1>16 DEF Cool, vars, list, people, tokens, queue, worker, history
  <2> QED BY <1>u, <2>1
<1>17. ASSUME NEW n \in Tokens, Expire(n)
      PROVE  [Mail!Next]_<<Ledger, copies>>
  <2>1. UNCHANGED <<job, copies>>
    BY <1>17 DEF Expire, vars, list, people, tokens, queue, worker, history
  <2> QED BY <1>u, <2>1
<1>18. ASSUME NEW n \in Tokens, Elapse(n)
      PROVE  [Mail!Next]_<<Ledger, copies>>
  <2>1. UNCHANGED <<job, copies>>
    BY <1>18 DEF Elapse, vars, list, people, tokens, queue, worker, history
  <2> QED BY <1>u, <2>1
<1>19. CASE StartTick
  <2>1. CASE UNCHANGED job
    BY <1>19, <1>u, <2>1 DEF StartTick, history
  <2>2. CASE ExpireLeases
    <3> DEFINE given == {n \in Tokens : job[n] = "dispatching" /\ n \in due}
    <3>1. UNCHANGED copies /\ job' = [n \in Tokens |-> IF n \in given THEN "uncertain" ELSE job[n]]
      BY <1>19, <2>2 DEF StartTick, ExpireLeases, history
    <3>2. \A n \in given : Ledger[n] /= "closed"
      BY <1>l DEF Of
    <3>3. Ledger' = [n \in Tokens |-> IF n \in given THEN "closed" ELSE Ledger[n]]
      BY <1>l, <3>1 DEF Of
    <3>4. Mail!Abandon(given) /\ given \in SUBSET Tokens
      BY <3>1, <3>2, <3>3 DEF Mail!Abandon
    <3> QED BY <3>4 DEF Mail!Next
  <2> QED BY <1>19, <2>1, <2>2 DEF StartTick
<1>20. ASSUME NEW n \in Tokens, Claim(n)
      PROVE  [Mail!Next]_<<Ledger, copies>>
  <2>1. job[n] = "pending" /\ job' = [job EXCEPT ![n] = "dispatching"] /\ UNCHANGED copies /\ copies[n] = 0
    BY <1>20 DEF Claim, history, Unmailed
  <2>2. Ledger[n] = "open" /\ Ledger' = [Ledger EXCEPT ![n] = "attempted"]
    BY <1>l, <1>x, <2>1 DEF Of
  <2>3. Mail!Attempt(n)
    BY <2>1, <2>2 DEF Mail!Attempt
  <2> QED BY <2>3 DEF Mail!Next
<1>21. CASE EndTick
  <2>1. UNCHANGED <<job, copies>>
    BY <1>21 DEF EndTick, vars, list, people, tokens, queue, worker, history
  <2> QED BY <1>u, <2>1
<1>22. CASE CheckLink
  <2>1. CASE GoesOn
    BY <1>22, <1>u, <2>1, WorkerMoves DEF GoesOn
  <2>2. CASE \E st \in JobStates : Leaves(st)
    <3>1. PICK st \in JobStates : Leaves(st)
      BY <2>2
    <3>2. at \in Tokens /\ job[at] = "dispatching" /\ UNCHANGED copies /\ job' = [job EXCEPT ![at] = st]
      BY <1>22, <3>1, WorkerMoves DEF Leaves
    <3>3. Ledger[at] = "attempted" /\ Ledger' = [Ledger EXCEPT ![at] = Of(st)]
      BY <1>l, <1>x, <3>2 DEF Of
    <3>4. CASE st = "pending"
      <4>1. copies[at] = 0
        BY <3>2, <3>4 DEF Unmailed, TypeOfWork
      <4>2. Mail!Reopen(at)
        BY <3>2, <3>3, <3>4, <4>1 DEF Mail!Reopen, Of
      <4> QED BY <3>2, <4>2 DEF Mail!Next
    <3>5. CASE st /= "pending"
      <4>1. Of(st) = "closed"
        BY <3>1, <3>5 DEF Leaves, Of
      <4>2. Mail!Close(at)
        BY <3>2, <3>3, <4>1 DEF Mail!Close
      <4> QED BY <3>2, <4>2 DEF Mail!Next
    <3> QED BY <3>4, <3>5
  <2> QED BY <1>22, <2>1, <2>2, WorkerMoves
<1>23. CASE Prepare
  <2>1. CASE GoesOn
    BY <1>23, <1>u, <2>1, WorkerMoves DEF GoesOn
  <2>2. CASE \E st \in JobStates : Leaves(st)
    <3>1. PICK st \in JobStates : Leaves(st)
      BY <2>2
    <3>2. at \in Tokens /\ job[at] = "dispatching" /\ UNCHANGED copies /\ job' = [job EXCEPT ![at] = st]
      BY <1>23, <3>1, WorkerMoves DEF Leaves
    <3>3. Ledger[at] = "attempted" /\ Ledger' = [Ledger EXCEPT ![at] = Of(st)]
      BY <1>l, <1>x, <3>2 DEF Of
    <3>4. CASE st = "pending"
      <4>1. copies[at] = 0
        BY <3>2, <3>4 DEF Unmailed, TypeOfWork
      <4>2. Mail!Reopen(at)
        BY <3>2, <3>3, <3>4, <4>1 DEF Mail!Reopen, Of
      <4> QED BY <3>2, <4>2 DEF Mail!Next
    <3>5. CASE st /= "pending"
      <4>1. Of(st) = "closed"
        BY <3>1, <3>5 DEF Leaves, Of
      <4>2. Mail!Close(at)
        BY <3>2, <3>3, <4>1 DEF Mail!Close
      <4> QED BY <3>2, <4>2 DEF Mail!Next
    <3> QED BY <3>4, <3>5
  <2> QED BY <1>23, <2>1, <2>2, WorkerMoves
<1>24. ASSUME NEW o \in SendOutcomes, Send(o)
      PROVE  [Mail!Next]_<<Ledger, copies>>
  <2>1. at \in Tokens /\ job[at] = "dispatching" /\ copies[at] = 0 /\ UNCHANGED job
    BY <1>24 DEF Send, Held, Holding, Unmailed, queue
  <2>2. copies' = [copies EXCEPT ![at] = copies[at] + o.copy] /\ o.copy \in {0, 1}
    BY <1>24, Outcomes DEF Send
  <2>3. Ledger[at] /= "open" /\ UNCHANGED Ledger
    BY <1>l, <2>1 DEF Of
  <2>4. CASE o.copy = 0
    <3>1. copies' = copies
      BY <2>1, <2>2, <2>4 DEF TypeOfWork
    <3> QED BY <2>3, <3>1
  <2>5. CASE o.copy = 1
    <3>1. copies' = [copies EXCEPT ![at] = 1]
      BY <2>1, <2>2, <2>5 DEF TypeOfWork
    <3>2. Mail!Take(at)
      BY <2>1, <2>3, <3>1 DEF Mail!Take
    <3> QED BY <2>1, <3>2 DEF Mail!Next
  <2> QED BY <2>2, <2>4, <2>5
<1>25. CASE Finish
  <2>1. CASE GoesOn
    BY <1>25, <1>u, <2>1, WorkerMoves DEF GoesOn
  <2>2. CASE \E st \in JobStates : Leaves(st)
    <3>1. PICK st \in JobStates : Leaves(st)
      BY <2>2
    <3>2. at \in Tokens /\ job[at] = "dispatching" /\ UNCHANGED copies /\ job' = [job EXCEPT ![at] = st]
      BY <1>25, <3>1, WorkerMoves DEF Leaves
    <3>3. Ledger[at] = "attempted" /\ Ledger' = [Ledger EXCEPT ![at] = Of(st)]
      BY <1>l, <1>x, <3>2 DEF Of
    <3>4. CASE st = "pending"
      <4>1. copies[at] = 0
        BY <3>2, <3>4 DEF Unmailed, TypeOfWork
      <4>2. Mail!Reopen(at)
        BY <3>2, <3>3, <3>4, <4>1 DEF Mail!Reopen, Of
      <4> QED BY <3>2, <4>2 DEF Mail!Next
    <3>5. CASE st /= "pending"
      <4>1. Of(st) = "closed"
        BY <3>1, <3>5 DEF Leaves, Of
      <4>2. Mail!Close(at)
        BY <3>2, <3>3, <4>1 DEF Mail!Close
      <4> QED BY <3>2, <4>2 DEF Mail!Next
    <3> QED BY <3>4, <3>5
  <2> QED BY <1>25, <2>1, <2>2, WorkerMoves
<1>26. ASSUME NEW recovery \in BOOLEAN, Crash(recovery)
      PROVE  [Mail!Next]_<<Ledger, copies>>
  <2>1. UNCHANGED <<job, copies>>
    BY <1>26 DEF Crash, vars, list, people, tokens, queue, worker, history
  <2> QED BY <1>u, <2>1
<1>27. CASE UNCHANGED vars
  <2>1. UNCHANGED <<job, copies>>
    BY <1>27 DEF vars, list, people, tokens, queue, worker, history
  <2> QED BY <1>u, <2>1
<1>28. CASE FailTick
  <2>1. UNCHANGED <<job, copies>>
    BY <1>28 DEF FailTick, vars, list, people, tokens, queue, worker, history
  <2> QED BY <1>u, <2>1
<1> QED BY <1>1, <1>2, <1>3, <1>4, <1>5, <1>6, <1>7, <1>8, <1>9, <1>10, <1>11, <1>12, <1>13,
   <1>14, <1>15, <1>16, <1>17, <1>18, <1>19, <1>20, <1>21, <1>22, <1>23, <1>24, <1>25, <1>26,
   <1>27, <1>28 DEF Next, Requests, People, Time, Worker

\* The confirmation mails implement the at-most-once ledger: a link's mail is
\* attempted again only if no copy of it can be out (runJob, expireLeases).
THEOREM Refinement == Spec => ImplementsMailLedger
<1>1. Init => Mail!Init
  BY DEF Init, Mail!Init, Ledger
<1>2. IInv /\ IInv' /\ [Next]_vars => [Mail!Next]_<<Ledger, copies>>
  BY LedgerSteps
<1> QED BY <1>1, <1>2, Inductive, PTL DEF Spec, ImplementsMailLedger, Mail!Spec

-----------------------------------------------------------------------------
(* The contract about who may be mailed *)

\* What a step does to the rows, the suppressions and the list the contract is about.
LEMMA CircleMoves ==
  ASSUME IInv, [Next]_vars
  PROVE  \/ UNCHANGED <<policy, retired, suppressed>>
            /\ \A c \in Contacts : IsConfirmed(c) \/ IsConfirmed(c)' => consent'[c] = consent[c]
         \/ \E n \in Tokens : Confirm(n)
         \/ \E c \in Contacts :
              DeleteContact(c) \/ Suppress(c) \/ \E wide \in BOOLEAN : Unsubscribe(c, wide)
         \/ \E version \in Policies, retire \in BOOLEAN : Deploy(version, retire)
<1> DEFINE Still == /\ UNCHANGED <<policy, retired, suppressed>>
                    /\ \A c \in Contacts : IsConfirmed(c) \/ IsConfirmed(c)' => consent'[c] = consent[c]
<1> USE DEF list, people, IsConfirmed
<1>1. ASSUME NEW h \in Handlers, Import(h) PROVE Still
  <2>1. handler[h].who \in Contacts
    BY <1>1 DEF IInv, Named, Import
  <2> QED BY <1>1, <2>1 DEF Import, NoRowYet, IInv, TypeOK
<1>2. ASSUME NEW h \in Handlers, Commit(h) PROVE Still
  <2>1. UNCHANGED <<policy, retired>>
    BY <1>2 DEF Commit
  <2>2. CommitsNothing(h) \/ CommitsLink(h, handler[h].who, issued + 1)
    BY <1>2, Committed DEF IInv
  <2> QED BY <2>1, <2>2 DEF CommitsNothing, CommitsLink, IsQuiet
<1>3. CASE Requests
  <2>1. ASSUME NEW h \in Handlers, NEW c \in Contacts, Ask(h, c) \/ BeginImport(h, c) PROVE Still
    BY <2>1 DEF Ask, BeginImport
  <2>2. ASSUME NEW h \in Handlers, Limit(h) \/ ReadPolicy(h) \/ ReadSuppression(h) PROVE Still
    BY <2>2 DEF Limit, ReadPolicy, ReadSuppression
  <2> QED BY <1>1, <1>2, <1>3, <2>1, <2>2 DEF Requests
<1>4. CASE Retain \/ PauseProject \/ \E stop \in {"project", "installation"} : Resume(stop)
  BY <1>4 DEF Retain, PauseProject, Resume
<1>5. CASE Time
  BY <1>5 DEF Time, Cool, Expire, Elapse
<1>6. CASE Worker
  BY <1>6 DEF Worker, StartTick, Claim, EndTick, CheckLink, Prepare, Send, Finish,
     FailTick
<1>7. CASE UNCHANGED vars \/ \E recovery \in BOOLEAN : Crash(recovery)
  BY <1>7 DEF vars, Crash
<1> QED BY <1>3, <1>4, <1>5, <1>6, <1>7 DEF Next, People

\* One person's row, and perhaps suppression, changed: the contract has a step for it.
LEMMA OnePersonMoves ==
  ASSUME suppressed \subseteq Contacts, NEW c \in Contacts,
         UNCHANGED <<policy, retired>>,
         \A x \in Contacts : x /= c => consent'[x] = consent[x],
         suppressed' = suppressed \/ suppressed' = suppressed \cup {c}
  PROVE  [Circle!Next]_<<Willing, suppressed, retired>>
<1> USE DEF Circle!Next, Circle!Join, Circle!Leave, Circle!Bar
<1>1. \A x \in Contacts \ {c} : x \in Willing' <=> x \in Willing
  BY DEF Willing, IsConfirmed
<1>2. Willing \subseteq Contacts \ suppressed /\ Willing' \subseteq Contacts \ suppressed'
  BY DEF Willing
<1>3. CASE suppressed' = suppressed \cup {c} /\ c \notin suppressed
  <2>1. Willing' = Willing \ {c}
    BY <1>1, <1>2, <1>3
  <2> QED BY <1>3, <2>1
<1>4. CASE suppressed' = suppressed
  <2>1. CASE c \in Willing <=> c \in Willing'
    <3>1. Willing' = Willing
      BY <1>1, <1>2, <2>1
    <3> QED BY <1>4, <3>1
  <2>2. CASE c \in Willing /\ c \notin Willing'
    <3>1. Willing' = Willing \ {c}
      BY <1>1, <1>2, <2>2
    <3> QED BY <1>4, <2>2, <3>1
  <2>3. CASE c \notin Willing /\ c \in Willing'
    <3>1. Willing' = Willing \cup {c} /\ c \notin suppressed
      BY <1>1, <1>2, <1>4, <2>3
    <3> QED BY <1>4, <2>3, <3>1
  <2> QED BY <2>1, <2>2, <2>3
<1> QED BY <1>3, <1>4

\* Double opt-in keeps the contract that the senders meet: through every interleaving
\* of requests, links, withdrawals, imports and deployments people come in one by one,
\* the suppressed stay out, and a deployment lets nobody in (Deploy, Confirm).
THEOREM AudienceRefinement == Spec => ImplementsAudience
<1>1. Init => Circle!Init
  BY DEF Init, Circle!Init, Willing
<1>2. ASSUME IInv, [Next]_vars PROVE [Circle!Next]_<<Willing, suppressed, retired>>
  <2> TypeOK /\ Numbered /\ TypeOfPeople
    BY <1>2, Forms DEF IInv
  <2> suppressed \subseteq Contacts
    BY DEF TypeOfPeople
  <2>1. CASE /\ UNCHANGED <<policy, retired, suppressed>>
             /\ \A c \in Contacts : IsConfirmed(c) \/ IsConfirmed(c)' => consent'[c] = consent[c]
    <3>1. Willing' = Willing
      BY <2>1 DEF Willing, IsConfirmed
    <3> QED BY <2>1, <3>1
  <2>2. ASSUME NEW n \in Tokens, Confirm(n) PROVE [Circle!Next]_<<Willing, suppressed, retired>>
    <3>1. owner[n] \in Contacts /\ SetConsent(Only(owner[n], "confirmed", consent[owner[n]].policy))
      BY <2>2, Owned DEF Confirm, IsLive
    <3>2. \A x \in Contacts : x /= owner[n] => consent'[x] = consent[x]
      BY <3>1, RowWritten
    <3> QED BY <2>2, <3>1, <3>2, OnePersonMoves DEF Confirm, list
  <2>3. ASSUME NEW c \in Contacts, DeleteContact(c) \/ Suppress(c)
        PROVE  [Circle!Next]_<<Willing, suppressed, retired>>
    <3>1. /\ \A x \in Contacts : x /= c => consent'[x] = consent[x]
          /\ UNCHANGED <<policy, retired>> /\ suppressed' = suppressed \cup {c}
      BY <2>3 DEF DeleteContact, Suppress, list, TypeOfPeople
    <3> QED BY <3>1, OnePersonMoves
  <2>4. ASSUME NEW c \in Contacts, NEW wide \in BOOLEAN, Unsubscribe(c, wide)
        PROVE  [Circle!Next]_<<Willing, suppressed, retired>>
    <3>1. \A x \in Contacts : x /= c => consent'[x] = consent[x]
      BY <2>4, RowWritten DEF Unsubscribe
    <3> QED BY <2>4, <3>1, OnePersonMoves DEF Unsubscribe, list
  <2>5. ASSUME NEW version \in Policies, NEW retire \in BOOLEAN, Deploy(version, retire)
        PROVE  [Circle!Next]_<<Willing, suppressed, retired>>
    <3> USE DEF Circle!Next, Circle!Deploy
    <3>1. retired' = retire /\ suppressed' = suppressed /\ policy' = version
      BY <2>5 DEF Deploy
    <3>2. CASE version = policy
      <4>1. Willing' = Willing
        BY <2>5, <3>1, <3>2 DEF Deploy, Willing, IsConfirmed
      <4> QED BY <3>1, <4>1
    <3>3. CASE version /= policy
      <4>1. \A x \in Contacts : consent'[x].state /= "confirmed"
        BY <2>5, <3>3, RowsMoved DEF Deploy, IsConfirmed
      <4>2. Willing' = {}
        BY <4>1 DEF Willing, IsConfirmed
      <4> QED BY <3>1, <4>2
    <3> QED BY <3>2, <3>3
  <2> QED BY <1>2, <2>1, <2>2, <2>3, <2>4, <2>5, CircleMoves
<1> QED BY <1>1, <1>2, Inductive, PTL DEF Spec, ImplementsAudience, Circle!Spec, Circle!circle
=============================================================================
