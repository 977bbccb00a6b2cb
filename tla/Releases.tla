------------------------------ MODULE Releases ------------------------------
(***************************************************************************)
(* Deploying and rolling back releases of one project: the statements of   *)
(* plan, deploy and rollback of several releasers interleave, with people  *)
(* who agree to a list's terms or withdraw in between.  A manifest gives   *)
(* each list its terms, a policy version with a purpose, and 0 where the   *)
(* list is left out; a consent keeps the version alone.  A release is      *)
(* found by its manifest's digest, so it is the manifest here.             *)
(***************************************************************************)
EXTENDS Naturals

CONSTANTS
  Releasers,     \* requests in progress at once
  Lists,
  Policies,      \* terms of a list, a set of positive numbers
  Version,       \* their policy version
  Manifests,     \* a subset of [Lists -> Policies \cup {0}]
  NoRelease,     \* no active release yet
  MaxRequests,   \* bound: deployments and rollbacks begun
  MaxTrouble     \* bound: failing statements and crashes

ASSUME ConstantsOK ==
  /\ Policies \subseteq Nat \ {0} /\ Version \in [Policies -> Nat \ {0}]
  /\ Manifests \subseteq [Lists -> Policies \cup {0}]
  /\ NoRelease \notin Manifests
  /\ MaxRequests \in Nat /\ MaxTrouble \in Nat

VARIABLES
  active,    \* projects.active_release_id
  status,    \* releases.status, "none" before the row exists
  live,      \* lists: policy_version and purpose, 0 before the row exists, and retired
  consent,   \* one person's consent per list: state and policy_version
  releaser,  \* step and input of each request
  agreed,    \* history: the terms last agreed to, per list
  deployed,  \* history: the manifest last deployed
  torn,      \* history: a status rewrite was lost, or overtaken by another one
  begun, trouble

vars == <<active, status, live, consent, releaser, agreed, deployed, torn, begun, trouble>>

Steps == {"idle", "changes", "digest", "objects", "commit", "status"}
Idle == [step |-> "idle", manifest |-> NoRelease, expected |-> NoRelease,
         current |-> NoRelease, allow |-> FALSE, turns |-> 0]
Records ==
  [step : Steps, manifest : Manifests \cup {NoRelease}, expected : Manifests \cup {NoRelease},
   current : Manifests \cup {NoRelease}, allow : BOOLEAN, turns : 0..2]
Versions == {Version[p] : p \in Policies}
Known == {m \in Manifests : status[m] /= "none"}

TypeOK ==
  /\ active \in Manifests \cup {NoRelease}
  /\ status \in [Manifests -> {"none", "active", "inactive"}]
  /\ live \in [Lists -> [policy : Policies \cup {0}, retired : BOOLEAN]]
  /\ consent \in [Lists -> [state : {"none", "pending", "confirmed", "unsubscribed"},
                            policy : Versions \cup {0}]]
  /\ releaser \in [Releasers -> Records]
  /\ agreed \in [Lists -> Policies \cup {0}]
  /\ deployed \in Manifests \cup {NoRelease} /\ torn \in BOOLEAN
  /\ begun \in 0..MaxRequests /\ trouble \in 0..MaxTrouble

Init ==
  /\ active = NoRelease /\ status = [m \in Manifests |-> "none"]
  /\ live = [l \in Lists |-> [policy |-> 0, retired |-> FALSE]]
  /\ consent = [l \in Lists |-> [state |-> "none", policy |-> 0]]
  /\ releaser = [r \in Releasers |-> Idle]
  /\ agreed = [l \in Lists |-> 0] /\ deployed = NoRelease /\ torn = FALSE
  /\ begun = 0 /\ trouble = MaxTrouble

-----------------------------------------------------------------------------
(* Helpers *)

Begin == begun < MaxRequests /\ begun' = begun + 1
Trouble == trouble > 0 /\ trouble' = trouble - 1
Goto(r, step) == releaser' = [releaser EXCEPT ![r].step = step]
Answer(r) == releaser' = [releaser EXCEPT ![r] = Idle]

IsLive(l) == live[l].policy > 0 /\ ~live[l].retired

\* releaseChanges: a live list is left out, or its version or purpose changes.
Destructive(m) == \E l \in Lists : IsLive(l) /\ m[l] /= live[l].policy

\* Inside the transaction retired lists count as well.
Reconsents(m) == {l \in Lists : live[l].policy > 0 /\ m[l] > 0 /\ m[l] /= live[l].policy}

\* Every list is retired, and those of the manifest are written anew.
Synchronised(m) ==
  [l \in Lists |-> IF m[l] > 0 THEN [policy |-> m[l], retired |-> FALSE]
                   ELSE IF live[l].policy > 0 THEN [live[l] EXCEPT !.retired = TRUE] ELSE live[l]]

\* A changed version or purpose asks the confirmed for their consent again.
MovedToPolicy(m) ==
  [l \in Lists |-> IF l \in Reconsents(m) /\ consent[l].state = "confirmed"
                   THEN [consent[l] EXCEPT !.policy = Version[m[l]]] ELSE consent[l]]
Revoked(m) ==
  [l \in Lists |-> IF l \in Reconsents(m) /\ consent[l].state = "confirmed"
                   THEN [state |-> "pending", policy |-> Version[m[l]]] ELSE consent[l]]

Marked(m) == [status EXCEPT ![m] = "active"]
StatusOf(m) ==
  [x \in Manifests |-> IF x = m THEN "active"
                       ELSE IF status[x] = "none" THEN "none" ELSE "inactive"]

\* Another rewrite of the status is still to come: this one may be overtaken.
StatusPending(r) == \E s \in Releasers \ {r} : releaser[s].step = "status"

\* turns, history: moves of the pointer since a releaser read it, up to two; a move
\* onto itself, and a read of the lists that failed, count for two.
Turned(turns, m) == IF m = active \/ turns > 0 THEN 2 ELSE 1
SeenBy(s, m) ==
  IF releaser[s].step \in {"changes", "digest", "objects", "commit"}
  THEN [releaser[s] EXCEPT !.turns = Turned(@, m)] ELSE releaser[s]

\* r moves the pointer to m and goes on as own.
Moved(r, m, own) ==
  /\ active' = m
  /\ releaser' = [s \in Releasers |-> IF s = r THEN own ELSE SeenBy(s, m)]

\* The precondition inside the transaction, and that of the rollback UPDATE.
IsCurrentRead(r) == releaser[r].current = releaser[r].expected
IsCurrent(r) == active = releaser[r].expected
PassDigest(r) == IF IsCurrentRead(r) THEN Goto(r, "objects") ELSE Answer(r)

-----------------------------------------------------------------------------
(* Operations *)

\* plan and deploy, up to the read of the active release.
Start(r, m, expected, allow) ==
  /\ releaser[r] = Idle /\ Begin
  /\ releaser' = [releaser EXCEPT ![r] =
       [step |-> "changes", manifest |-> m, expected |-> expected, current |-> active,
        allow |-> allow, turns |-> 0]]
  /\ UNCHANGED <<active, status, live, consent, agreed, deployed, torn, trouble>>

\* releaseChanges reads the live lists; the error of its query is dropped, and
\* then nothing is destructive.
Changes(r) ==
  /\ releaser[r].step = "changes"
  /\ \/ /\ Destructive(releaser[r].manifest) /\ ~releaser[r].allow
        /\ Answer(r) /\ UNCHANGED trouble
     \/ /\ Destructive(releaser[r].manifest) => releaser[r].allow
        /\ Goto(r, "digest") /\ UNCHANGED trouble
     \/ /\ Trouble
        /\ releaser' = [releaser EXCEPT ![r].step = "digest", ![r].turns = 2]
  /\ UNCHANGED <<active, status, live, consent, agreed, deployed, torn, begun>>

\* The digest already active is reported unchanged, whatever was expected; a failed
\* read counts as another digest.
CheckDigest(r) ==
  /\ releaser[r].step = "digest"
  /\ \/ active = releaser[r].manifest /\ Answer(r) /\ UNCHANGED trouble
     \/ active /= releaser[r].manifest /\ PassDigest(r) /\ UNCHANGED trouble
     \/ active = releaser[r].manifest /\ PassDigest(r) /\ Trouble
  /\ UNCHANGED <<active, status, live, consent, agreed, deployed, torn, begun>>

\* References, artifacts and the upload of the manifest; any of them may refuse.
CheckObjects(r) ==
  /\ releaser[r].step = "objects"
  /\ Goto(r, "commit") \/ Answer(r)
  /\ UNCHANGED <<active, status, live, consent, agreed, deployed, torn, begun, trouble>>

\* The transaction.
Commit(r) ==
  LET m == releaser[r].manifest IN
  /\ releaser[r].step = "commit"
  /\ IF IsCurrent(r) /\ (Reconsents(m) /= {} => releaser[r].allow)
     THEN /\ Moved(r, m, Idle)
          /\ status' = StatusOf(m)
          /\ live' = Synchronised(m) /\ consent' = Revoked(m)
          /\ deployed' = m /\ torn' = StatusPending(r)
     ELSE Answer(r) /\ UNCHANGED <<active, status, live, consent, deployed, torn>>
  /\ UNCHANGED <<agreed, begun, trouble>>

\* The first statement of rollback, a compare-and-set of the pointer.
Rollback(r, m, expected) ==
  /\ releaser[r] = Idle /\ Begin
  /\ m \in Known /\ active = expected
  /\ Moved(r, m, [Idle EXCEPT !.step = "status", !.manifest = m])
  /\ torn' = (torn \/ StatusPending(r))
  /\ UNCHANGED <<status, live, consent, agreed, deployed, trouble>>

\* Its second statement, whose error is dropped.
RewriteStatus(r) ==
  /\ releaser[r].step = "status"
  /\ Answer(r)
  /\ \/ status' = StatusOf(releaser[r].manifest) /\ UNCHANGED <<torn, trouble>>
     \/ Trouble /\ torn' = TRUE /\ UNCHANGED status
  /\ UNCHANGED <<active, live, consent, agreed, deployed, begun>>

\* The process dies, or a client's context ends.
Abort(r) ==
  /\ releaser[r] /= Idle /\ Trouble
  /\ Answer(r)
  /\ torn' = (torn \/ releaser[r].step = "status")
  /\ UNCHANGED <<active, status, live, consent, agreed, deployed, begun>>

\* A request for consent, its click, and a withdrawal; module Consent has their steps.
Agree(l) ==
  /\ IsLive(l) /\ consent[l].state /= "confirmed"
  /\ consent' = [consent EXCEPT ![l] = [state |-> "confirmed", policy |-> Version[live[l].policy]]]
  /\ agreed' = [agreed EXCEPT ![l] = live[l].policy]
  /\ UNCHANGED <<active, status, live, releaser, deployed, torn, begun, trouble>>

Withdraw(l) ==
  /\ consent[l].state \in {"pending", "confirmed"}
  /\ consent' = [consent EXCEPT ![l].state = "unsubscribed"]
  /\ agreed' = [agreed EXCEPT ![l] = 0]
  /\ UNCHANGED <<active, status, live, releaser, deployed, torn, begun, trouble>>

Release(r) ==
  \/ \E m \in Manifests, expected \in Known \cup {NoRelease} :
       Rollback(r, m, expected) \/ \E allow \in BOOLEAN : Start(r, m, expected, allow)
  \/ Changes(r) \/ CheckDigest(r) \/ CheckObjects(r) \/ Commit(r) \/ RewriteStatus(r)
  \/ Abort(r)

Next == (\E r \in Releasers : Release(r)) \/ \E l \in Lists : Agree(l) \/ Withdraw(l)

Spec == Init /\ [][Next]_vars

-----------------------------------------------------------------------------
(* Properties *)

\* Through any sequence of deployments and rollbacks, retirements and returns of a
\* list, a consent that passes for one in force was given to the terms in force,
\* purpose included, though its row names the version alone
\* (prompt.md: never restore obsolete consent, reverse unsubscribes).
ConsentInForceWasGiven ==
  \A l \in Lists :
    IsLive(l) /\ consent[l].state = "confirmed" /\ consent[l].policy = Version[live[l].policy]
      => agreed[l] = live[l].policy

\* The lists in force are exactly those of the last deployment: no half of one
\* ever shows, and a rollback moves the pointer only.
ListsAreLastDeployed ==
  deployed /= NoRelease =>
    \A l \in Lists : IsLive(l) = (deployed[l] > 0)
                     /\ (IsLive(l) => live[l].policy = deployed[l])

\* The status column names the active release whenever no rollback is between its
\* two statements, unless one was interrupted or overtaken since the last deployment.
StatusTellsActive ==
  ~torn /\ (\A r \in Releasers : releaser[r].step /= "status") =>
    \A m \in Manifests : status[m] = "active" <=> m = active

\* A live list is taken out of force only by a deployment that was allowed to, or
\* one that could not see it: its read failed, or the pointer moved away and back
\* again, or was set anew to where it stood, since the lists were read.
RemovalWasSeen ==
  [][\A l \in Lists : IsLive(l) /\ ~IsLive(l)' =>
       \E r \in Releasers : releaser[r].step = "commit" /\ (releaser[r].allow \/ releaser[r].turns = 2)]_vars

\* Releases keep to the contract about who may be mailed, for every list: however
\* deployments and rollbacks overlap, none lets the person in.
Circle(l) == INSTANCE Audience WITH
  People <- {l},
  willing <- IF consent[l].state = "confirmed" /\ consent[l].policy = Version[live[l].policy]
             THEN {l} ELSE {},
  barred <- {}, closed <- ~IsLive(l)

ImplementsAudience ==
  /\ \A l \in Lists : Circle(l)!Init
  /\ [][\A l \in Lists : Circle(l)!Next \/ UNCHANGED Circle(l)!circle]_vars
=============================================================================
