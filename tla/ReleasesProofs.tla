--------------------------- MODULE ReleasesProofs ---------------------------
(***************************************************************************)
(* Theorems about module Releases, for any releasers, lists, policies and  *)
(* manifests and any bounds.  Each part of the inductive invariant has a   *)
(* lemma of its own, with one step per action; InvariantHolds joins them.  *)
(***************************************************************************)
EXTENDS Releases, TLAPS

\* A request that has begun has a manifest.
Named == \A r \in Releasers : releaser[r].step /= "idle" => releaser[r].manifest \in Manifests

\* A confirmed consent was given to the terms of its list, in force or retired.
Kept ==
  \A l \in Lists : consent[l].state = "confirmed" =>
    agreed[l] = live[l].policy /\ consent[l].policy = Version[live[l].policy]

\* A consent is one to a list that some deployment made, and no deployment unmakes one.
Listed == \A l \in Lists : consent[l].state /= "none" => live[l].policy > 0

\* While nothing is torn one rewrite at most is to come, and it names the active
\* release.
OneRewrite ==
  ~torn =>
    /\ \A r \in Releasers : releaser[r].step = "status" => releaser[r].manifest = active
    /\ \A r, s \in Releasers :
         releaser[r].step = "status" /\ releaser[s].step = "status" => r = s

\* What a releaser read is still so: the pointer has not moved, or has moved away
\* once, or more happened (turns is 2).
Reading == {"changes", "digest", "objects", "commit"}
Fresh(r) == releaser[r].turns = 0 /\ active = releaser[r].current
Gone(r)  == releaser[r].turns = 1 /\ active /= releaser[r].current
Lost(r)  == releaser[r].turns = 2

\* What it decided about the live lists holds as long as its reading is fresh.
DecidedBy(r) ==
  /\ releaser[r].step \in Reading => Fresh(r) \/ Gone(r) \/ Lost(r)
  /\ releaser[r].step \in {"digest", "objects", "commit"} /\ ~releaser[r].allow /\ Fresh(r)
       => ~Destructive(releaser[r].manifest)
  /\ releaser[r].step \in {"objects", "commit"} => IsCurrentRead(r)
Decided == \A r \in Releasers : DecidedBy(r)

IInv ==
  /\ TypeOK /\ Named /\ Kept /\ ListsAreLastDeployed /\ StatusTellsActive /\ OneRewrite
  /\ Decided /\ Listed

-----------------------------------------------------------------------------
(* Lemmas *)

\* What the records of the model are made of.
LEMMA Forms ==
  ASSUME TypeOK
  PROVE  /\ releaser \in [Releasers -> Records]
         /\ \A r \in Releasers : releaser[r].step \in Steps /\ releaser[r].turns \in 0..2
         /\ \A l \in Lists :
              /\ live[l].policy \in Policies \cup {0} /\ live[l].retired \in BOOLEAN
              /\ live[l] = [policy |-> live[l].policy, retired |-> live[l].retired]
         /\ \A m \in Manifests, l \in Lists : m[l] \in Policies \cup {0}
         /\ Policies \cup {0} \subseteq Nat
<1>1. releaser \in [Releasers -> Records]
  BY DEF TypeOK
<1>2. \A m \in Manifests, l \in Lists : m[l] \in Policies \cup {0}
  BY ConstantsOK
<1>3. Policies \cup {0} \subseteq Nat
  BY ConstantsOK
<1>4. \A r \in Releasers : releaser[r].step \in Steps /\ releaser[r].turns \in 0..2
  BY <1>1 DEF Records
<1> QED BY <1>1, <1>2, <1>3, <1>4 DEF TypeOK

LEMMA InitiallyHolds == Init => IInv
<1> SUFFICES ASSUME Init PROVE IInv OBVIOUS
<1> USE ConstantsOK DEF Init
<1>1. TypeOK
  <2>1. Idle \in Records
    BY DEF Idle, Records, Steps
  <2>2. releaser \in [Releasers -> Records]
    BY <2>1
  <2>3. /\ status \in [Manifests -> {"none", "active", "inactive"}]
        /\ live \in [Lists -> [policy : Policies \cup {0}, retired : BOOLEAN]]
        /\ consent \in [Lists -> [state : {"none", "pending", "confirmed", "unsubscribed"},
                                  policy : Versions \cup {0}]]
        /\ agreed \in [Lists -> Policies \cup {0}]
    OBVIOUS
  <2>4. begun \in 0..MaxRequests /\ trouble \in 0..MaxTrouble
    OBVIOUS
  <2> QED BY <2>2, <2>3, <2>4 DEF TypeOK
<1>2. Named /\ Kept /\ Listed /\ OneRewrite /\ Decided
  BY DEF Named, Kept, Listed, OneRewrite, Decided, DecidedBy, Idle, Reading
<1>3. ListsAreLastDeployed /\ StatusTellsActive
  BY DEF ListsAreLastDeployed, StatusTellsActive
<1> QED BY <1>1, <1>2, <1>3 DEF IInv

\* How a step writes into its own releaser: it goes on, it is answered, or its
\* read failed.
LEMMA GoOn ==
  ASSUME TypeOK, NEW r \in Releasers, NEW st \in Steps, Goto(r, st)
  PROVE  /\ releaser' \in [Releasers -> Records]
         /\ releaser'[r] = [releaser[r] EXCEPT !.step = st]
         /\ releaser'[r].step = st /\ releaser'[r].manifest = releaser[r].manifest
         /\ releaser'[r].expected = releaser[r].expected
         /\ releaser'[r].current = releaser[r].current
         /\ releaser'[r].allow = releaser[r].allow /\ releaser'[r].turns = releaser[r].turns
         /\ \A s \in Releasers \ {r} : releaser'[s] = releaser[s]
<1>1. releaser[r] \in Records
  BY DEF TypeOK
<1>2. [releaser[r] EXCEPT !.step = st] \in Records
  BY <1>1 DEF Records
<1>3. /\ releaser' \in [Releasers -> Records]
      /\ releaser'[r] = [releaser[r] EXCEPT !.step = st]
      /\ \A s \in Releasers \ {r} : releaser'[s] = releaser[s]
  BY <1>2 DEF Goto, TypeOK
<1> QED BY <1>1, <1>3 DEF Records

LEMMA BeAnswered ==
  ASSUME TypeOK, NEW r \in Releasers, Answer(r)
  PROVE  /\ releaser' \in [Releasers -> Records]
         /\ releaser'[r] = Idle /\ releaser'[r].step = "idle"
         /\ \A s \in Releasers \ {r} : releaser'[s] = releaser[s]
<1>1. Idle \in Records /\ Idle.step = "idle"
  BY DEF Idle, Records, Steps
<1> QED BY <1>1 DEF Answer, TypeOK

LEMMA FailToRead ==
  ASSUME TypeOK, NEW r \in Releasers,
         releaser' = [releaser EXCEPT ![r].step = "digest", ![r].turns = 2]
  PROVE  /\ releaser' \in [Releasers -> Records]
         /\ releaser'[r].step = "digest" /\ releaser'[r].turns = 2
         /\ releaser'[r].manifest = releaser[r].manifest
         /\ \A s \in Releasers \ {r} : releaser'[s] = releaser[s]
<1>1. releaser[r] \in Records
  BY DEF TypeOK
<1>2. [releaser[r] EXCEPT !.step = "digest", !.turns = 2] \in Records
  <2>1. [releaser[r] EXCEPT !.step = "digest"] \in Records
    BY <1>1 DEF Records, Steps
  <2>2. \A x \in Records : [x EXCEPT !.turns = 2] \in Records
    BY DEF Records
  <2>3. [releaser[r] EXCEPT !.step = "digest", !.turns = 2]
          = [[releaser[r] EXCEPT !.step = "digest"] EXCEPT !.turns = 2]
    OBVIOUS
  <2> QED BY <2>1, <2>2, <2>3
<1>3. /\ releaser' \in [Releasers -> Records]
      /\ releaser'[r] = [releaser[r] EXCEPT !.step = "digest", !.turns = 2]
      /\ \A s \in Releasers \ {r} : releaser'[s] = releaser[s]
  BY <1>2 DEF TypeOK
<1> QED BY <1>1, <1>3 DEF Records

\* What a move of the pointer does to the releasers.
LEMMA MoveOthers ==
  ASSUME TypeOK, NEW r \in Releasers, NEW m \in Manifests, NEW own, Moved(r, m, own)
  PROVE  /\ own \in Records => releaser' \in [Releasers -> Records]
         /\ releaser'[r] = own
         /\ \A s \in Releasers \ {r} :
              /\ releaser'[s].step = releaser[s].step
              /\ releaser'[s].manifest = releaser[s].manifest
              /\ releaser'[s].expected = releaser[s].expected
              /\ releaser'[s].current = releaser[s].current
              /\ releaser'[s].allow = releaser[s].allow
              /\ releaser[s].step \in Reading => releaser'[s].turns = Turned(releaser[s].turns, m)
<1>1. \A s \in Releasers : releaser'[s] = IF s = r THEN own ELSE SeenBy(s, m)
  BY DEF Moved
<1>2. \A s \in Releasers : releaser[s] \in Records
  BY DEF TypeOK
<1>3. ASSUME NEW s \in Releasers PROVE SeenBy(s, m) \in Records
  <2>1. Turned(releaser[s].turns, m) \in 0..2
    BY DEF Turned
  <2>2. [releaser[s] EXCEPT !.turns = Turned(releaser[s].turns, m)] \in Records
    BY <1>2, <2>1 DEF Records
  <2>3. [releaser[s] EXCEPT !.turns = Turned(@, m)]
          = [releaser[s] EXCEPT !.turns = Turned(releaser[s].turns, m)]
    BY <1>2 DEF Records
  <2> QED BY <1>2, <2>2, <2>3 DEF SeenBy
<1>4. own \in Records => releaser' \in [Releasers -> Records]
  BY <1>1, <1>3 DEF Moved
<1> QED BY <1>1, <1>2, <1>4 DEF SeenBy, Reading, Records

\* Types: every step keeps them, and the manifest of a request that has begun.
LEMMA TypeHolds == IInv /\ [Next]_vars => TypeOK' /\ Named'
<1> SUFFICES ASSUME IInv, [Next]_vars PROVE TypeOK' /\ Named' OBVIOUS
<1> TypeOK /\ Named BY DEF IInv
<1>0. \A r \in Releasers : releaser[r].step \in Steps
  BY Forms
<1>t. Trouble => trouble' \in 0..MaxTrouble
  BY ConstantsOK DEF Trouble, TypeOK
<1>1. ASSUME NEW r \in Releasers, NEW m \in Manifests, NEW expected \in Known \cup {NoRelease},
             NEW allow \in BOOLEAN, Start(r, m, expected, allow)
      PROVE  TypeOK' /\ Named'
  <2> DEFINE own == [step |-> "changes", manifest |-> m, expected |-> expected,
                     current |-> active, allow |-> allow, turns |-> 0]
  <2>1. own \in Records
    BY DEF TypeOK, Known, Records, Steps
  <2>2. releaser' \in [Releasers -> Records]
    BY <1>1, <2>1 DEF Start, TypeOK
  <2>3. Named'
    BY <1>1 DEF Start, Named, TypeOK
  <2>4. begun' \in 0..MaxRequests
    BY <1>1, ConstantsOK DEF Start, Begin, TypeOK
  <2> QED BY <1>1, <2>2, <2>3, <2>4 DEF Start, TypeOK
<1>2. ASSUME NEW r \in Releasers, NEW m \in Manifests, NEW expected \in Known \cup {NoRelease},
             Rollback(r, m, expected)
      PROVE  TypeOK' /\ Named'
  <2> DEFINE own == [Idle EXCEPT !.step = "status", !.manifest = m]
  <2>1. own \in Records /\ own.manifest = m
    <3>1. Idle \in Records
      BY DEF Idle, Records, Steps
    <3>2. [Idle EXCEPT !.step = "status"] \in Records
      BY <3>1 DEF Records, Steps
    <3>3. \A x \in Records : [x EXCEPT !.manifest = m] \in Records
      BY DEF Records
    <3>4. own = [[Idle EXCEPT !.step = "status"] EXCEPT !.manifest = m]
      OBVIOUS
    <3>5. own.manifest = m
      BY DEF Idle
    <3> QED BY <3>2, <3>3, <3>4, <3>5
  <2>2. releaser' \in [Releasers -> Records]
    BY <1>2, <2>1, MoveOthers DEF Rollback
  <2>3. releaser'[r] = own /\ \A s \in Releasers \ {r} :
          releaser'[s].step = releaser[s].step /\ releaser'[s].manifest = releaser[s].manifest
    BY <1>2, MoveOthers DEF Rollback
  <2>4. Named'
    BY <2>1, <2>3 DEF Named
  <2>5. begun' \in 0..MaxRequests
    BY <1>2, ConstantsOK DEF Rollback, Begin, TypeOK
  <2> QED BY <1>2, <2>2, <2>4, <2>5 DEF Rollback, Moved, TypeOK
<1>3. ASSUME NEW r \in Releasers, Changes(r) PROVE TypeOK' /\ Named'
  <2>1. trouble' \in 0..MaxTrouble
    BY <1>3, <1>t DEF Changes, TypeOK
  <2>2. (releaser' \in [Releasers -> Records]) /\ Named'
    <3>1. CASE Answer(r)
      BY <3>1, BeAnswered DEF Named
    <3>2. CASE Goto(r, "digest")
      BY <1>3, <3>2, GoOn DEF Changes, Named, Steps
    <3>3. CASE releaser' = [releaser EXCEPT ![r].step = "digest", ![r].turns = 2]
      BY <1>3, <3>3, FailToRead DEF Changes, Named
    <3> QED BY <1>3, <3>1, <3>2, <3>3 DEF Changes
  <2> QED BY <1>3, <2>1, <2>2 DEF Changes, TypeOK
<1>4. ASSUME NEW r \in Releasers, CheckDigest(r) PROVE TypeOK' /\ Named'
  <2>1. (releaser' \in [Releasers -> Records]) /\ Named'
    <3>1. CASE Answer(r)
      BY <3>1, BeAnswered DEF Named
    <3>2. CASE Goto(r, "objects")
      BY <1>4, <3>2, GoOn DEF CheckDigest, Named, Steps
    <3> QED BY <1>4, <3>1, <3>2 DEF CheckDigest, PassDigest
  <2>2. trouble' \in 0..MaxTrouble
    BY <1>4, <1>t DEF CheckDigest, TypeOK
  <2> QED BY <1>4, <2>1, <2>2 DEF CheckDigest, TypeOK
<1>5. ASSUME NEW r \in Releasers, CheckObjects(r) PROVE TypeOK' /\ Named'
  <2>1. (releaser' \in [Releasers -> Records]) /\ Named'
    <3>1. CASE Answer(r)
      BY <3>1, BeAnswered DEF Named
    <3>2. CASE Goto(r, "commit")
      BY <1>5, <3>2, GoOn DEF CheckObjects, Named, Steps
    <3> QED BY <1>5, <3>1, <3>2 DEF CheckObjects
  <2> QED BY <1>5, <2>1 DEF CheckObjects, TypeOK
<1>6. ASSUME NEW r \in Releasers, Commit(r) PROVE TypeOK' /\ Named'
  <2>0. releaser[r].manifest \in Manifests
    BY <1>6 DEF Commit, Named
  <2> DEFINE m == releaser[r].manifest
  <2>a. CASE Moved(r, m, Idle) /\ status' = StatusOf(m) /\ live' = Synchronised(m)
             /\ consent' = Revoked(m) /\ deployed' = m /\ torn' = StatusPending(r)
    <3>0. Idle \in Records /\ Idle.step = "idle"
      BY DEF Idle, Records, Steps
    <3>1. releaser' \in [Releasers -> Records]
      BY <2>0, <2>a, <3>0, MoveOthers
    <3>2. releaser'[r] = Idle /\ \A s \in Releasers \ {r} :
            releaser'[s].step = releaser[s].step /\ releaser'[s].manifest = releaser[s].manifest
      BY <2>0, <2>a, MoveOthers
    <3>3. Named'
      BY <3>0, <3>2 DEF Named
    <3>4. status' \in [Manifests -> {"none", "active", "inactive"}]
      BY <2>a DEF StatusOf, TypeOK
    <3>5. live' \in [Lists -> [policy : Policies \cup {0}, retired : BOOLEAN]]
      <4>1. ASSUME NEW l \in Lists
            PROVE  /\ [policy |-> m[l], retired |-> FALSE] \in [policy : Policies \cup {0}, retired : BOOLEAN]
                   /\ [live[l] EXCEPT !.retired = TRUE] \in [policy : Policies \cup {0}, retired : BOOLEAN]
        <5>1. m[l] \in Policies \cup {0} /\ live[l] = [policy |-> live[l].policy, retired |-> live[l].retired]
          BY <2>0, Forms
        <5>2. live[l].policy \in Policies \cup {0}
          BY Forms
        <5>3. live[l] \in [policy : Policies \cup {0}, retired : BOOLEAN]
          BY DEF TypeOK
        <5>4. \A x \in [policy : Policies \cup {0}, retired : BOOLEAN] :
                [x EXCEPT !.retired = TRUE] \in [policy : Policies \cup {0}, retired : BOOLEAN]
          OBVIOUS
        <5> QED BY <5>1, <5>3, <5>4
      <4> QED BY <2>a, <4>1 DEF Synchronised, TypeOK
    <3>6. consent' \in [Lists -> [state : {"none", "pending", "confirmed", "unsubscribed"},
                                  policy : Versions \cup {0}]]
      <4>1. \A l \in Reconsents(m) : Version[m[l]] \in Versions
        BY <2>0, Forms DEF Reconsents, Versions
      <4> QED BY <2>0, <2>a, <4>1 DEF Revoked, TypeOK
    <3> QED BY <1>6, <2>0, <2>a, <3>1, <3>3, <3>4, <3>5, <3>6 DEF Commit, Moved, StatusPending,
       TypeOK
  <2>b. CASE Answer(r) /\ UNCHANGED <<active, status, live, consent, deployed, torn>>
    BY <1>6, <2>b, BeAnswered DEF Commit, Named, TypeOK
  <2> QED BY <1>6, <2>a, <2>b DEF Commit
<1>7. ASSUME NEW r \in Releasers, RewriteStatus(r) PROVE TypeOK' /\ Named'
  <2>1. (releaser' \in [Releasers -> Records]) /\ Named'
    BY <1>7, BeAnswered DEF RewriteStatus, Named
  <2>2. trouble' \in 0..MaxTrouble
    BY <1>7, <1>t DEF RewriteStatus, TypeOK
  <2>3. status' \in [Manifests -> {"none", "active", "inactive"}]
    BY <1>7 DEF RewriteStatus, StatusOf, TypeOK
  <2> QED BY <1>7, <2>1, <2>2, <2>3 DEF RewriteStatus, TypeOK
<1>8. ASSUME NEW r \in Releasers, Abort(r) PROVE TypeOK' /\ Named'
  <2>1. (releaser' \in [Releasers -> Records]) /\ Named'
    BY <1>8, BeAnswered DEF Abort, Named
  <2>2. trouble' \in 0..MaxTrouble
    BY <1>8, <1>t DEF Abort, TypeOK
  <2> QED BY <1>8, <2>1, <2>2 DEF Abort, TypeOK
<1>9. ASSUME NEW l \in Lists, Agree(l) PROVE TypeOK' /\ Named'
  <2>1. live[l].policy \in Policies \cup {0} /\ (IsLive(l) => Version[live[l].policy] \in Versions)
    <3>1. live[l].policy \in Policies \cup {0} /\ (IsLive(l) => live[l].policy \in Policies)
      <4>1. live[l].policy \in Policies \cup {0} /\ live[l].policy \in Nat
        BY Forms
      <4>2. IsLive(l) => live[l].policy /= 0
        BY <4>1 DEF IsLive
      <4> QED BY <4>1, <4>2
    <3> QED BY <3>1 DEF Versions
  <2>2. consent' \in [Lists -> [state : {"none", "pending", "confirmed", "unsubscribed"},
                                policy : Versions \cup {0}]]
    <3>1. [state |-> "confirmed", policy |-> Version[live[l].policy]]
            \in [state : {"none", "pending", "confirmed", "unsubscribed"}, policy : Versions \cup {0}]
      BY <1>9, <2>1 DEF Agree
    <3> QED BY <1>9, <3>1 DEF Agree, TypeOK
  <2> QED BY <1>9, <2>1, <2>2 DEF Agree, TypeOK, Named
<1>10. ASSUME NEW l \in Lists, Withdraw(l) PROVE TypeOK' /\ Named'
  <2> QED BY <1>10 DEF Withdraw, TypeOK, Named
<1>11. CASE UNCHANGED vars
  <2> QED BY <1>11 DEF vars, TypeOK, Named
<1> QED BY <1>1, <1>2, <1>3, <1>4, <1>5, <1>6, <1>7, <1>8, <1>9, <1>10, <1>11 DEF Next, Release

\* A deployment that changes a list's terms takes the confirmed back to pending.
LEMMA KeptHolds == IInv /\ [Next]_vars => Kept'
<1> SUFFICES ASSUME IInv, [Next]_vars PROVE Kept' OBVIOUS
<1> TypeOK /\ Named /\ Kept /\ Listed BY DEF IInv
<1>1. ASSUME NEW r \in Releasers, NEW m \in Manifests, NEW expected \in Known \cup {NoRelease},
             NEW allow \in BOOLEAN, Start(r, m, expected, allow)
      PROVE  Kept'
  BY <1>1 DEF Start, Kept, TypeOK
<1>2. ASSUME NEW r \in Releasers, NEW m \in Manifests, NEW expected \in Known \cup {NoRelease},
             Rollback(r, m, expected)
      PROVE  Kept'
  <2> QED BY <1>2 DEF Rollback, Moved, Kept
<1>3. ASSUME NEW r \in Releasers, Changes(r) PROVE Kept'
  BY <1>3 DEF Changes, Goto, Answer, Idle, Kept, TypeOK
<1>4. ASSUME NEW r \in Releasers, CheckDigest(r) PROVE Kept'
  BY <1>4 DEF CheckDigest, Kept
<1>5. ASSUME NEW r \in Releasers, CheckObjects(r) PROVE Kept'
  BY <1>5 DEF CheckObjects, Goto, Answer, Idle, Kept, TypeOK
<1>6. ASSUME NEW r \in Releasers, Commit(r) PROVE Kept'
  <2> DEFINE m == releaser[r].manifest
  <2>1. CASE UNCHANGED <<live, consent>>
    BY <1>6, <2>1 DEF Commit, Kept
  <2>2. CASE live' = Synchronised(m) /\ consent' = Revoked(m)
    <3>1. ASSUME NEW l \in Lists, consent'[l].state = "confirmed"
          PROVE  consent'[l] = consent[l] /\ live'[l].policy = live[l].policy
      <4>1. m[l] \in Nat /\ live[l].policy \in Nat
        BY <1>6, Forms DEF Named, Commit
      <4>2. l \notin Reconsents(m) /\ consent'[l] = consent[l]
        BY <2>2, <3>1 DEF Revoked
      <4> QED BY <2>2, <3>1, <4>1, <4>2 DEF Synchronised, Reconsents, Listed
    <3> QED BY <1>6, <3>1 DEF Commit, Kept
  <2>3. UNCHANGED <<live, consent>> \/ (live' = Synchronised(m) /\ consent' = Revoked(m))
    BY <1>6 DEF Commit
  <2> QED BY <2>1, <2>2, <2>3
<1>7. ASSUME NEW r \in Releasers, RewriteStatus(r) PROVE Kept'
  BY <1>7 DEF RewriteStatus, Answer, Idle, Kept, TypeOK
<1>8. ASSUME NEW r \in Releasers, Abort(r) PROVE Kept'
  BY <1>8 DEF Abort, Answer, Idle, Kept, TypeOK
<1>9. ASSUME NEW l \in Lists, Agree(l) PROVE Kept'
  BY <1>9 DEF Agree, Kept, TypeOK, IsLive
<1>10. ASSUME NEW l \in Lists, Withdraw(l) PROVE Kept'
  BY <1>10 DEF Withdraw, Kept, TypeOK
<1>11. CASE UNCHANGED vars
  BY <1>11 DEF vars, Kept, TypeOK
<1> QED BY <1>1, <1>2, <1>3, <1>4, <1>5, <1>6, <1>7, <1>8, <1>9, <1>10, <1>11 DEF Next, Release

\* Only a deployment touches the lists, and it touches all of them.
LEMMA ListsHold == IInv /\ [Next]_vars => ListsAreLastDeployed'
<1> SUFFICES ASSUME IInv, [Next]_vars PROVE ListsAreLastDeployed' OBVIOUS
<1> TypeOK /\ Named /\ ListsAreLastDeployed BY DEF IInv
<1>1. ASSUME NEW r \in Releasers, NEW m \in Manifests, NEW expected \in Known \cup {NoRelease},
             NEW allow \in BOOLEAN, Start(r, m, expected, allow)
      PROVE  ListsAreLastDeployed'
  BY <1>1 DEF Start, ListsAreLastDeployed, IsLive
<1>2. ASSUME NEW r \in Releasers, NEW m \in Manifests, NEW expected \in Known \cup {NoRelease},
             Rollback(r, m, expected)
      PROVE  ListsAreLastDeployed'
  <2> QED BY <1>2 DEF Rollback, Moved, ListsAreLastDeployed, IsLive
<1>3. ASSUME NEW r \in Releasers, Changes(r) PROVE ListsAreLastDeployed'
  BY <1>3 DEF Changes, Goto, Answer, Idle, ListsAreLastDeployed, IsLive
<1>4. ASSUME NEW r \in Releasers, CheckDigest(r) PROVE ListsAreLastDeployed'
  BY <1>4 DEF CheckDigest, Goto, Answer, Idle, ListsAreLastDeployed, IsLive
<1>5. ASSUME NEW r \in Releasers, CheckObjects(r) PROVE ListsAreLastDeployed'
  BY <1>5 DEF CheckObjects, Goto, Answer, Idle, ListsAreLastDeployed, IsLive
<1>6. ASSUME NEW r \in Releasers, Commit(r) PROVE ListsAreLastDeployed'
  <2> DEFINE m == releaser[r].manifest
  <2>0. m \in Manifests /\ \A l \in Lists : m[l] \in Nat /\ live[l].policy \in Nat
    <3>1. m \in Manifests
      BY <1>6 DEF Commit, Named
    <3> QED BY <3>1, Forms
  <2>a. CASE live' = Synchronised(m) /\ deployed' = m
    <3>1. ASSUME NEW l \in Lists
          PROVE  IsLive(l)' = (m[l] > 0) /\ (IsLive(l)' => live'[l].policy = m[l])
      <4>1. CASE m[l] > 0
        <5>1. live'[l] = [policy |-> m[l], retired |-> FALSE]
          BY <2>a, <4>1 DEF Synchronised
        <5> QED BY <4>1, <5>1 DEF IsLive
      <4>2. CASE ~(m[l] > 0)
        <5>1. live'[l] = IF live[l].policy > 0 THEN [live[l] EXCEPT !.retired = TRUE] ELSE live[l]
          BY <2>a, <4>2 DEF Synchronised
        <5>2. live[l].policy > 0 => live'[l].retired
          BY <5>1 DEF TypeOK
        <5> QED BY <4>2, <5>1, <5>2 DEF IsLive
      <4> QED BY <4>1, <4>2
    <3> QED BY <2>a, <3>1 DEF ListsAreLastDeployed
  <2>b. CASE UNCHANGED <<live, deployed>>
    BY <2>b DEF ListsAreLastDeployed, IsLive
  <2> QED BY <1>6, <2>a, <2>b DEF Commit
<1>7. ASSUME NEW r \in Releasers, RewriteStatus(r) PROVE ListsAreLastDeployed'
  BY <1>7 DEF RewriteStatus, Answer, Idle, ListsAreLastDeployed, IsLive
<1>8. ASSUME NEW r \in Releasers, Abort(r) PROVE ListsAreLastDeployed'
  BY <1>8 DEF Abort, Answer, Idle, ListsAreLastDeployed, IsLive
<1>9. ASSUME NEW l \in Lists, Agree(l) PROVE ListsAreLastDeployed'
  BY <1>9 DEF Agree, ListsAreLastDeployed, IsLive
<1>10. ASSUME NEW l \in Lists, Withdraw(l) PROVE ListsAreLastDeployed'
  BY <1>10 DEF Withdraw, ListsAreLastDeployed, IsLive
<1>11. CASE UNCHANGED vars
  BY <1>11 DEF vars, ListsAreLastDeployed, IsLive
<1> QED BY <1>1, <1>2, <1>3, <1>4, <1>5, <1>6, <1>7, <1>8, <1>9, <1>10, <1>11 DEF Next, Release

\* The status column and the rewrites to come, together.
LEMMA StatusHolds == IInv /\ [Next]_vars => OneRewrite' /\ StatusTellsActive'
<1> SUFFICES ASSUME IInv, [Next]_vars PROVE OneRewrite' /\ StatusTellsActive' OBVIOUS
<1> TypeOK /\ Named /\ OneRewrite /\ StatusTellsActive BY DEF IInv
<1>1. ASSUME NEW r \in Releasers, NEW m \in Manifests, NEW expected \in Known \cup {NoRelease},
             NEW allow \in BOOLEAN, Start(r, m, expected, allow)
      PROVE  OneRewrite' /\ StatusTellsActive'
  <2>1. releaser[r].step /= "status" /\ UNCHANGED <<active, status, torn>>
    BY <1>1 DEF Start, Idle
  <2>2. releaser'[r].step /= "status" /\ \A s \in Releasers \ {r} : releaser'[s] = releaser[s]
    BY <1>1 DEF Start, TypeOK
  <2> QED BY <2>1, <2>2 DEF OneRewrite, StatusTellsActive
<1>2. ASSUME NEW r \in Releasers, NEW m \in Manifests, NEW expected \in Known \cup {NoRelease},
             Rollback(r, m, expected)
      PROVE  OneRewrite' /\ StatusTellsActive'
  <2> DEFINE own == [Idle EXCEPT !.step = "status", !.manifest = m]
  <2>1. releaser'[r] = own /\ \A s \in Releasers \ {r} :
          releaser'[s].step = releaser[s].step /\ releaser'[s].manifest = releaser[s].manifest
    BY <1>2, MoveOthers DEF Rollback
  <2>2. own.step = "status" /\ own.manifest = m /\ active' = m
    BY <1>2 DEF Idle, Rollback, Moved
  <2>3. torn' = (torn \/ \E s \in Releasers \ {r} : releaser[s].step = "status")
    BY <1>2 DEF Rollback, StatusPending
  <2> QED BY <2>1, <2>2, <2>3 DEF OneRewrite, StatusTellsActive
<1>3. ASSUME NEW r \in Releasers, Changes(r) PROVE OneRewrite' /\ StatusTellsActive'
  <2>1. releaser[r].step /= "status" /\ UNCHANGED <<active, status, torn>>
    BY <1>3 DEF Changes, Idle
  <2>2. releaser'[r].step /= "status" /\ \A s \in Releasers \ {r} : releaser'[s] = releaser[s]
    <3>1. CASE Answer(r)
      BY <3>1, BeAnswered DEF Steps
    <3>2. CASE Goto(r, "digest")
      BY <3>2, GoOn DEF Steps
    <3>3. CASE releaser' = [releaser EXCEPT ![r].step = "digest", ![r].turns = 2]
      BY <3>3, FailToRead DEF Steps
    <3> QED BY <1>3, <3>1, <3>2, <3>3 DEF Changes
  <2> QED BY <2>1, <2>2 DEF OneRewrite, StatusTellsActive
<1>4. ASSUME NEW r \in Releasers, CheckDigest(r) PROVE OneRewrite' /\ StatusTellsActive'
  <2>1. releaser[r].step /= "status" /\ UNCHANGED <<active, status, torn>>
    BY <1>4 DEF CheckDigest, Idle
  <2>2. releaser'[r].step /= "status" /\ \A s \in Releasers \ {r} : releaser'[s] = releaser[s]
    <3>1. CASE Answer(r)
      BY <3>1, BeAnswered DEF Steps
    <3>2. CASE Goto(r, "objects")
      BY <3>2, GoOn DEF Steps
    <3> QED BY <1>4, <3>1, <3>2 DEF CheckDigest, PassDigest
  <2> QED BY <2>1, <2>2 DEF OneRewrite, StatusTellsActive
<1>5. ASSUME NEW r \in Releasers, CheckObjects(r) PROVE OneRewrite' /\ StatusTellsActive'
  <2>1. releaser[r].step /= "status" /\ UNCHANGED <<active, status, torn>>
    BY <1>5 DEF CheckObjects, Idle
  <2>2. releaser'[r].step /= "status" /\ \A s \in Releasers \ {r} : releaser'[s] = releaser[s]
    <3>1. CASE Answer(r)
      BY <3>1, BeAnswered DEF Steps
    <3>2. CASE Goto(r, "commit")
      BY <3>2, GoOn DEF Steps
    <3> QED BY <1>5, <3>1, <3>2 DEF CheckObjects
  <2> QED BY <2>1, <2>2 DEF OneRewrite, StatusTellsActive
<1>6. ASSUME NEW r \in Releasers, Commit(r) PROVE OneRewrite' /\ StatusTellsActive'
  <2> DEFINE m == releaser[r].manifest
  <2>0. m \in Manifests
    BY <1>6 DEF Commit, Named
  <2>a. CASE Moved(r, m, Idle) /\ status' = StatusOf(m) /\ torn' = StatusPending(r)
    <3>1. releaser'[r] = Idle /\ \A s \in Releasers \ {r} :
            releaser'[s].step = releaser[s].step /\ releaser'[s].manifest = releaser[s].manifest
      BY <2>0, <2>a, MoveOthers
    <3>2. ~torn' => \A s \in Releasers : releaser'[s].step /= "status"
      BY <2>a, <3>1 DEF StatusPending, Idle
    <3>3. \A x \in Manifests : status'[x] = "active" <=> x = m
      BY <2>a DEF StatusOf
    <3>4. active' = m
      BY <2>a DEF Moved
    <3> QED BY <3>2, <3>3, <3>4 DEF OneRewrite, StatusTellsActive
  <2>b. CASE Answer(r) /\ UNCHANGED <<active, status, torn>>
    BY <1>6, <2>b DEF Commit, Answer, Idle, OneRewrite, StatusTellsActive, TypeOK
  <2> QED BY <1>6, <2>a, <2>b DEF Commit
<1>7. ASSUME NEW r \in Releasers, RewriteStatus(r) PROVE OneRewrite' /\ StatusTellsActive'
  <2>1. releaser'[r] = Idle /\ \A s \in Releasers \ {r} : releaser'[s] = releaser[s]
    BY <1>7 DEF RewriteStatus, Answer, TypeOK
  <2>2. OneRewrite'
    BY <1>7, <2>1 DEF RewriteStatus, OneRewrite, Idle
  <2>3. CASE status' = StatusOf(releaser[r].manifest) /\ torn' = torn
    <3>1. ~torn => releaser[r].manifest = active /\ active' = active
      BY <1>7 DEF RewriteStatus, OneRewrite
    <3>2. \A x \in Manifests : status'[x] = "active" <=> x = releaser[r].manifest
      BY <2>3 DEF StatusOf
    <3> QED BY <2>2, <2>3, <3>1, <3>2 DEF StatusTellsActive
  <2>4. CASE torn'
    BY <2>2, <2>4 DEF StatusTellsActive
  <2> QED BY <1>7, <2>3, <2>4 DEF RewriteStatus
<1>8. ASSUME NEW r \in Releasers, Abort(r) PROVE OneRewrite' /\ StatusTellsActive'
  <2>1. releaser'[r].step = "idle" /\ \A s \in Releasers \ {r} : releaser'[s] = releaser[s]
    BY <1>8, BeAnswered DEF Abort
  <2>2. torn' = (torn \/ releaser[r].step = "status") /\ UNCHANGED <<active, status>>
    BY <1>8 DEF Abort
  <2> QED BY <2>1, <2>2 DEF OneRewrite, StatusTellsActive
<1>9. ASSUME NEW l \in Lists, Agree(l) PROVE OneRewrite' /\ StatusTellsActive'
  BY <1>9 DEF Agree, OneRewrite, StatusTellsActive, TypeOK, Steps
<1>10. ASSUME NEW l \in Lists, Withdraw(l) PROVE OneRewrite' /\ StatusTellsActive'
  BY <1>10 DEF Withdraw, OneRewrite, StatusTellsActive, TypeOK, Steps
<1>11. CASE UNCHANGED vars
  BY <1>11 DEF vars, OneRewrite, StatusTellsActive, TypeOK, Steps
<1> QED BY <1>1, <1>2, <1>3, <1>4, <1>5, <1>6, <1>7, <1>8, <1>9, <1>10, <1>11 DEF Next, Release

\* A reading grows stale only through moves of the pointer, which are counted.
LEMMA DecidedHolds == IInv /\ [Next]_vars => Decided'
<1> SUFFICES ASSUME IInv, [Next]_vars PROVE Decided' OBVIOUS
<1> TypeOK /\ Named /\ Decided BY DEF IInv
<1>1. ASSUME NEW r \in Releasers, NEW m \in Manifests, NEW expected \in Known \cup {NoRelease},
             NEW allow \in BOOLEAN, Start(r, m, expected, allow)
      PROVE  Decided'
  <2>0. UNCHANGED <<active, live>>
    BY <1>1 DEF Start
  <2>1. /\ releaser'[r].step = "changes" /\ releaser'[r].turns = 0 /\ releaser'[r].current = active
        /\ \A s \in Releasers \ {r} : releaser'[s] = releaser[s]
    BY <1>1 DEF Start, TypeOK
  <2>2. DecidedBy(r)'
    BY <2>0, <2>1 DEF DecidedBy, Fresh, Reading
  <2>3. ASSUME NEW s \in Releasers \ {r} PROVE DecidedBy(s)'
    BY <2>0, <2>1 DEF Decided, DecidedBy, IsCurrentRead, Fresh, Gone, Lost, Reading,
       Destructive, IsLive
  <2> QED BY <2>2, <2>3 DEF Decided
<1>2. ASSUME NEW r \in Releasers, NEW m \in Manifests, NEW expected \in Known \cup {NoRelease},
             Rollback(r, m, expected)
      PROVE  Decided'
  <2> QED
    <3> DEFINE own == [Idle EXCEPT !.step = "status", !.manifest = m]
    <3>0. active' = m /\ \A s \in Releasers : releaser[s].turns \in 0..2
      BY <1>2, Forms DEF Rollback, Moved
    <3>1. releaser'[r] = own /\ \A s \in Releasers \ {r} :
            /\ releaser'[s].step = releaser[s].step /\ releaser'[s].current = releaser[s].current
            /\ releaser'[s].expected = releaser[s].expected
            /\ releaser[s].step \in Reading => releaser'[s].turns = Turned(releaser[s].turns, m)
      BY <1>2, MoveOthers DEF Rollback
    <3>2. ASSUME NEW s \in Releasers \ {r} PROVE DecidedBy(s)'
      <4>1. /\ releaser'[s].step = releaser[s].step /\ releaser'[s].current = releaser[s].current
            /\ releaser'[s].expected = releaser[s].expected
            /\ releaser[s].step \in Reading => releaser'[s].turns = Turned(releaser[s].turns, m)
        BY <3>1
      <4>2. releaser[s].step \in Reading => (Gone(s) \/ Lost(s))' /\ ~Fresh(s)'
        BY <3>0, <4>1 DEF Decided, DecidedBy, Fresh, Gone, Lost, Turned, Reading
      <4> QED BY <4>1, <4>2 DEF Decided, DecidedBy, Reading, IsCurrentRead
    <3>3. DecidedBy(r)'
      BY <3>1 DEF DecidedBy, Idle, Reading
    <3> QED BY <3>2, <3>3 DEF Decided
<1>3. ASSUME NEW r \in Releasers, Changes(r) PROVE Decided'
  <2>0. UNCHANGED <<active, live>>
    BY <1>3 DEF Changes
  <2>1. \A s \in Releasers \ {r} : releaser'[s] = releaser[s]
    <3>1. CASE Answer(r)
      BY <3>1, BeAnswered DEF Steps
    <3>2. CASE (Destructive(releaser[r].manifest) => releaser[r].allow) /\ Goto(r, "digest")
      BY <3>2, GoOn DEF Steps
    <3>3. CASE releaser' = [releaser EXCEPT ![r].step = "digest", ![r].turns = 2]
      BY <3>3, FailToRead DEF Steps
    <3> QED BY <1>3, <3>1, <3>2, <3>3 DEF Changes
  <2>2. DecidedBy(r)'
    <3>1. CASE Answer(r)
      BY <3>1, BeAnswered DEF DecidedBy, Reading
    <3>2. CASE (Destructive(releaser[r].manifest) => releaser[r].allow) /\ Goto(r, "digest")
      <4>1. /\ releaser'[r].step = "digest" /\ releaser'[r].manifest = releaser[r].manifest
            /\ releaser'[r].expected = releaser[r].expected
            /\ releaser'[r].current = releaser[r].current
            /\ releaser'[r].allow = releaser[r].allow /\ releaser'[r].turns = releaser[r].turns
        BY <3>2, GoOn DEF Steps
      <4>2. releaser[r].step = "changes" /\ DecidedBy(r)
        BY <1>3 DEF Changes, Decided
      <4> QED BY <2>0, <3>2, <4>1, <4>2 DEF DecidedBy, IsCurrentRead, Fresh, Gone, Lost,
         Reading, Destructive, IsLive
    <3>3. CASE releaser' = [releaser EXCEPT ![r].step = "digest", ![r].turns = 2]
      <4>1. releaser'[r].step = "digest" /\ releaser'[r].turns = 2
        BY <3>3, FailToRead
      <4>2. Lost(r)' /\ ~Fresh(r)'
        BY <4>1 DEF Lost, Fresh
      <4> QED BY <4>1, <4>2 DEF DecidedBy
    <3> QED BY <1>3, <3>1, <3>2, <3>3 DEF Changes
  <2>3. ASSUME NEW s \in Releasers \ {r} PROVE DecidedBy(s)'
    BY <2>0, <2>1 DEF Decided, DecidedBy, IsCurrentRead, Fresh, Gone, Lost, Reading,
       Destructive, IsLive
  <2> QED BY <2>2, <2>3 DEF Decided
<1>4. ASSUME NEW r \in Releasers, CheckDigest(r) PROVE Decided'
  <2>0. UNCHANGED <<active, live>>
    BY <1>4 DEF CheckDigest
  <2>1. \A s \in Releasers \ {r} : releaser'[s] = releaser[s]
    <3>1. CASE Answer(r)
      BY <3>1, BeAnswered DEF Steps
    <3>2. CASE IsCurrentRead(r) /\ Goto(r, "objects")
      BY <3>2, GoOn DEF Steps
    <3> QED BY <1>4, <3>1, <3>2 DEF CheckDigest, PassDigest
  <2>2. DecidedBy(r)'
    <3>1. CASE Answer(r)
      BY <3>1, BeAnswered DEF DecidedBy, Reading
    <3>2. CASE IsCurrentRead(r) /\ Goto(r, "objects")
      <4>1. /\ releaser'[r].step = "objects" /\ releaser'[r].manifest = releaser[r].manifest
            /\ releaser'[r].expected = releaser[r].expected
            /\ releaser'[r].current = releaser[r].current
            /\ releaser'[r].allow = releaser[r].allow /\ releaser'[r].turns = releaser[r].turns
        BY <3>2, GoOn DEF Steps
      <4>2. releaser[r].step = "digest" /\ DecidedBy(r)
        BY <1>4 DEF CheckDigest, Decided
      <4> QED BY <2>0, <3>2, <4>1, <4>2 DEF DecidedBy, IsCurrentRead, Fresh, Gone, Lost,
         Reading, Destructive, IsLive
    <3> QED BY <1>4, <3>1, <3>2 DEF CheckDigest, PassDigest
  <2>3. ASSUME NEW s \in Releasers \ {r} PROVE DecidedBy(s)'
    BY <2>0, <2>1 DEF Decided, DecidedBy, IsCurrentRead, Fresh, Gone, Lost, Reading,
       Destructive, IsLive
  <2> QED BY <2>2, <2>3 DEF Decided
<1>5. ASSUME NEW r \in Releasers, CheckObjects(r) PROVE Decided'
  <2>0. UNCHANGED <<active, live>>
    BY <1>5 DEF CheckObjects
  <2>1. \A s \in Releasers \ {r} : releaser'[s] = releaser[s]
    <3>1. CASE Answer(r)
      BY <3>1, BeAnswered DEF Steps
    <3>2. CASE Goto(r, "commit")
      BY <3>2, GoOn DEF Steps
    <3> QED BY <1>5, <3>1, <3>2 DEF CheckObjects
  <2>2. DecidedBy(r)'
    <3>1. CASE Answer(r)
      BY <3>1, BeAnswered DEF DecidedBy, Reading
    <3>2. CASE Goto(r, "commit")
      <4>1. /\ releaser'[r].step = "commit" /\ releaser'[r].manifest = releaser[r].manifest
            /\ releaser'[r].expected = releaser[r].expected
            /\ releaser'[r].current = releaser[r].current
            /\ releaser'[r].allow = releaser[r].allow /\ releaser'[r].turns = releaser[r].turns
        BY <3>2, GoOn DEF Steps
      <4>2. releaser[r].step = "objects" /\ DecidedBy(r)
        BY <1>5 DEF CheckObjects, Decided
      <4> QED BY <2>0, <3>2, <4>1, <4>2 DEF DecidedBy, IsCurrentRead, Fresh, Gone, Lost,
         Reading, Destructive, IsLive
    <3> QED BY <1>5, <3>1, <3>2 DEF CheckObjects
  <2>3. ASSUME NEW s \in Releasers \ {r} PROVE DecidedBy(s)'
    BY <2>0, <2>1 DEF Decided, DecidedBy, IsCurrentRead, Fresh, Gone, Lost, Reading,
       Destructive, IsLive
  <2> QED BY <2>2, <2>3 DEF Decided
<1>6. ASSUME NEW r \in Releasers, Commit(r) PROVE Decided'
  <2> DEFINE m == releaser[r].manifest
  <2>a. CASE Moved(r, m, Idle)
    <3>0. active' = m /\ m \in Manifests /\ \A s \in Releasers : releaser[s].turns \in 0..2
      BY <1>6, <2>a, Forms DEF Commit, Moved, Named
    <3>1. releaser'[r] = Idle /\ \A s \in Releasers \ {r} :
            /\ releaser'[s].step = releaser[s].step /\ releaser'[s].current = releaser[s].current
            /\ releaser'[s].expected = releaser[s].expected
            /\ releaser[s].step \in Reading => releaser'[s].turns = Turned(releaser[s].turns, m)
      BY <2>a, <3>0, MoveOthers
    <3>2. ASSUME NEW s \in Releasers \ {r} PROVE DecidedBy(s)'
      <4>1. /\ releaser'[s].step = releaser[s].step /\ releaser'[s].current = releaser[s].current
            /\ releaser'[s].expected = releaser[s].expected
            /\ releaser[s].step \in Reading => releaser'[s].turns = Turned(releaser[s].turns, m)
        BY <3>1
      <4>2. releaser[s].step \in Reading => (Gone(s) \/ Lost(s))' /\ ~Fresh(s)'
        BY <3>0, <4>1 DEF Decided, DecidedBy, Fresh, Gone, Lost, Turned, Reading
      <4> QED BY <4>1, <4>2 DEF Decided, DecidedBy, Reading, IsCurrentRead
    <3>3. DecidedBy(r)'
      BY <3>1 DEF DecidedBy, Idle, Reading
    <3> QED BY <3>2, <3>3 DEF Decided
  <2>b. CASE Answer(r) /\ UNCHANGED <<active, live>>
    <3>1. releaser'[r] = Idle /\ \A s \in Releasers \ {r} : releaser'[s] = releaser[s]
      BY <2>b DEF Answer, TypeOK
    <3> QED BY <2>b, <3>1 DEF Idle, Decided, DecidedBy, IsCurrentRead, Fresh, Gone, Lost,
       Reading, Destructive, IsLive
  <2> QED BY <1>6, <2>a, <2>b DEF Commit
<1>7. ASSUME NEW r \in Releasers, RewriteStatus(r) PROVE Decided'
  <2>0. UNCHANGED <<active, live>>
    BY <1>7 DEF RewriteStatus
  <2>1. releaser'[r].step = "idle" /\ \A s \in Releasers \ {r} : releaser'[s] = releaser[s]
    BY <1>7, BeAnswered DEF RewriteStatus
  <2>2. DecidedBy(r)'
    BY <2>1 DEF DecidedBy, Reading
  <2>3. ASSUME NEW s \in Releasers \ {r} PROVE DecidedBy(s)'
    BY <2>0, <2>1 DEF Decided, DecidedBy, IsCurrentRead, Fresh, Gone, Lost, Reading,
       Destructive, IsLive
  <2> QED BY <2>2, <2>3 DEF Decided
<1>8. ASSUME NEW r \in Releasers, Abort(r) PROVE Decided'
  <2>0. UNCHANGED <<active, live>>
    BY <1>8 DEF Abort
  <2>1. releaser'[r].step = "idle" /\ \A s \in Releasers \ {r} : releaser'[s] = releaser[s]
    BY <1>8, BeAnswered DEF Abort
  <2>2. DecidedBy(r)'
    BY <2>1 DEF DecidedBy, Reading
  <2>3. ASSUME NEW s \in Releasers \ {r} PROVE DecidedBy(s)'
    BY <2>0, <2>1 DEF Decided, DecidedBy, IsCurrentRead, Fresh, Gone, Lost, Reading,
       Destructive, IsLive
  <2> QED BY <2>2, <2>3 DEF Decided
<1>9. ASSUME NEW l \in Lists, Agree(l) PROVE Decided'
  BY <1>9 DEF Agree, Decided, DecidedBy, IsCurrentRead, Fresh, Gone, Lost, Reading,
     Destructive, IsLive
<1>10. ASSUME NEW l \in Lists, Withdraw(l) PROVE Decided'
  BY <1>10 DEF Withdraw, Decided, DecidedBy, IsCurrentRead, Fresh, Gone, Lost, Reading,
     Destructive, IsLive
<1>11. CASE UNCHANGED vars
  BY <1>11 DEF vars, Decided, DecidedBy, IsCurrentRead, Fresh, Gone, Lost, Reading,
     Destructive, IsLive
<1> QED BY <1>1, <1>2, <1>3, <1>4, <1>5, <1>6, <1>7, <1>8, <1>9, <1>10, <1>11 DEF Next, Release

\* What a step does to the lists and the consents, whoever takes it.
LEMMA ListsAndConsents ==
  ASSUME [Next]_vars
  PROVE  \/ UNCHANGED <<live, consent>>
         \/ \E r \in Releasers : Commit(r) /\ live' = Synchronised(releaser[r].manifest)
                                          /\ consent' = Revoked(releaser[r].manifest)
         \/ \E l \in Lists : Agree(l) \/ Withdraw(l)
BY DEF Next, Release, Start, Rollback, Changes, CheckDigest, CheckObjects, Commit,
   RewriteStatus, Abort, vars

\* A list keeps its row when it is left out, so a consent never loses its list.
LEMMA ListedHolds == IInv /\ [Next]_vars => Listed'
<1> SUFFICES ASSUME IInv, [Next]_vars PROVE Listed' OBVIOUS
<1> TypeOK /\ Listed BY DEF IInv
<1>1. CASE UNCHANGED <<live, consent>>
  BY <1>1 DEF Listed
<1>2. ASSUME NEW r \in Releasers, live' = Synchronised(releaser[r].manifest),
             consent' = Revoked(releaser[r].manifest)
      PROVE  Listed'
  BY <1>2, Forms DEF Synchronised, Revoked, Listed
<1>3. ASSUME NEW l \in Lists, Agree(l) \/ Withdraw(l) PROVE Listed'
  BY <1>3 DEF Agree, Withdraw, Listed, IsLive, TypeOK
<1> QED BY <1>1, <1>2, <1>3, ListsAndConsents

LEMMA InvariantHolds == IInv /\ [Next]_vars => IInv'
BY TypeHolds, KeptHolds, ListsHold, StatusHolds, DecidedHolds, ListedHolds DEF IInv

LEMMA Inductive == Spec => []IInv
<1>1. Init => IInv
  BY InitiallyHolds
<1>2. IInv /\ [Next]_vars => IInv'
  BY InvariantHolds
<1> QED BY <1>1, <1>2, PTL DEF Spec

-----------------------------------------------------------------------------
(* Theorems *)

\* The model is well typed.
THEOREM TypeCorrect == Spec => []TypeOK
<1>1. IInv => TypeOK
  BY DEF IInv
<1> QED BY <1>1, Inductive, PTL

\* Through any deployments, rollbacks, retirements and returns of a list, a consent
\* that passes for one in force was given to the terms in force, purpose included (the
\* transaction of doReleases revokes the confirmed where version or purpose changes).
THEOREM ConsentStandsForAgreement == Spec => []ConsentInForceWasGiven
<1>1. IInv => ConsentInForceWasGiven
  BY DEF IInv, Kept, ConsentInForceWasGiven
<1> QED BY <1>1, Inductive, PTL

\* The lists in force are those of the last deployment, whole.
THEOREM ListsAreWhole == Spec => []ListsAreLastDeployed
<1>1. IInv => ListsAreLastDeployed
  BY DEF IInv
<1> QED BY <1>1, Inductive, PTL

\* Between rollbacks that were neither interrupted nor overtaken the status column
\* names the active release.
THEOREM StatusIsTrue == Spec => []StatusTellsActive
<1>1. IInv => StatusTellsActive
  BY DEF IInv
<1> QED BY <1>1, Inductive, PTL

\* A live list goes out of force only by a deployment that was allowed to remove it,
\* or whose reading of the lists had been overtaken in a way the pointer cannot show.
THEOREM RemovalIsExplicit == Spec => RemovalWasSeen
<1> DEFINE Seen == \A l \in Lists : IsLive(l) /\ ~IsLive(l)' =>
      \E r \in Releasers : releaser[r].step = "commit" /\ (releaser[r].allow \/ releaser[r].turns = 2)
<1>1. ASSUME IInv, [Next]_vars PROVE [Seen]_vars
  <2>1. CASE UNCHANGED live
    BY <2>1 DEF IsLive
  <2>2. ASSUME NEW r \in Releasers, Commit(r), live' /= live PROVE Seen
    <3> DEFINE m == releaser[r].manifest
    <3>1. /\ releaser[r].step = "commit" /\ live' = Synchronised(m) /\ IsCurrent(r)
          /\ m \in Manifests /\ IsCurrentRead(r)
      BY <1>1, <2>2 DEF Commit, IInv, Named, Decided, DecidedBy
    <3>2. SUFFICES ASSUME ~releaser[r].allow, releaser[r].turns /= 2
                   PROVE  \A l \in Lists : IsLive(l) => IsLive(l)'
      BY <3>1
    <3>3. Fresh(r)
      BY <1>1, <3>1, <3>2 DEF IInv, Decided, DecidedBy, Reading, Gone, Lost, IsCurrent,
         IsCurrentRead
    <3>4. ~Destructive(m)
      BY <1>1, <3>1, <3>2, <3>3 DEF IInv, Decided, DecidedBy
    <3>5. ASSUME NEW l \in Lists, IsLive(l) PROVE IsLive(l)'
      <4>1. m[l] = live[l].policy /\ m[l] > 0
        BY <3>4, <3>5 DEF Destructive, IsLive
      <4>2. live'[l] = [policy |-> m[l], retired |-> FALSE]
        BY <3>1, <4>1 DEF Synchronised
      <4> QED BY <4>1, <4>2 DEF IsLive
    <3> QED BY <3>5
  <2>3. UNCHANGED live \/ \E r \in Releasers : Commit(r)
    BY <1>1 DEF Next, Release, Start, Rollback, Changes, CheckDigest, CheckObjects,
       RewriteStatus, Abort, Agree, Withdraw, vars
  <2> QED BY <2>1, <2>2, <2>3
<1> QED BY <1>1, Inductive, PTL DEF Spec, RemovalWasSeen

\* However deployments and rollbacks overlap, they keep the contract that the senders
\* meet: a changed policy dismisses everybody on the list (the transaction of
\* doReleases), a rollback, which moves the pointer only, changes nothing.
THEOREM AudienceRefinement == Spec => ImplementsAudience
<1>1. Init => \A l \in Lists : Circle(l)!Init
  BY DEF Init, Circle!Init, IsLive
<1>2. ASSUME IInv, [Next]_vars, NEW l \in Lists
      PROVE  Circle(l)!Next \/ UNCHANGED Circle(l)!circle
  <2> DEFINE In == consent[l].state = "confirmed" /\ consent[l].policy = Version[live[l].policy]
             Shut == ~IsLive(l)
  <2> USE DEF Circle!Next, Circle!Join, Circle!Leave, Circle!Bar, Circle!Deploy, Circle!circle
  <2>0. TypeOK /\ Listed
    BY <1>2 DEF IInv
  <2>1. CASE UNCHANGED <<live, consent>>
    BY <2>1 DEF IsLive
  <2>2. ASSUME NEW r \in Releasers, Commit(r), live' = Synchronised(releaser[r].manifest),
               consent' = Revoked(releaser[r].manifest)
        PROVE  Circle(l)!Next
    <3> DEFINE m == releaser[r].manifest
    <3>1. m \in Manifests /\ m[l] \in Nat /\ live[l].policy \in Nat
      BY <1>2, <2>0, <2>2, Forms DEF IInv, Named, Commit
    <3>2. /\ consent'[l] = IF l \in Reconsents(m) /\ consent[l].state = "confirmed"
                           THEN [state |-> "pending", policy |-> Version[m[l]]] ELSE consent[l]
          /\ live'[l].policy = IF m[l] > 0 THEN m[l] ELSE live[l].policy
      BY <2>0, <2>2 DEF Revoked, Synchronised, TypeOK
    <3>3. IF l \in Reconsents(m) THEN ~In' ELSE In' = In
      BY <2>0, <3>1, <3>2 DEF Reconsents, Listed
    <3> QED BY <3>3
  <2>3. ASSUME NEW k \in Lists, Agree(k) \/ Withdraw(k)
        PROVE  Circle(l)!Next \/ UNCHANGED Circle(l)!circle
    <3>1. UNCHANGED live /\ Shut' = Shut
      BY <2>3 DEF Agree, Withdraw, IsLive
    <3>2. CASE k /= l
      <4>1. consent'[l] = consent[l]
        BY <2>0, <2>3, <3>2 DEF Agree, Withdraw, TypeOK
      <4> QED BY <3>1, <4>1
    <3>3. CASE k = l /\ Agree(l)
      <4>1. ~In /\ In'
        BY <2>0, <3>1, <3>3 DEF Agree, TypeOK
      <4> QED BY <3>1, <4>1
    <3>4. CASE k = l /\ Withdraw(l)
      <4>1. ~In'
        BY <2>0, <3>4 DEF Withdraw, TypeOK
      <4> QED BY <3>1, <4>1
    <3> QED BY <2>3, <3>2, <3>3, <3>4
  <2> QED BY <1>2, <2>1, <2>2, <2>3, ListsAndConsents
<1>3. IInv /\ [Next]_vars => [\A l \in Lists : Circle(l)!Next \/ UNCHANGED Circle(l)!circle]_vars
  BY <1>2
<1> QED BY <1>1, <1>3, Inductive, PTL DEF Spec, ImplementsAudience
=============================================================================
