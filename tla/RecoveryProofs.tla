--------------------------- MODULE RecoveryProofs ---------------------------
(***************************************************************************)
(* Theorems about module Recovery, for any number of processes, records    *)
(* and keys, any batch limit and any number of crashes.                    *)
(***************************************************************************)
EXTENDS Recovery, TLAPS

Opened == {"install", "check", "force", "rotate"} \cup Serving

\* Where the files are while processes and the script are on their way: nothing
\* creates a database under the script, and nothing but the script marks one.
Shape ==
  /\ \A p \in Processes : process[p].step \in Opened => db.file
  /\ script.step \in {"fetch", "move"} => ~db.file
  /\ script.step = "mark" => db.file /\ ~marker
  /\ script.step /= "idle" =>
       \A p \in Processes : At(p, "idle") \/ process[p].command = "server"
  /\ script.step = "move" => script.copy.file /\ script.copy.installed
  /\ ~db.file => ~marker
  /\ db.installed => db.file
  /\ backup.file => backup.installed
  /\ origin = "restored" => db.installed

\* What holds a restored copy, at each step of a process that opens it.
Hold ==
  origin = "restored" /\ ~unmarked =>
    /\ script.step /= "mark" => marker \/ IsHeld
    /\ \A p \in Processes :
         /\ process[p].step \in {"open", "install", "check", "force"} =>
              process[p].forced \/ IsHeld
         /\ process[p].step \in {"rotate"} \cup Serving => IsHeld

\* Who may be about while the marker is still missing, and who removes it.
Marking ==
  ~unmarked =>
    /\ script.step = "mark" =>
         /\ origin = "restored"
         /\ \A p \in Processes : process[p].step \in {"idle", "lock", "marker"}
    /\ \A p \in Processes : At(p, "commit") => ~marker
    /\ origin = "reconciled" => ~marker

\* One key opens a database.
Agree(d) == \E key \in Keys : \A r \in Records : d.sealed[r] \in {NoKey, key}

Copies ==
  ~stale =>
    /\ Agree(db) /\ Agree(backup) /\ Agree(script.copy)
    /\ \A p \in Processes : IsServing(p) => \A r \in Records : Opens(process[p].key, r)

IInv == TypeOK /\ Shape /\ Hold /\ Marking /\ Copies

-----------------------------------------------------------------------------
(* Lemmas *)

ProcessType ==
  process \in [Processes -> [step : Steps, command : {"server", "init", "rotate-key"},
                             key : Keys, forced : BOOLEAN]]
LockType ==
  /\ lock \in Processes \cup {Nobody}
  /\ \A p \in Processes : process[p].step \notin {"idle", "lock"} <=> lock = p
RestType ==
  /\ db \in Databases /\ backup \in Databases
  /\ marker \in BOOLEAN /\ unmarked \in BOOLEAN /\ stale \in BOOLEAN
  /\ script \in [step : {"idle", "fetch", "move", "mark"}, copy : Databases]
  /\ env \in Keys /\ made \in Keys
  /\ origin \in {"made", "restored", "reconciled"}
  /\ trouble \in 0..MaxTrouble

LEMMA NothingIsADatabase == NoDatabase \in Databases
BY DEF NoDatabase, Databases

LEMMA Updates ==
  ASSUME NEW d \in Databases
  PROVE  /\ [d EXCEPT !.file = TRUE] \in Databases
         /\ \A a, b \in BOOLEAN : [d EXCEPT !.recovery = a, !.paused = b] \in Databases
         /\ \A a, b \in BOOLEAN :
              [d EXCEPT !.installed = TRUE, !.recovery = a, !.paused = b] \in Databases
         /\ \A sealed \in [Records -> Keys \cup {NoKey}] :
              [d EXCEPT !.sealed = sealed] \in Databases
BY DEF Databases

LEMMA ResealedType ==
  ASSUME TypeOK, NEW old \in Keys, NEW new \in Keys, NEW sealed \in Resealed(old, new)
  PROVE  sealed \in [Records -> Keys \cup {NoKey}] /\ sealed = With(new, Sealed)
BY DEF TypeOK, Databases, Resealed, With

\* A process that goes on keeps its lock, one that ends gives it up.
LEMMA GoesOn ==
  ASSUME TypeOK, NEW p \in Processes, NEW step \in Steps \ {"idle", "lock"},
         process[p].step \notin {"idle", "lock"}, Goto(p, step), lock' = lock
  PROVE  ProcessType' /\ LockType'
BY DEF TypeOK, Goto, ProcessType, LockType, Steps

LEMMA Ends ==
  ASSUME TypeOK, NEW p \in Processes, Exit(p)
  PROVE  ProcessType' /\ LockType'
<1>1. 1 \in Keys
  BY ConstantsOK DEF Keys
<1>2. ProcessType'
  BY <1>1 DEF TypeOK, Exit, ProcessType, Idle, Steps
<1>3. process' = [process EXCEPT ![p] = Idle] /\ process'[p].step = "idle"
  BY DEF TypeOK, Exit, Idle
<1>4. LockType'
  BY <1>3, ConstantsOK DEF TypeOK, Exit, LockType
<1> QED BY <1>2, <1>4

LEMMA InitiallyHolds == Init => IInv
<1> SUFFICES ASSUME Init PROVE IInv OBVIOUS
<1>1. 1 \in Keys /\ 1 \in Nat
  BY ConstantsOK DEF Keys
<1>2. TypeOK
  <2>1. process \in [Processes -> [step : Steps, command : {"server", "init", "rotate-key"},
                                  key : Keys, forced : BOOLEAN]]
    BY <1>1 DEF Init, Idle, Steps
  <2>2. \A p \in Processes : process[p].step \notin {"idle", "lock"} <=> lock = p
    BY ConstantsOK DEF Init, Idle
  <2>3. trouble \in 0..MaxTrouble
    BY ConstantsOK DEF Init
  <2> QED BY <1>1, <2>1, <2>2, <2>3, NothingIsADatabase DEF Init, TypeOK
<1>3. Shape /\ Hold /\ Marking
  BY DEF Init, Shape, Hold, Marking, NoDatabase, At, Idle, Opened, Serving
<1>4. Agree(NoDatabase)
  BY <1>1 DEF Agree, NoDatabase
<1>5. Copies
  BY <1>4 DEF Init, Copies, IsServing, Idle, Serving
<1> QED BY <1>2, <1>3, <1>5 DEF IInv

\* Every variable keeps its type, and one process at most holds the lock.
LEMMA TypeHolds == IInv /\ [Next]_vars => TypeOK'
<1> SUFFICES ASSUME IInv, [Next]_vars PROVE TypeOK' OBVIOUS
<1> TypeOK BY DEF IInv
<1> NoDatabase \in Databases BY NothingIsADatabase
<1>t. Trouble => trouble' \in 0..MaxTrouble
  BY ConstantsOK DEF Trouble, TypeOK
<1>k. 1 \in Keys /\ \A n \in Nat : n < MaxKeys /\ n \in Keys => n + 1 \in Keys
  BY ConstantsOK DEF Keys
<1>1. ASSUME NEW p \in Processes, NEW command \in {"server", "init", "rotate-key"},
             NEW recovery \in BOOLEAN, Start(p, command, recovery)
      PROVE  TypeOK'
  <2>1. ProcessType'
    BY <1>1, <1>k DEF Start, TypeOK, ProcessType, Steps
  <2>2. process' = [process EXCEPT ![p] = process'[p]] /\ process'[p].step = "lock"
    BY <1>1 DEF Start, TypeOK
  <2>3. LockType'
    BY <1>1, <2>2 DEF Start, At, TypeOK, LockType
  <2> QED BY <1>1, <2>1, <2>3 DEF Start, files, keys, TypeOK, ProcessType, LockType
<1>2. ASSUME NEW p \in Processes, TakeLock(p) PROVE TypeOK'
  <2>1. CASE LockIsFree
    <3>1. ProcessType' /\ process'[p].step = "marker"
      BY <1>2, <2>1 DEF TakeLock, Goto, TypeOK, ProcessType, Steps, Opening
    <3>2. \A q \in Processes : q /= p => process'[q] = process[q]
      BY <1>2, <2>1 DEF TakeLock, Goto, TypeOK
    <3>3. LockType'
      BY <1>2, <2>1, <3>1, <3>2, ConstantsOK DEF TakeLock, LockIsFree, TypeOK, LockType
    <3> QED BY <1>2, <3>1, <3>3 DEF TakeLock, files, keys, TypeOK, ProcessType, LockType
  <2>2. CASE ~LockIsFree
    <3>1. ProcessType' /\ LockType'
      BY <1>2, <2>2, Ends DEF TakeLock
    <3> QED BY <1>2, <3>1 DEF TakeLock, files, keys, TypeOK, ProcessType, LockType
  <2> QED BY <2>1, <2>2
<1>3. ASSUME NEW p \in Processes, LookForMarker(p) PROVE TypeOK'
  <2>1. RestType'
    <3>1. unmarked' \in BOOLEAN
      BY <1>3 DEF LookForMarker, TypeOK
    <3> QED BY <1>3, <1>t, <3>1 DEF LookForMarker, keys, TypeOK, RestType
  <2>2. CASE Exit(p)
    BY <1>3, <2>1, <2>2, Ends DEF TypeOK, ProcessType, LockType, RestType
  <2>3. CASE /\ process' = [process EXCEPT ![p].step = "open", ![p].forced = Forced(p)]
             /\ lock' = lock
    <3>1. Forced(p) \in BOOLEAN
      BY DEF Forced, TypeOK
    <3>2. process' = [process EXCEPT ![p] = [@ EXCEPT !.step = "open", !.forced = Forced(p)]]
      BY <2>3
    <3>3. ProcessType'
      BY <3>1, <3>2 DEF TypeOK, ProcessType, Steps, Opening
    <3>4. LockType'
      BY <1>3, <2>3, <3>2 DEF LookForMarker, At, TypeOK, LockType
    <3> QED BY <2>1, <3>3, <3>4 DEF TypeOK, ProcessType, LockType, RestType
  <2> QED BY <1>3, <2>2, <2>3 DEF LookForMarker
<1>4. ASSUME NEW p \in Processes, OpenFile(p) PROVE TypeOK'
  <2>1. ProcessType' /\ LockType'
    BY <1>4, GoesOn, Ends DEF OpenFile, keys, At, Steps, Opening, Serving
  <2>2. RestType'
    BY <1>4, <1>t, <1>k, Updates DEF OpenFile, keys, TypeOK, RestType
  <2> QED BY <2>1, <2>2 DEF TypeOK, ProcessType, LockType, RestType
<1>5. ASSUME NEW p \in Processes, Install(p) PROVE TypeOK'
  <2>1. ProcessType' /\ LockType'
    BY <1>5, GoesOn DEF Install, keys, At, Steps, Opening, Serving
  <2>2. RestType'
    BY <1>5, <1>t, <1>k, Updates DEF Install, keys, TypeOK, RestType
  <2> QED BY <2>1, <2>2 DEF TypeOK, ProcessType, LockType, RestType
<1>6. ASSUME NEW p \in Processes, CheckInstalled(p) PROVE TypeOK'
  <2>1. ProcessType' /\ LockType'
    BY <1>6, GoesOn, Ends DEF CheckInstalled, files, keys, At, Steps, Opening, Serving
  <2>2. RestType'
    BY <1>6, <1>t, <1>k, Updates DEF CheckInstalled, files, keys, TypeOK, RestType
  <2> QED BY <2>1, <2>2 DEF TypeOK, ProcessType, LockType, RestType
<1>7. ASSUME NEW p \in Processes, FinishOpen(p) PROVE TypeOK'
  <2>1. ProcessType' /\ LockType'
    BY <1>7, GoesOn, Ends DEF FinishOpen, ForcesRecovery, keys, At, Steps, Opening, Serving
  <2>2. RestType'
    BY <1>7, <1>t, <1>k, Updates DEF FinishOpen, ForcesRecovery, keys, TypeOK, RestType
  <2> QED BY <2>1, <2>2 DEF TypeOK, ProcessType, LockType, RestType
<1>8. ASSUME NEW p \in Processes, Rotate(p) PROVE TypeOK'
  <2>1. ProcessType' /\ LockType'
    BY <1>8, Ends DEF Rotate
  <2>2. RestType'
    <3>1. db' \in Databases /\ made' \in Keys
      <4>1. CASE db' = db /\ made' = made
        BY <4>1 DEF TypeOK
      <4>2. CASE made < MaxKeys /\ made' = made + 1
                 /\ \E sealed \in Resealed(process[p].key, made + 1) :
                      db' = [db EXCEPT !.sealed = sealed]
        <5>1. made + 1 \in Keys /\ process[p].key \in Keys
          BY <4>2, ConstantsOK DEF TypeOK, Keys
        <5>2. PICK sealed \in Resealed(process[p].key, made + 1) :
                db' = [db EXCEPT !.sealed = sealed]
          BY <4>2
        <5>3. sealed \in [Records -> Keys \cup {NoKey}]
          BY <5>1, ResealedType
        <5> QED BY <4>2, <5>1, <5>2, <5>3, Updates DEF TypeOK
      <4> QED BY <1>8, <4>1, <4>2 DEF Rotate
    <3> QED BY <1>8, <3>1 DEF Rotate, TypeOK, RestType
  <2> QED BY <2>1, <2>2 DEF TypeOK, ProcessType, LockType, RestType
<1>9. ASSUME NEW p \in Processes, NEW r \in Records, Seal(p, r) PROVE TypeOK'
  BY <1>9 DEF Seal, keys, TypeOK, Databases, ProcessType, LockType
<1>10. ASSUME NEW p \in Processes, BeginResume(p) PROVE TypeOK'
  <2>1. ProcessType' /\ LockType'
    BY <1>10, GoesOn DEF BeginResume, FirstOfResume, files, keys, At, Steps, Opening, Serving
  <2>2. RestType'
    BY <1>10, <1>t, <1>k, Updates DEF BeginResume, FirstOfResume, files, keys, TypeOK, RestType
  <2> QED BY <2>1, <2>2 DEF TypeOK, ProcessType, LockType, RestType
<1>11. ASSUME NEW p \in Processes, RemoveMarker(p) PROVE TypeOK'
  <2>1. ProcessType' /\ LockType'
    BY <1>11, GoesOn DEF RemoveMarker, keys, At, Steps, Opening, Serving
  <2>2. RestType'
    BY <1>11, <1>t, <1>k, Updates DEF RemoveMarker, keys, TypeOK, RestType
  <2> QED BY <2>1, <2>2 DEF TypeOK, ProcessType, LockType, RestType
<1>12. ASSUME NEW p \in Processes, CommitResume(p) PROVE TypeOK'
  <2>1. ProcessType' /\ LockType'
    BY <1>12, GoesOn DEF CommitResume, keys, At, Steps, Opening, Serving
  <2>2. RestType'
    BY <1>12, <1>t, <1>k, Updates DEF CommitResume, keys, TypeOK, RestType
  <2> QED BY <2>1, <2>2 DEF TypeOK, ProcessType, LockType, RestType
<1>13. ASSUME NEW p \in Processes, Stop(p) PROVE TypeOK'
  <2>1. ProcessType' /\ LockType'
    BY <1>13, Ends DEF Stop, files, keys
  <2>2. RestType'
    BY <1>13, <1>t, <1>k, Updates DEF Stop, files, keys, TypeOK, RestType
  <2> QED BY <2>1, <2>2 DEF TypeOK, ProcessType, LockType, RestType
<1>14. ASSUME NEW p \in Processes, Crash(p) PROVE TypeOK'
  <2>1. ProcessType' /\ LockType'
    BY <1>14, Ends DEF Crash, files, keys
  <2>2. RestType'
    BY <1>14, <1>t, <1>k, Updates DEF Crash, files, keys, TypeOK, RestType
  <2> QED BY <2>1, <2>2 DEF TypeOK, ProcessType, LockType, RestType
<1>15. ASSUME NEW key \in Keys, Configure(key) PROVE TypeOK'
  BY <1>15 DEF Configure, files, TypeOK, Databases, ProcessType, LockType
<1>16. CASE CheckTarget
  BY <1>16 DEF CheckTarget, HandIsFree, IsFreeTarget, files, keys, TypeOK, Databases,
     ProcessType, LockType
<1>17. CASE Fetch
  BY <1>17 DEF Fetch, NoDatabase, files, keys, TypeOK, Databases, ProcessType, LockType
<1>18. CASE Move
  BY <1>18 DEF Move, NoDatabase, keys, TypeOK, Databases, ProcessType, LockType
<1>19. CASE Mark
  BY <1>19 DEF Mark, keys, TypeOK, Databases, ProcessType, LockType
<1>20. CASE EndScript
  <2>1. ProcessType' /\ LockType'
    BY <1>20 DEF EndScript, NoDatabase, keys, TypeOK, ProcessType, LockType
  <2>2. RestType'
    BY <1>20, <1>t, <1>k, Updates DEF EndScript, keys, TypeOK, RestType
  <2> QED BY <2>1, <2>2 DEF TypeOK, ProcessType, LockType, RestType
<1>21. CASE Replicate
  BY <1>21 DEF Replicate, files, keys, TypeOK, Databases, ProcessType, LockType
<1>22. CASE LoseVolume
  <2>1. ProcessType' /\ LockType'
    <3>1. ProcessType'
      BY <1>22, <1>k DEF LoseVolume, ProcessType, Idle, Steps
    <3>2. LockType'
      BY <1>22, ConstantsOK DEF LoseVolume, LockType, Idle
    <3> QED BY <3>1, <3>2
  <2>2. RestType'
    BY <1>22, <1>t, <1>k, Updates DEF LoseVolume, keys, TypeOK, RestType
  <2> QED BY <2>1, <2>2 DEF TypeOK, ProcessType, LockType, RestType
<1>23. CASE UNCHANGED vars
  BY <1>23 DEF vars, files, keys, TypeOK, Databases, ProcessType, LockType
<1> QED
  BY <1>1, <1>2, <1>3, <1>4, <1>5, <1>6, <1>7, <1>8, <1>9, <1>10, <1>11, <1>12, <1>13, <1>14,
     <1>15, <1>16, <1>17, <1>18, <1>19, <1>20, <1>21, <1>22, <1>23 DEF Next

\* Nothing makes a database under the script, and nothing else marks one.
LEMMA ShapeHolds == IInv /\ [Next]_vars => Shape'
<1> SUFFICES ASSUME IInv, [Next]_vars PROVE Shape' OBVIOUS
<1> TypeOK /\ Shape BY DEF IInv
<1>1. ASSUME NEW p \in Processes, NEW command \in {"server", "init", "rotate-key"},
             NEW recovery \in BOOLEAN, Start(p, command, recovery)
      PROVE  Shape'
  <2>1. /\ process'[p].step = "lock" /\ process'[p].command = command
        /\ \A q \in Processes : q /= p => process'[q] = process[q]
    BY <1>1 DEF Start, TypeOK
  <2>2. script.step /= "idle" => command = "server"
    BY <1>1 DEF Start, HandIsFree
  <2>3. \A q \in Processes : process'[q].step \in Opened => db.file
    BY <2>1 DEF Shape, Opened, Serving
  <2>4. script.step /= "idle" =>
          \A q \in Processes : process'[q].step = "idle" \/ process'[q].command = "server"
    BY <2>1, <2>2 DEF Shape, At
  <2> QED BY <1>1, <2>3, <2>4 DEF Start, files, keys, Shape, At
<1>2. ASSUME NEW p \in Processes, TakeLock(p) PROVE Shape'
  BY <1>2 DEF TakeLock, LockIsFree, Goto, Exit, Idle, files, keys, Shape, At, Opened, Serving,
     TypeOK, Databases
<1>3. ASSUME NEW p \in Processes, LookForMarker(p) PROVE Shape'
  BY <1>3 DEF LookForMarker, Forced, Exit, Idle, keys, Shape, At, Opened, Serving, TypeOK,
     Databases
<1>4. ASSUME NEW p \in Processes, OpenFile(p) PROVE Shape'
  BY <1>4 DEF OpenFile, Goto, Exit, Idle, keys, Shape, At, Opened, Serving, TypeOK, Databases
<1>5. ASSUME NEW p \in Processes, Install(p) PROVE Shape'
  BY <1>5 DEF Install, Goto, keys, Shape, At, Opened, Serving, TypeOK, Databases
<1>6. ASSUME NEW p \in Processes, CheckInstalled(p) PROVE Shape'
  BY <1>6 DEF CheckInstalled, Goto, Exit, Idle, files, keys, Shape, At, Opened, Serving,
     TypeOK, Databases
<1>7. ASSUME NEW p \in Processes, FinishOpen(p) PROVE Shape'
  BY <1>7 DEF FinishOpen, ForcesRecovery, Goto, Exit, Idle, keys, Shape, At, Opened, Serving,
     TypeOK, Databases
<1>8. ASSUME NEW p \in Processes, Rotate(p) PROVE Shape'
  BY <1>8 DEF Rotate, Exit, Idle, Shape, At, Opened, Serving, TypeOK, Databases
<1>9. ASSUME NEW p \in Processes, NEW r \in Records, Seal(p, r) PROVE Shape'
  BY <1>9 DEF Seal, keys, Shape, At, Opened, Serving, TypeOK, Databases
<1>10. ASSUME NEW p \in Processes, BeginResume(p) PROVE Shape'
  BY <1>10 DEF BeginResume, FirstOfResume, Goto, files, keys, Shape, At, Opened, Serving,
     TypeOK, Databases
<1>11. ASSUME NEW p \in Processes, RemoveMarker(p) PROVE Shape'
  BY <1>11 DEF RemoveMarker, Goto, keys, Shape, At, Opened, Serving, TypeOK, Databases
<1>12. ASSUME NEW p \in Processes, CommitResume(p) PROVE Shape'
  BY <1>12 DEF CommitResume, Goto, keys, Shape, At, Opened, Serving, TypeOK, Databases
<1>13. ASSUME NEW p \in Processes, Stop(p) PROVE Shape'
  BY <1>13 DEF Stop, Exit, Idle, files, keys, Shape, At, Opened, Serving, TypeOK, Databases
<1>14. ASSUME NEW p \in Processes, Crash(p) PROVE Shape'
  BY <1>14 DEF Crash, Exit, Idle, files, keys, Shape, At, Opened, Serving, TypeOK, Databases
<1>15. ASSUME NEW key \in Keys, Configure(key) PROVE Shape'
  BY <1>15 DEF Configure, files, Shape, At, Opened, Serving, TypeOK, Databases
<1>16. CASE CheckTarget
  BY <1>16 DEF CheckTarget, HandIsFree, IsFreeTarget, files, keys, Shape, At, Opened, Serving,
     TypeOK, Databases
<1>17. CASE Fetch
  BY <1>17 DEF Fetch, NoDatabase, files, keys, Shape, At, Opened, Serving, TypeOK, Databases
<1>18. CASE Move
  BY <1>18 DEF Move, NoDatabase, keys, Shape, At, Opened, Serving, TypeOK, Databases
<1>19. CASE Mark
  BY <1>19 DEF Mark, keys, Shape, At, Opened, Serving, TypeOK, Databases
<1>20. CASE EndScript
  BY <1>20 DEF EndScript, NoDatabase, keys, Shape, At, Opened, Serving, TypeOK, Databases
<1>21. CASE Replicate
  BY <1>21 DEF Replicate, files, keys, Shape, At, Opened, Serving, TypeOK, Databases
<1>22. CASE LoseVolume
  BY <1>22 DEF LoseVolume, NoDatabase, Idle, keys, Shape, At, Opened, Serving, TypeOK, Databases
<1>23. CASE UNCHANGED vars
  BY <1>23 DEF vars, files, keys, Shape, At, Opened, Serving, TypeOK, Databases
<1> QED
  BY <1>1, <1>2, <1>3, <1>4, <1>5, <1>6, <1>7, <1>8, <1>9, <1>10, <1>11, <1>12, <1>13, <1>14,
     <1>15, <1>16, <1>17, <1>18, <1>19, <1>20, <1>21, <1>22, <1>23 DEF Next

\* A restored copy stays held, by its marker, by its bits or by whoever opens it.
LEMMA HoldHolds == IInv /\ [Next]_vars => Hold'
<1> SUFFICES ASSUME IInv, [Next]_vars PROVE Hold' OBVIOUS
<1> TypeOK /\ Shape /\ Hold /\ Marking BY DEF IInv
<1> USE DEF Shape
<1>1. ASSUME NEW p \in Processes, NEW command \in {"server", "init", "rotate-key"},
             NEW recovery \in BOOLEAN, Start(p, command, recovery)
      PROVE  Hold'
  BY <1>1 DEF Start, files, keys, Hold, IsHeld, At, Opened, Serving, TypeOK, Databases
<1>2. ASSUME NEW p \in Processes, TakeLock(p) PROVE Hold'
  BY <1>2 DEF TakeLock, LockIsFree, Goto, Exit, Idle, files, keys, Hold, IsHeld, At, Opened,
     Serving, TypeOK, Databases
<1>3. ASSUME NEW p \in Processes, LookForMarker(p) PROVE Hold'
  BY <1>3 DEF LookForMarker, Forced, Exit, Idle, keys, Hold, IsHeld, At, Opened, Serving,
     TypeOK, Databases
<1>4. ASSUME NEW p \in Processes, OpenFile(p) PROVE Hold'
  BY <1>4 DEF OpenFile, Goto, Exit, Idle, keys, Hold, IsHeld, At, Opened, Serving, TypeOK,
     Databases
<1>5. ASSUME NEW p \in Processes, Install(p) PROVE Hold'
  BY <1>5 DEF Install, Goto, keys, Hold, IsHeld, At, Opened, Serving, TypeOK, Databases
<1>6. ASSUME NEW p \in Processes, CheckInstalled(p) PROVE Hold'
  BY <1>6 DEF CheckInstalled, Goto, Exit, Idle, files, keys, Hold, IsHeld, At, Opened, Serving,
     TypeOK, Databases
<1>7. ASSUME NEW p \in Processes, FinishOpen(p) PROVE Hold'
  BY <1>7 DEF FinishOpen, ForcesRecovery, Goto, Exit, Idle, keys, Hold, IsHeld, At, Opened,
     Serving, TypeOK, Databases
<1>8. ASSUME NEW p \in Processes, Rotate(p) PROVE Hold'
  BY <1>8 DEF Rotate, Exit, Idle, Hold, IsHeld, At, Opened, Serving, TypeOK, Databases
<1>9. ASSUME NEW p \in Processes, NEW r \in Records, Seal(p, r) PROVE Hold'
  BY <1>9 DEF Seal, keys, Hold, IsHeld, At, Opened, Serving, TypeOK, Databases
<1>10. ASSUME NEW p \in Processes, BeginResume(p) PROVE Hold'
  BY <1>10 DEF BeginResume, FirstOfResume, Goto, files, keys, Hold, IsHeld, At, Opened,
     Serving, TypeOK, Databases
<1>11. ASSUME NEW p \in Processes, RemoveMarker(p) PROVE Hold'
  BY <1>11 DEF RemoveMarker, Goto, keys, Hold, IsHeld, At, Opened, Serving, TypeOK, Databases
<1>12. ASSUME NEW p \in Processes, CommitResume(p) PROVE Hold'
  BY <1>12 DEF CommitResume, Goto, keys, Hold, IsHeld, At, Opened, Serving, TypeOK, Databases
<1>13. ASSUME NEW p \in Processes, Stop(p) PROVE Hold'
  BY <1>13 DEF Stop, Exit, Idle, files, keys, Hold, IsHeld, At, Opened, Serving, TypeOK,
     Databases
<1>14. ASSUME NEW p \in Processes, Crash(p) PROVE Hold'
  BY <1>14 DEF Crash, Exit, Idle, files, keys, Hold, IsHeld, At, Opened, Serving, TypeOK,
     Databases
<1>15. ASSUME NEW key \in Keys, Configure(key) PROVE Hold'
  BY <1>15 DEF Configure, files, Hold, IsHeld, At, Opened, Serving, TypeOK, Databases
<1>16. CASE CheckTarget
  BY <1>16 DEF CheckTarget, HandIsFree, IsFreeTarget, files, keys, Hold, IsHeld, At, Opened,
     Serving, TypeOK, Databases
<1>17. CASE Fetch
  BY <1>17 DEF Fetch, NoDatabase, files, keys, Hold, IsHeld, At, Opened, Serving, TypeOK,
     Databases
<1>18. CASE Move
  BY <1>18 DEF Move, NoDatabase, keys, Hold, IsHeld, At, Opened, Serving, TypeOK, Databases
<1>19. CASE Mark
  BY <1>19 DEF Mark, keys, Hold, IsHeld, At, Opened, Serving, TypeOK, Databases
<1>20. CASE EndScript
  BY <1>20 DEF EndScript, NoDatabase, keys, Hold, IsHeld, At, Opened, Serving, TypeOK, Databases
<1>21. CASE Replicate
  BY <1>21 DEF Replicate, files, keys, Hold, IsHeld, At, Opened, Serving, TypeOK, Databases
<1>22. CASE LoseVolume
  BY <1>22 DEF LoseVolume, NoDatabase, Idle, keys, Hold, IsHeld, At, Opened, Serving, TypeOK,
     Databases
<1>23. CASE UNCHANGED vars
  BY <1>23 DEF vars, files, keys, Hold, IsHeld, At, Opened, Serving, TypeOK, Databases
<1> QED
  BY <1>1, <1>2, <1>3, <1>4, <1>5, <1>6, <1>7, <1>8, <1>9, <1>10, <1>11, <1>12, <1>13, <1>14,
     <1>15, <1>16, <1>17, <1>18, <1>19, <1>20, <1>21, <1>22, <1>23 DEF Next

\* The marker comes while nobody serves, and goes before the bits.
LEMMA MarkingHolds == IInv /\ [Next]_vars => Marking'
<1> SUFFICES ASSUME IInv, [Next]_vars PROVE Marking' OBVIOUS
<1> TypeOK /\ Shape /\ Marking BY DEF IInv
<1> USE DEF Shape
<1>1. ASSUME NEW p \in Processes, NEW command \in {"server", "init", "rotate-key"},
             NEW recovery \in BOOLEAN, Start(p, command, recovery)
      PROVE  Marking'
  BY <1>1 DEF Start, files, keys, Marking, At, Opened, Serving, TypeOK, Databases
<1>2. ASSUME NEW p \in Processes, TakeLock(p) PROVE Marking'
  BY <1>2 DEF TakeLock, LockIsFree, Goto, Exit, Idle, files, keys, Marking, At, Opened,
     Serving, TypeOK, Databases
<1>3. ASSUME NEW p \in Processes, LookForMarker(p) PROVE Marking'
  BY <1>3 DEF LookForMarker, Forced, Exit, Idle, keys, Marking, At, Opened, Serving, TypeOK,
     Databases
<1>4. ASSUME NEW p \in Processes, OpenFile(p) PROVE Marking'
  BY <1>4 DEF OpenFile, Goto, Exit, Idle, keys, Marking, At, Opened, Serving, TypeOK, Databases
<1>5. ASSUME NEW p \in Processes, Install(p) PROVE Marking'
  BY <1>5 DEF Install, Goto, keys, Marking, At, Opened, Serving, TypeOK, Databases
<1>6. ASSUME NEW p \in Processes, CheckInstalled(p) PROVE Marking'
  BY <1>6 DEF CheckInstalled, Goto, Exit, Idle, files, keys, Marking, At, Opened, Serving,
     TypeOK, Databases
<1>7. ASSUME NEW p \in Processes, FinishOpen(p) PROVE Marking'
  BY <1>7 DEF FinishOpen, ForcesRecovery, Goto, Exit, Idle, keys, Marking, At, Opened, Serving,
     TypeOK, Databases
<1>8. ASSUME NEW p \in Processes, Rotate(p) PROVE Marking'
  BY <1>8 DEF Rotate, Exit, Idle, Marking, At, Opened, Serving, TypeOK, Databases
<1>9. ASSUME NEW p \in Processes, NEW r \in Records, Seal(p, r) PROVE Marking'
  BY <1>9 DEF Seal, keys, Marking, At, Opened, Serving, TypeOK, Databases
<1>10. ASSUME NEW p \in Processes, BeginResume(p) PROVE Marking'
  BY <1>10 DEF BeginResume, FirstOfResume, Goto, files, keys, Marking, At, Opened, Serving,
     TypeOK, Databases
<1>11. ASSUME NEW p \in Processes, RemoveMarker(p) PROVE Marking'
  BY <1>11 DEF RemoveMarker, Goto, keys, Marking, At, Opened, Serving, TypeOK, Databases
<1>12. ASSUME NEW p \in Processes, CommitResume(p) PROVE Marking'
  BY <1>12 DEF CommitResume, Goto, keys, Marking, At, Opened, Serving, TypeOK, Databases
<1>13. ASSUME NEW p \in Processes, Stop(p) PROVE Marking'
  BY <1>13 DEF Stop, Exit, Idle, files, keys, Marking, At, Opened, Serving, TypeOK, Databases
<1>14. ASSUME NEW p \in Processes, Crash(p) PROVE Marking'
  BY <1>14 DEF Crash, Exit, Idle, files, keys, Marking, At, Opened, Serving, TypeOK, Databases
<1>15. ASSUME NEW key \in Keys, Configure(key) PROVE Marking'
  BY <1>15 DEF Configure, files, Marking, At, Opened, Serving, TypeOK, Databases
<1>16. CASE CheckTarget
  BY <1>16 DEF CheckTarget, HandIsFree, IsFreeTarget, files, keys, Marking, At, Opened,
     Serving, TypeOK, Databases
<1>17. CASE Fetch
  BY <1>17 DEF Fetch, NoDatabase, files, keys, Marking, At, Opened, Serving, TypeOK, Databases
<1>18. CASE Move
  <2>1. \A p \in Processes : process[p].step \in {"idle", "lock", "marker", "open"}
    BY <1>18 DEF Move, Opened, Serving, TypeOK, Steps, Opening
  <2>2. ~unmarked' => \A p \in Processes : process'[p].step \in {"idle", "lock", "marker"}
    BY <1>18, <2>1 DEF Move, At
  <2> QED BY <1>18, <2>1, <2>2 DEF Move, Marking, At
<1>19. CASE Mark
  BY <1>19 DEF Mark, keys, Marking, At, Opened, Serving, TypeOK, Databases
<1>20. CASE EndScript
  BY <1>20 DEF EndScript, NoDatabase, keys, Marking, At, Opened, Serving, TypeOK, Databases
<1>21. CASE Replicate
  BY <1>21 DEF Replicate, files, keys, Marking, At, Opened, Serving, TypeOK, Databases
<1>22. CASE LoseVolume
  BY <1>22 DEF LoseVolume, NoDatabase, Idle, keys, Marking, At, Opened, Serving, TypeOK,
     Databases
<1>23. CASE UNCHANGED vars
  BY <1>23 DEF vars, files, keys, Marking, At, Opened, Serving, TypeOK, Databases
<1> QED
  BY <1>1, <1>2, <1>3, <1>4, <1>5, <1>6, <1>7, <1>8, <1>9, <1>10, <1>11, <1>12, <1>13, <1>14,
     <1>15, <1>16, <1>17, <1>18, <1>19, <1>20, <1>21, <1>22, <1>23 DEF Next

\* Every copy opens with one key.
LEMMA CopiesHold == IInv /\ [Next]_vars => Copies'
<1> SUFFICES ASSUME IInv, [Next]_vars PROVE Copies' OBVIOUS
<1> TypeOK /\ Shape /\ Copies BY DEF IInv
<1>k. 1 \in Keys
  BY ConstantsOK DEF Keys
<1>1. ASSUME NEW p \in Processes, NEW command \in {"server", "init", "rotate-key"},
             NEW recovery \in BOOLEAN, Start(p, command, recovery)
      PROVE  Copies'
  BY <1>1 DEF Start, files, keys, Copies, Agree, Opens, IsServing, Serving, At, TypeOK,
     Databases
<1>2. ASSUME NEW p \in Processes, TakeLock(p) PROVE Copies'
  BY <1>2 DEF TakeLock, LockIsFree, Goto, Exit, Idle, files, keys, Copies, Agree, Opens,
     IsServing, Serving, At, TypeOK, Databases
<1>3. ASSUME NEW p \in Processes, LookForMarker(p) PROVE Copies'
  BY <1>3 DEF LookForMarker, Forced, Exit, Idle, keys, Copies, Agree, Opens, IsServing,
     Serving, At, TypeOK, Databases
<1>4. ASSUME NEW p \in Processes, OpenFile(p) PROVE Copies'
  BY <1>4 DEF OpenFile, Goto, Exit, Idle, keys, Copies, Agree, Opens, IsServing, Serving, At,
     TypeOK, Databases
<1>5. ASSUME NEW p \in Processes, Install(p) PROVE Copies'
  BY <1>5 DEF Install, Goto, keys, Copies, Agree, Opens, IsServing, Serving, At, TypeOK,
     Databases
<1>6. ASSUME NEW p \in Processes, CheckInstalled(p) PROVE Copies'
  BY <1>6 DEF CheckInstalled, Goto, Exit, Idle, files, keys, Copies, Agree, Opens, IsServing,
     Serving, At, TypeOK, Databases
<1>7. ASSUME NEW p \in Processes, FinishOpen(p) PROVE Copies'
  <2>1. db'.sealed = db.sealed
    BY <1>7 DEF FinishOpen, TypeOK, Databases
  <2>2. \A q \in Processes : q /= p => process'[q] = process[q]
    BY <1>7 DEF FinishOpen, Goto, Exit, TypeOK
  <2>3. ~stale' => ~stale /\ (IsServing(p)' => \A r \in Records : Opens(process'[p].key, r))
    <3>1. CASE /\ Goto(p, "serving")
               /\ stale' = (stale \/ \E r \in Records : ~Opens(process[p].key, r))
      <4>1. process'[p].key = process[p].key
        BY <3>1 DEF Goto, TypeOK
      <4> QED BY <3>1, <4>1
    <3>2. CASE stale' = stale /\ (Goto(p, "rotate") \/ Exit(p))
      BY <3>2 DEF Goto, Exit, Idle, IsServing, Serving, TypeOK
    <3> QED BY <1>7, <3>1, <3>2 DEF FinishOpen
  <2> QED BY <1>7, <2>1, <2>2, <2>3 DEF FinishOpen, keys, Copies, Agree, Opens, IsServing
<1>8. ASSUME NEW p \in Processes, Rotate(p) PROVE Copies'
  <2>1. \A q \in Processes : ~IsServing(q)'
    BY <1>8 DEF Rotate, Exit, Idle, IsServing, Serving, At, TypeOK
  <2>2. CASE db' = db
    BY <1>8, <2>1, <2>2 DEF Rotate, Copies, Agree
  <2>3. CASE made < MaxKeys /\ \E sealed \in Resealed(process[p].key, made + 1) :
                                db' = [db EXCEPT !.sealed = sealed]
    <3>1. PICK sealed \in Resealed(process[p].key, made + 1) :
            db' = [db EXCEPT !.sealed = sealed]
      BY <2>3
    <3>2. made + 1 \in Keys /\ process[p].key \in Keys
      BY <2>3, ConstantsOK DEF TypeOK, Keys
    <3>3. db'.sealed = With(made + 1, Sealed)
      BY <3>1, <3>2, ResealedType DEF TypeOK, Databases
    <3>4. Agree(db)'
      BY <3>2, <3>3 DEF Agree, With, Sealed
    <3> QED BY <1>8, <2>1, <3>4 DEF Rotate, Copies, Agree
  <2> QED BY <1>8, <2>2, <2>3 DEF Rotate
<1>9. ASSUME NEW p \in Processes, NEW r \in Records, Seal(p, r) PROVE Copies'
  BY <1>9 DEF Seal, keys, Copies, Agree, Opens, IsServing, Serving, At, TypeOK, Databases
<1>10. ASSUME NEW p \in Processes, BeginResume(p) PROVE Copies'
  BY <1>10 DEF BeginResume, FirstOfResume, Goto, files, keys, Copies, Agree, Opens, IsServing,
     Serving, At, TypeOK, Databases
<1>11. ASSUME NEW p \in Processes, RemoveMarker(p) PROVE Copies'
  BY <1>11 DEF RemoveMarker, Goto, keys, Copies, Agree, Opens, IsServing, Serving, At, TypeOK,
     Databases
<1>12. ASSUME NEW p \in Processes, CommitResume(p) PROVE Copies'
  <2>1. db'.sealed = db.sealed
    BY <1>12 DEF CommitResume, TypeOK, Databases
  <2>2. \A q \in Processes : process'[q].key = process[q].key /\ (IsServing(q)' => IsServing(q))
    BY <1>12 DEF CommitResume, Goto, IsServing, Serving, At, TypeOK
  <2> QED BY <1>12, <2>1, <2>2 DEF CommitResume, keys, Copies, Agree, Opens
<1>13. ASSUME NEW p \in Processes, Stop(p) PROVE Copies'
  BY <1>13 DEF Stop, Exit, Idle, files, keys, Copies, Agree, Opens, IsServing, Serving, At,
     TypeOK, Databases
<1>14. ASSUME NEW p \in Processes, Crash(p) PROVE Copies'
  BY <1>14 DEF Crash, Exit, Idle, files, keys, Copies, Agree, Opens, IsServing, Serving, At,
     TypeOK, Databases
<1>15. ASSUME NEW key \in Keys, Configure(key) PROVE Copies'
  BY <1>15 DEF Configure, files, Copies, Agree, Opens, IsServing, Serving, At, TypeOK, Databases
<1>16. CASE CheckTarget
  BY <1>16 DEF CheckTarget, HandIsFree, IsFreeTarget, files, keys, Copies, Agree, Opens,
     IsServing, Serving, At, TypeOK, Databases
<1>17. CASE Fetch
  BY <1>17 DEF Fetch, NoDatabase, files, keys, Copies, Agree, Opens, IsServing, Serving, At,
     TypeOK, Databases
<1>18. CASE Move
  <2>1. \A p \in Processes : ~IsServing(p)'
    BY <1>18 DEF Move, Shape, Opened, IsServing
  <2>2. Agree(NoDatabase)
    BY <1>k DEF Agree, NoDatabase
  <2> QED BY <1>18, <2>1, <2>2 DEF Move, keys, Copies, Agree
<1>19. CASE Mark
  BY <1>19 DEF Mark, keys, Copies, Agree, Opens, IsServing, Serving, At, TypeOK, Databases
<1>20. CASE EndScript
  BY <1>20 DEF EndScript, NoDatabase, keys, Copies, Agree, Opens, IsServing, Serving, At,
     TypeOK, Databases
<1>21. CASE Replicate
  BY <1>21 DEF Replicate, files, keys, Copies, Agree, Opens, IsServing, Serving, At, TypeOK,
     Databases
<1>22. CASE LoseVolume
  BY <1>22 DEF LoseVolume, NoDatabase, Idle, keys, Copies, Agree, Opens, IsServing, Serving,
     At, TypeOK, Databases
<1>23. CASE UNCHANGED vars
  BY <1>23 DEF vars, files, keys, Copies, Agree, Opens, IsServing, Serving, At, TypeOK,
     Databases
<1> QED
  BY <1>1, <1>2, <1>3, <1>4, <1>5, <1>6, <1>7, <1>8, <1>9, <1>10, <1>11, <1>12, <1>13, <1>14,
     <1>15, <1>16, <1>17, <1>18, <1>19, <1>20, <1>21, <1>22, <1>23 DEF Next

-----------------------------------------------------------------------------
(* Theorems *)

LEMMA InvariantHolds == Spec => []IInv
<1>1. Init => IInv
  BY InitiallyHolds
<1>2. IInv /\ [Next]_vars => IInv'
  BY TypeHolds, ShapeHolds, HoldHolds, MarkingHolds, CopiesHold DEF IInv
<1> QED BY <1>1, <1>2, PTL DEF Spec

\* Every variable keeps its type; one process at most is past the lock.
THEOREM TypeCorrect == Spec => []TypeOK
<1>1. IInv => TypeOK
  BY DEF IInv
<1> QED BY <1>1, InvariantHolds, PTL

\* A restored copy is held until it is resumed: on the volume, whatever dies or
\* fails, and under every server that runs on it.
THEOREM RestoredCopiesAreHeld == Spec => []RestoredIsHeld
<1>1. IInv => RestoredIsHeld
  BY DEF IInv, Hold, RestoredIsHeld, IsServing
<1> QED BY <1>1, InvariantHolds, PTL

\* After a resume no marker pauses the next start.
THEOREM ResumeIsFinal == Spec => []ResumeLasts
<1>1. IInv => ResumeLasts
  BY DEF IInv, Marking, ResumeLasts
<1> QED BY <1>1, InvariantHolds, PTL

\* The records never need two keys.
THEOREM OneKeyOpens == Spec => []KeysAgree
<1>1. IInv => KeysAgree
  BY DEF IInv, Copies, Agree, Opens, KeysAgree
<1> QED BY <1>1, InvariantHolds, PTL
=============================================================================
