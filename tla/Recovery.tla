------------------------------ MODULE Recovery ------------------------------
(***************************************************************************)
(* The life of a database volume: processes that compete for its lock and  *)
(* open the database statement by statement, the restore script beside     *)
(* them, the recovery marker, the audited resume, and the rotation of the  *)
(* key that seals the registry's records.  Everything may die anywhere.    *)
(* The service restarts by itself; init, rotate-key and the restore are    *)
(* run by hand, one at a time.                                             *)
(***************************************************************************)
EXTENDS Naturals, FiniteSets

CONSTANTS
  Processes,
  Records,      \* registry records
  Nobody,
  BatchLimit,   \* records a rotation is willing to seal again
  MaxKeys,      \* bound: encryption keys made
  MaxTrouble    \* bound: crashes, failing steps, lost volumes, wrong keys

ASSUME ConstantsOK ==
  /\ Nobody \notin Processes
  /\ BatchLimit \in Nat /\ MaxKeys \in Nat \ {0} /\ MaxTrouble \in Nat

VARIABLES
  db,        \* the database file: installation row, recovery bits, key of each record
  marker,    \* <db>.recovery-required exists
  lock,      \* who holds the flock on <db>.lock
  process,   \* step, command, key and cfg.Recovery, per process
  script,    \* restore.sh: step and the database it fetched
  backup,    \* the newest database in the replica
  env,       \* MRKT_ENCRYPTION_KEY
  made,      \* keys made so far: 1..made
  origin,    \* history: where this copy comes from: "made", "restored" or "reconciled"
  unmarked,  \* history: this copy's marker was never put, or after a process had looked
  stale,     \* history: a server was started with a key that does not open a record
  trouble    \* what is left of the bound

files == <<db, marker, origin, unmarked>>
keys == <<env, made>>
vars == <<files, lock, process, script, backup, keys, stale, trouble>>

Keys == 1..MaxKeys
NoKey == 0
Databases ==
  [file : BOOLEAN, installed : BOOLEAN, recovery : BOOLEAN, paused : BOOLEAN,
   sealed : [Records -> Keys \cup {NoKey}]]
NoDatabase ==
  [file |-> FALSE, installed |-> FALSE, recovery |-> FALSE, paused |-> FALSE,
   sealed |-> [r \in Records |-> NoKey]]

Serving == {"serving", "remove", "commit"}
Opening == {"marker", "open", "install", "check", "force"}
Steps == {"idle", "lock"} \cup Opening \cup {"rotate"} \cup Serving
Idle == [step |-> "idle", command |-> "server", key |-> 1, forced |-> FALSE]

TypeOK ==
  /\ db \in Databases /\ backup \in Databases
  /\ marker \in BOOLEAN /\ unmarked \in BOOLEAN /\ stale \in BOOLEAN
  /\ lock \in Processes \cup {Nobody}
  /\ process \in [Processes -> [step : Steps, command : {"server", "init", "rotate-key"},
                                key : Keys, forced : BOOLEAN]]
  /\ script \in [step : {"idle", "fetch", "move", "mark"}, copy : Databases]
  /\ env \in Keys /\ made \in Keys
  /\ origin \in {"made", "restored", "reconciled"}
  /\ trouble \in 0..MaxTrouble
  /\ \A p \in Processes : process[p].step \notin {"idle", "lock"} <=> lock = p

Init ==
  /\ db = NoDatabase /\ backup = NoDatabase
  /\ marker = FALSE /\ unmarked = FALSE /\ stale = FALSE
  /\ lock = Nobody
  /\ process = [p \in Processes |-> Idle]
  /\ script = [step |-> "idle", copy |-> NoDatabase]
  /\ env = 1 /\ made = 1
  /\ origin = "made"
  /\ trouble = MaxTrouble

-----------------------------------------------------------------------------
(* Helpers *)

Trouble == trouble > 0 /\ trouble' = trouble - 1
At(p, step) == process[p].step = step
Goto(p, step) == process' = [process EXCEPT ![p].step = step]
IsServing(p) == process[p].step \in Serving
HandIsFree ==
  script.step = "idle" /\ \A p \in Processes : At(p, "idle") \/ process[p].command = "server"

\* The process ends; the kernel releases its lock.
Exit(p) ==
  /\ process' = [process EXCEPT ![p] = Idle]
  /\ lock' = IF lock = p THEN Nobody ELSE lock

Opens(key, record) == db.sealed[record] \in {NoKey, key}

-----------------------------------------------------------------------------
(* Starting a process: server, server init or server rotate-key *)

Start(p, command, recovery) ==
  /\ At(p, "idle")
  /\ command /= "server" => HandIsFree
  /\ process' = [process EXCEPT ![p] =
       [step |-> "lock", command |-> command, key |-> env, forced |-> recovery]]
  /\ UNCHANGED <<files, lock, script, backup, keys, stale, trouble>>

LockIsFree == lock = Nobody

\* LOCK_EX|LOCK_NB: a second process gives up at once.
TakeLock(p) ==
  /\ At(p, "lock")
  /\ IF LockIsFree THEN lock' = p /\ Goto(p, "marker") ELSE Exit(p)
  /\ UNCHANGED <<files, script, backup, keys, stale, trouble>>

ForcedByEnvironment(p) == process[p].forced
Forced(p) == process[p].forced \/ marker

\* engine.Open looks for the marker first; an error of stat ends it.
LookForMarker(p) ==
  /\ At(p, "marker")
  /\ \/ /\ process' = [process EXCEPT ![p].step = "open", ![p].forced = Forced(p)]
        /\ unmarked' = (unmarked \/ (script.step = "mark" /\ ~marker))
        /\ UNCHANGED <<lock, trouble>>
     \/ Trouble /\ Exit(p) /\ UNCHANGED unmarked
  /\ UNCHANGED <<db, marker, origin, script, backup, keys, stale>>

\* A missing database is created by init only; then configure and migrate.
OpenFile(p) ==
  /\ At(p, "open")
  /\ IF db.file \/ process[p].command = "init"
     THEN /\ db' = [db EXCEPT !.file = TRUE]
          /\ Goto(p, IF process[p].command = "init" THEN "install" ELSE "check")
          /\ UNCHANGED lock
     ELSE Exit(p) /\ UNCHANGED db
  /\ UNCHANGED <<marker, origin, unmarked, script, backup, keys, stale, trouble>>

\* init writes the installation row, once.
Install(p) ==
  /\ At(p, "install")
  /\ db' = IF db.installed THEN db
           ELSE [db EXCEPT !.installed = TRUE, !.recovery = process[p].forced,
                           !.paused = process[p].forced]
  /\ Goto(p, "check")
  /\ UNCHANGED <<marker, origin, unmarked, lock, script, backup, keys, stale, trouble>>

CheckInstalled(p) ==
  /\ At(p, "check")
  /\ IF db.installed THEN Goto(p, "force") /\ UNCHANGED lock ELSE Exit(p)
  /\ UNCHANGED <<files, script, backup, keys, stale, trouble>>

ForcesRecovery(p) == process[p].forced

\* The last statement of Open; then the command.
FinishOpen(p) ==
  /\ At(p, "force")
  /\ db' = IF ForcesRecovery(p) THEN [db EXCEPT !.recovery = TRUE, !.paused = TRUE] ELSE db
  /\ \/ /\ process[p].command = "server" /\ Goto(p, "serving")
        /\ stale' = (stale \/ \E r \in Records : ~Opens(process[p].key, r))
        /\ UNCHANGED lock
     \/ /\ process[p].command = "rotate-key" /\ Goto(p, "rotate")
        /\ UNCHANGED <<lock, stale>>
     \/ /\ process[p].command = "init" /\ Exit(p)
        /\ UNCHANGED stale
  /\ UNCHANGED <<marker, origin, unmarked, script, backup, keys, trouble>>

-----------------------------------------------------------------------------
(* A running server *)

\* A transport, domain or webhook is registered.
Seal(p, r) ==
  /\ At(p, "serving") /\ db.sealed[r] = NoKey
  /\ db' = [db EXCEPT !.sealed[r] = process[p].key]
  /\ UNCHANGED <<marker, origin, unmarked, lock, process, script, backup, keys, stale, trouble>>

\* Resume with reconciled and a note: a transaction that removes the marker
\* before it commits the bits and the audit row.
FirstOfResumeSwapped == "commit"
FirstOfResume == "remove"

BeginResume(p) ==
  /\ At(p, "serving")
  /\ Goto(p, FirstOfResume)
  /\ UNCHANGED <<files, lock, script, backup, keys, stale, trouble>>

RemoveMarker(p) ==
  /\ At(p, "remove")
  /\ \/ marker' = FALSE /\ Goto(p, "commit") /\ UNCHANGED trouble
     \/ Trouble /\ Goto(p, "serving") /\ UNCHANGED marker
  /\ UNCHANGED <<db, origin, unmarked, lock, script, backup, keys, stale>>

CommitResume(p) ==
  /\ At(p, "commit")
  /\ \/ /\ db' = [db EXCEPT !.recovery = FALSE, !.paused = FALSE]
        /\ origin' = IF origin = "restored" THEN "reconciled" ELSE origin
        /\ UNCHANGED trouble
     \/ Trouble /\ UNCHANGED <<db, origin>>
  /\ Goto(p, "serving")
  /\ UNCHANGED <<marker, unmarked, lock, script, backup, keys, stale>>

Stop(p) ==
  /\ At(p, "serving")
  /\ Exit(p)
  /\ UNCHANGED <<files, script, backup, keys, stale, trouble>>

-----------------------------------------------------------------------------
(* server rotate-key *)

Sealed == {r \in Records : db.sealed[r] /= NoKey}
With(key, some) == [r \in Records |-> IF r \in some THEN key ELSE db.sealed[r]]

ResealedBatch(old, new) ==
  {With(new, some) : some \in {x \in SUBSET Sealed : Cardinality(x) <= BatchLimit
                                                  /\ \A r \in x : Opens(old, r)}}

\* Every record is opened with the old key and sealed with the new one, in one
\* transaction; one that does not open, or too many, and nothing happens.
Resealed(old, new) ==
  IF Cardinality(Sealed) <= BatchLimit /\ \A r \in Records : Opens(old, r)
  THEN {With(new, Sealed)} ELSE {}

Rotate(p) ==
  /\ At(p, "rotate")
  /\ \/ /\ made < MaxKeys /\ made' = made + 1
        /\ \E sealed \in Resealed(process[p].key, made + 1) :
             db' = [db EXCEPT !.sealed = sealed]
     \/ UNCHANGED <<db, made>>
  /\ Exit(p)
  /\ UNCHANGED <<marker, origin, unmarked, script, backup, env, stale, trouble>>

\* The operator configures the newest key, which is a mistake if its rotation
\* failed, or another one that was kept, which is right for an old backup.
Configure(key) ==
  /\ key \in 1..made /\ env' = key /\ env /= key
  /\ UNCHANGED <<files, lock, process, script, backup, made, stale, trouble>>

-----------------------------------------------------------------------------
(* restore.sh, which does not take the lock *)

IsFreeTarget == ~db.file

CheckTarget ==
  /\ HandIsFree /\ IsFreeTarget
  /\ script' = [script EXCEPT !.step = "fetch"]
  /\ UNCHANGED <<files, lock, process, backup, keys, stale, trouble>>

\* litestream restore and the test of its output; a missing backup ends the script.
Fetch ==
  /\ script.step = "fetch"
  /\ script' = IF backup.file THEN [step |-> "move", copy |-> backup]
               ELSE [step |-> "idle", copy |-> NoDatabase]
  /\ UNCHANGED <<files, lock, process, backup, keys, stale, trouble>>

\* A server that has looked for the marker, and not yet for the database, is early.
Move ==
  /\ script.step = "move"
  /\ db' = script.copy /\ origin' = "restored"
  /\ unmarked' = \E p \in Processes : At(p, "open")
  /\ script' = [step |-> "mark", copy |-> NoDatabase]
  /\ UNCHANGED <<marker, lock, process, backup, keys, stale, trouble>>

Mark ==
  /\ script.step = "mark"
  /\ marker' = TRUE
  /\ script' = [script EXCEPT !.step = "idle"]
  /\ UNCHANGED <<db, origin, unmarked, lock, process, backup, keys, stale, trouble>>

\* A step fails, or the script is killed; the trap removes the partial file.
EndScript ==
  /\ script.step /= "idle" /\ Trouble
  /\ script' = [step |-> "idle", copy |-> NoDatabase]
  /\ unmarked' = (unmarked \/ (script.step = "mark" /\ ~marker))
  /\ UNCHANGED <<db, marker, origin, lock, process, backup, keys, stale>>

-----------------------------------------------------------------------------
(* The world *)

\* Litestream copies the database, some time after its commits.
Replicate ==
  /\ db.installed /\ backup' = db
  /\ UNCHANGED <<files, lock, process, script, keys, stale, trouble>>

Crash(p) ==
  /\ ~At(p, "idle") /\ Trouble
  /\ Exit(p)
  /\ UNCHANGED <<files, script, backup, keys, stale>>

\* The host is lost, or fenced; a new, empty volume takes its place.
LoseVolume ==
  /\ Trouble
  /\ db' = NoDatabase /\ marker' = FALSE /\ unmarked' = FALSE /\ origin' = "made"
  /\ lock' = Nobody /\ process' = [p \in Processes |-> Idle]
  /\ script' = [step |-> "idle", copy |-> NoDatabase]
  /\ UNCHANGED <<backup, keys, stale>>

Next ==
  \/ \E p \in Processes :
       \/ \E command \in {"server", "init", "rotate-key"}, recovery \in BOOLEAN :
            Start(p, command, recovery)
       \/ TakeLock(p) \/ LookForMarker(p) \/ OpenFile(p) \/ Install(p)
       \/ CheckInstalled(p) \/ FinishOpen(p) \/ Rotate(p)
       \/ \E r \in Records : Seal(p, r)
       \/ BeginResume(p) \/ RemoveMarker(p) \/ CommitResume(p) \/ Stop(p) \/ Crash(p)
  \/ \E key \in Keys : Configure(key)
  \/ CheckTarget \/ Fetch \/ Move \/ Mark \/ EndScript \/ Replicate \/ LoseVolume

Spec == Init /\ [][Next]_vars

-----------------------------------------------------------------------------
(* Properties *)

IsHeld == db.recovery /\ db.paused

\* README.md: "Restored databases start paused.  An operator must reconcile ...
\* before audited resume", and operations.go, resume: "If the subsequent commit
\* fails, the database's recovery bit still fails safe".  Whatever dies whenever, a
\* restored copy that was not resumed is held by its marker or by its bits, so the
\* next start is held too, and a server that runs on it is held by the bits, unless
\* the marker was never put or came too late.
RestoredIsHeld ==
  origin = "restored" /\ ~unmarked =>
    /\ script.step /= "mark" => marker \/ IsHeld
    /\ \A p \in Processes : IsServing(p) => IsHeld

\* A resume is for good: no marker is left that would pause the next start.
ResumeLasts == origin = "reconciled" /\ ~unmarked => ~marker

\* No rotation leaves records under two keys, runs under a server that has the
\* old key, or is half applied, as long as no server was started with a key
\* that did not fit.
KeysAgree ==
  ~stale =>
    /\ \E key \in Keys : \A r \in Records : Opens(key, r)
    /\ \A p \in Processes : IsServing(p) => \A r \in Records : Opens(process[p].key, r)
=============================================================================
