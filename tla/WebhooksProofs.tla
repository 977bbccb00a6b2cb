--------------------------- MODULE WebhooksProofs ---------------------------
(***************************************************************************)
(* Theorems about module Webhooks, for any events, endpoints and           *)
(* subscriptions and any bounds.  Each part of the inductive invariant has *)
(* a lemma of its own, with one step per action; InvariantHolds joins them.*)
(***************************************************************************)
EXTENDS Webhooks, TLAPS

Holding == {"endpoint", "stops", "post", "log", "record"}
Asking  == {"endpoint", "stops", "post"}

\* The row the worker holds is leased under the attempt it was claimed for.  Nothing
\* takes it away: a replay leaves leased rows alone, and leases lapse between Ticks.
Held ==
  /\ pc \in Holding => /\ at \in Keys /\ row[at] = "sending" /\ attempt[at] = mine
                       /\ attempts[at] = before + 1
  /\ pc \notin Holding => at = NoRow

\* The answer on the row is the one to the attempt in progress.
Heard ==
  /\ pc \in Asking => answer[at] = "silent"
  /\ pc \in {"log", "record"} =>
       \/ status = "ok" /\ answer[at] = "accepted"
       \/ status = "refused" /\ answer[at] = "refused"
       \/ status = "failed" /\ answer[at] = "silent"

\* The attempts of a row are numbered in order.
Numbered ==
  /\ \A k \in Keys : \A id \in posted[k] : id <= attempt[k]
  /\ pc \in Asking => \A id \in posted[at] : id < mine

\* Every failure belongs to a claim of its own, and leaves room for the last one.
Tallied ==
  \A k \in Keys :
    /\ failures[k] <= attempts[k]
    /\ row[k] = "sending" => failures[k] < attempts[k]
    /\ row[k] \in {"none", "pending", "sending"} => failures[k] < MaxAttempts

\* The history of the attempt that is about to settle its row is there.
Written == pc = "record" => mine \in logged[at]

\* Where the endpoints and the stops stand during a Tick.
Stopped ==
  /\ \A k \in Keys : row[k] /= "none" => endpoint[k[2]] /= "none"
  /\ pc \in {"fanout", "claim"} \cup Holding => "installation" \notin stops
  /\ \A k \in Keys : Postable(k) => latePosts[k] = 0
  /\ pc = "endpoint" => latePosts[at] = 0 \/ endpoint[at[2]] = "disabled"
  /\ pc \in {"stops", "post"} => latePosts[at] = 0

IInv ==
  /\ TypeOK /\ Held /\ Heard /\ Numbered /\ Tallied /\ Written /\ Stopped
  /\ DeliveredWasAccepted /\ AbandonedInTurn /\ StopLetsOnePostOut /\ SettledIsInspectable

-----------------------------------------------------------------------------
(* Lemmas *)

LEMMA InitiallyHolds == Init => IInv
<1> SUFFICES ASSUME Init PROVE IInv OBVIOUS
<1> USE ConstantsOK DEF Init
<1>1. TypeOK
  <2>1. outbox \in [Events -> {"none", "pending", "distributed"}] /\ stops \subseteq {"project", "installation"}
        /\ endpoint \in [Endpoints -> {"none", "enabled", "disabled"}]
    OBVIOUS
  <2>2. row \in [Keys -> RowStates] /\ due \subseteq Keys /\ at \in Keys \cup {NoRow}
    BY DEF RowStates
  <2>3. attempts \in [Keys -> Nat] /\ attempt \in [Keys -> Nat] /\ logged \in [Keys -> SUBSET Nat]
        /\ before \in Nat /\ mine \in Nat
    OBVIOUS
  <2>4. pc \in Steps /\ status \in Statuses /\ round \in 0..PerTick /\ budget \in 0..MaxDisturbances
    BY DEF Steps, Statuses
  <2>5. answer \in [Keys -> {"silent", "accepted", "refused"}] /\ posted \in [Keys -> SUBSET Nat]
        /\ failures \in [Keys -> Nat] /\ latePosts \in [Keys -> Nat]
    OBVIOUS
  <2> QED BY <2>1, <2>2, <2>3, <2>4, <2>5 DEF TypeOK
<1>2. Held /\ Heard /\ Numbered /\ Tallied /\ Written
  BY DEF Held, Heard, Numbered, Tallied, Written, Holding, Asking
<1>3. Stopped
  BY DEF Stopped, Postable, Holding
<1>4. DeliveredWasAccepted /\ AbandonedInTurn /\ StopLetsOnePostOut /\ SettledIsInspectable
  BY DEF DeliveredWasAccepted, AbandonedInTurn, StopLetsOnePostOut, SettledIsInspectable
<1> QED BY <1>1, <1>2, <1>3, <1>4 DEF IInv


\* Types.
LEMMA TypeHolds == IInv /\ [Next]_vars => TypeOK'
<1> SUFFICES ASSUME IInv, [Next]_vars PROVE TypeOK' OBVIOUS
<1> TypeOK /\ Held BY DEF IInv
<1>t. Disturb => budget' \in 0..MaxDisturbances
  BY ConstantsOK DEF Disturb, TypeOK
<1>1. ASSUME NEW e \in Events, Emit(e) PROVE TypeOK'
  BY <1>1 DEF Emit, vars, gates, claims, rows, held, worker, history, TypeOK, Steps, Statuses
<1>2. ASSUME NEW p \in Endpoints, CreateEndpoint(p) PROVE TypeOK'
  BY <1>2 DEF CreateEndpoint, Recount, vars, gates, claims, rows, held, worker, history,
     TypeOK, Steps, Statuses
<1>3. ASSUME NEW p \in Endpoints, DeleteEndpoint(p) PROVE TypeOK'
  BY <1>3, <1>t DEF DeleteEndpoint, vars, gates, claims, rows, held, worker, history, TypeOK,
     Steps, Statuses
<1>4. CASE PauseProject
  BY <1>4, <1>t DEF PauseProject, vars, gates, claims, rows, held, worker, history, TypeOK,
     Steps, Statuses
<1>5. ASSUME NEW stop \in {"project", "installation"}, Resume(stop) PROVE TypeOK'
  BY <1>5 DEF Resume, Recount, vars, gates, claims, rows, held, worker, history, TypeOK, Steps,
     Statuses
<1>6. ASSUME NEW k \in Keys, Replay(k) PROVE TypeOK'
  BY <1>6, <1>t DEF Replay, MayReplay, ForgetAttempts, vars, gates, claims, rows, held, worker,
     history, TypeOK, Steps, Statuses, RowStates
<1>7. CASE StartTick
  <2>1. round' \in 0..PerTick
    BY <1>7, ConstantsOK DEF StartTick
  <2> QED BY <1>7, <2>1 DEF StartTick, Goto, vars, gates, claims, rows, held, worker, history,
     TypeOK, Steps
<1>8. CASE FanOut
  <2>1. PICK batch \in SUBSET {e \in Events : outbox[e] = "pending"}, unread \in SUBSET Wanted :
          LET new == {k \in Wanted \ unread :
                        k[1] \in batch /\ endpoint[k[2]] = "enabled" /\ row[k] = "none"}
          IN
          /\ row' = [k \in Keys |-> IF k \in new THEN "pending" ELSE row[k]]
          /\ due' = due \cup new
          /\ outbox' = [e \in Events |-> IF e \in batch THEN "distributed" ELSE outbox[e]]
    BY <1>8 DEF FanOut
  <2>2. row' \in [Keys -> RowStates] /\ due' \subseteq Keys
    BY <2>1, ConstantsOK DEF TypeOK, RowStates
  <2>3. outbox' \in [Events -> {"none", "pending", "distributed"}]
    BY <2>1 DEF TypeOK
  <2>4. budget' \in 0..MaxDisturbances
    <3>1. budget' = budget \/ Disturb
      BY <1>8 DEF FanOut
    <3> QED BY <3>1, ConstantsOK DEF Disturb, TypeOK
  <2> QED BY <1>8, <2>2, <2>3, <2>4 DEF FanOut, Goto, vars, gates, claims, rows, held, worker,
     history, TypeOK, Steps
<1>9. ASSUME NEW k \in Keys, Claim(k) PROVE TypeOK'
  <2>1. round' \in 0..PerTick
    BY <1>9, ConstantsOK DEF Claim, TypeOK
  <2>2. row' \in [Keys -> RowStates] /\ due' \subseteq Keys
    BY <1>9 DEF Claim, TypeOK, RowStates
  <2>3. attempts' \in [Keys -> Nat] /\ attempt' \in [Keys -> Nat] /\ at' \in Keys /\ before' \in Nat /\ mine' \in Nat
    BY <1>9 DEF Claim, NewAttempt, TypeOK
  <2>4. answer' \in [Keys -> {"silent", "accepted", "refused"}] /\ status' \in Statuses /\ pc' \in Steps
    BY <1>9 DEF Claim, Goto, TypeOK, Statuses, Steps
  <2> QED BY <1>9, <2>1, <2>2, <2>3, <2>4 DEF Claim, vars, gates, claims, rows, held, worker,
     history, TypeOK
<1>10. CASE EndLoop
  BY <1>10 DEF EndLoop, LeaveLoop, Goto, vars, gates, claims, rows, held, worker, history,
     TypeOK, Steps, Statuses
<1>11. CASE ReadEndpoint
  BY <1>11 DEF ReadEndpoint, IsEnabled, Goto, vars, gates, claims, rows, held, worker, history,
     TypeOK, Steps, Statuses
<1>12. CASE CheckStops
  <2>1. at \in Keys
    BY <1>12 DEF CheckStops, Held, Holding
  <2>2. row' \in [Keys -> RowStates] /\ due' \subseteq Keys
    BY <1>12, <2>1 DEF CheckStops, TypeOK, RowStates
  <2> QED BY <1>12, <2>2 DEF CheckStops, Release, Goto, vars, gates, claims, rows, held,
     worker, history, TypeOK, Steps, Statuses
<1>13. ASSUME NEW result \in {"ok", "refused", "failed"}, Post(result) PROVE TypeOK'
  <2>1. at \in Keys
    BY <1>13 DEF Post, Held, Holding
  <2>2. answer' \in [Keys -> {"silent", "accepted", "refused"}] /\ posted' \in [Keys -> SUBSET Nat]
    BY <1>13, <2>1 DEF Post, TypeOK
  <2>3. latePosts' \in [Keys -> Nat]
    BY <1>13, <2>1 DEF Post, TypeOK
  <2> QED BY <1>13, <2>2, <2>3 DEF Post, Goto, vars, gates, claims, rows, held, worker,
     history, TypeOK, Steps, Statuses
<1>14. CASE Log
  <2>1. at \in Keys /\ mine \in Nat
    BY <1>14 DEF Log, Held, Holding, TypeOK
  <2>2. logged' \in [Keys -> SUBSET Nat]
    BY <1>14, <2>1 DEF Log, WriteLog, TypeOK
  <2> QED BY <1>14, <2>2 DEF Log, Goto, vars, gates, claims, rows, held, worker, history,
     TypeOK, Steps
<1>15. CASE Record
  <2>1. at \in Keys
    BY <1>15 DEF Record, Held, Holding
  <2>2. \A result, earlier : Outcome(result, earlier) \in {"delivered", "dead_letter", "pending"}
    BY DEF Outcome
  <2>3. row' \in [Keys -> RowStates] /\ due' \subseteq Keys /\ failures' \in [Keys -> Nat]
    BY <1>15, <2>1, <2>2 DEF Record, TypeOK, RowStates
  <2> QED BY <1>15, <2>3 DEF Record, Release, Goto, vars, gates, claims, rows, held, worker,
     history, TypeOK, Steps, Statuses
<1>16. CASE EndTick
  BY <1>16 DEF EndTick, Goto, vars, gates, claims, rows, held, worker, history, TypeOK, Steps,
     Statuses
<1>17. CASE FailRead
  BY <1>17, <1>t DEF FailRead, Goto, vars, gates, claims, rows, held, worker, history, TypeOK,
     Steps, Statuses
<1>18. ASSUME NEW k \in Keys, Elapse(k) PROVE TypeOK'
  BY <1>18 DEF Elapse, vars, gates, claims, rows, held, worker, history, TypeOK, Steps, Statuses
<1>19. ASSUME NEW recovery \in BOOLEAN, EndAbruptly(recovery) PROVE TypeOK'
  <2>1. round' \in 0..PerTick /\ budget' \in 0..MaxDisturbances
    BY <1>19, <1>t, ConstantsOK DEF EndAbruptly
  <2>2. stops' \subseteq {"project", "installation"}
    BY <1>19 DEF EndAbruptly, TypeOK
  <2> QED BY <1>19, <2>1, <2>2 DEF EndAbruptly, Release, Goto, vars, gates, claims, rows, held,
     worker, history, TypeOK, Steps, Statuses
<1>20. CASE UNCHANGED vars
  BY <1>20 DEF vars, gates, claims, rows, held, worker, history, TypeOK, Steps, Statuses
<1> QED BY <1>1, <1>2, <1>3, <1>4, <1>5, <1>6, <1>7, <1>8, <1>9, <1>10, <1>11, <1>12, <1>13,
   <1>14, <1>15, <1>16, <1>17, <1>18, <1>19, <1>20 DEF Next, Operators, Worker

\* The worker's lease.
LEMMA HeldHolds == IInv /\ [Next]_vars => Held'
<1> SUFFICES ASSUME IInv, [Next]_vars PROVE Held' OBVIOUS
<1> TypeOK /\ Held BY DEF IInv
<1>1. ASSUME NEW e \in Events, Emit(e) PROVE Held'
  BY <1>1 DEF Emit, vars, gates, claims, rows, held, worker, history, Held, Holding, TypeOK,
     RowStates
<1>2. ASSUME NEW p \in Endpoints, CreateEndpoint(p) PROVE Held'
  BY <1>2 DEF CreateEndpoint, Recount, vars, gates, claims, rows, held, worker, history, Held,
     Holding, TypeOK, RowStates
<1>3. ASSUME NEW p \in Endpoints, DeleteEndpoint(p) PROVE Held'
  BY <1>3 DEF DeleteEndpoint, vars, gates, claims, rows, held, worker, history, Held, Holding,
     TypeOK, RowStates
<1>4. CASE PauseProject
  BY <1>4 DEF PauseProject, vars, gates, claims, rows, held, worker, history, Held, Holding,
     TypeOK, RowStates
<1>5. ASSUME NEW stop \in {"project", "installation"}, Resume(stop) PROVE Held'
  BY <1>5 DEF Resume, Recount, vars, gates, claims, rows, held, worker, history, Held, Holding,
     TypeOK, RowStates
<1>6. ASSUME NEW k \in Keys, Replay(k) PROVE Held'
  BY <1>6 DEF Replay, MayReplay, ForgetAttempts, vars, gates, claims, rows, held, worker,
     history, Held, Holding, TypeOK, RowStates
<1>7. CASE StartTick
  BY <1>7 DEF StartTick, Goto, vars, gates, claims, rows, held, worker, history, Held, Holding,
     TypeOK, RowStates
<1>8. CASE FanOut
  <2> QED BY <1>8 DEF FanOut, Goto, vars, gates, claims, rows, held, worker, history, Held,
     Holding
<1>9. ASSUME NEW k \in Keys, Claim(k) PROVE Held'
  BY <1>9 DEF Claim, Claimable, NewAttempt, Goto, vars, gates, claims, rows, held, worker,
     history, Held, Holding, TypeOK, RowStates
<1>10. CASE EndLoop
  BY <1>10 DEF EndLoop, LeaveLoop, Goto, vars, gates, claims, rows, held, worker, history,
     Held, Holding, TypeOK, RowStates
<1>11. CASE ReadEndpoint
  BY <1>11 DEF ReadEndpoint, IsEnabled, Goto, vars, gates, claims, rows, held, worker, history,
     Held, Holding, TypeOK, RowStates
<1>12. CASE CheckStops
  BY <1>12 DEF CheckStops, Release, Goto, vars, gates, claims, rows, held, worker, history,
     Held, Holding, TypeOK, RowStates
<1>13. ASSUME NEW result \in {"ok", "refused", "failed"}, Post(result) PROVE Held'
  BY <1>13 DEF Post, Goto, vars, gates, claims, rows, held, worker, history, Held, Holding,
     TypeOK, RowStates
<1>14. CASE Log
  BY <1>14 DEF Log, WriteLog, Goto, vars, gates, claims, rows, held, worker, history, Held,
     Holding, TypeOK, RowStates
<1>15. CASE Record
  BY <1>15 DEF Record, Release, Outcome, Goto, vars, gates, claims, rows, held, worker,
     history, Held, Holding, TypeOK, RowStates
<1>16. CASE EndTick
  BY <1>16 DEF EndTick, Goto, vars, gates, claims, rows, held, worker, history, Held, Holding,
     TypeOK, RowStates
<1>17. CASE FailRead
  BY <1>17 DEF FailRead, Goto, vars, gates, claims, rows, held, worker, history, Held, Holding,
     TypeOK, RowStates
<1>18. ASSUME NEW k \in Keys, Elapse(k) PROVE Held'
  BY <1>18 DEF Elapse, vars, gates, claims, rows, held, worker, history, Held, Holding, TypeOK,
     RowStates
<1>19. ASSUME NEW recovery \in BOOLEAN, EndAbruptly(recovery) PROVE Held'
  BY <1>19 DEF EndAbruptly, Release, Goto, vars, gates, claims, rows, held, worker, history,
     Held, Holding, TypeOK, RowStates
<1>20. CASE UNCHANGED vars
  BY <1>20 DEF vars, gates, claims, rows, held, worker, history, Held, Holding, TypeOK,
     RowStates
<1> QED BY <1>1, <1>2, <1>3, <1>4, <1>5, <1>6, <1>7, <1>8, <1>9, <1>10, <1>11, <1>12, <1>13,
   <1>14, <1>15, <1>16, <1>17, <1>18, <1>19, <1>20 DEF Next, Operators, Worker

\* Only the post of the attempt in progress answers it, and a claim or a replay silences it.
LEMMA HeardHolds == IInv /\ [Next]_vars => Heard'
<1> SUFFICES ASSUME IInv, [Next]_vars PROVE Heard' OBVIOUS
<1> TypeOK /\ Held /\ Heard BY DEF IInv
<1>1. ASSUME NEW e \in Events, Emit(e) PROVE Heard'
  BY <1>1 DEF Emit, vars, gates, claims, rows, held, worker, history, Heard, Held, Holding,
     Asking, TypeOK
<1>2. ASSUME NEW p \in Endpoints, CreateEndpoint(p) PROVE Heard'
  BY <1>2 DEF CreateEndpoint, Recount, vars, gates, claims, rows, held, worker, history, Heard,
     Held, Holding, Asking, TypeOK
<1>3. ASSUME NEW p \in Endpoints, DeleteEndpoint(p) PROVE Heard'
  BY <1>3 DEF DeleteEndpoint, vars, gates, claims, rows, held, worker, history, Heard, Held,
     Holding, Asking, TypeOK
<1>4. CASE PauseProject
  BY <1>4 DEF PauseProject, vars, gates, claims, rows, held, worker, history, Heard, Held,
     Holding, Asking, TypeOK
<1>5. ASSUME NEW stop \in {"project", "installation"}, Resume(stop) PROVE Heard'
  BY <1>5 DEF Resume, Recount, vars, gates, claims, rows, held, worker, history, Heard, Held,
     Holding, Asking, TypeOK
<1>6. ASSUME NEW k \in Keys, Replay(k) PROVE Heard'
  BY <1>6 DEF Replay, MayReplay, ForgetAttempts, vars, gates, claims, rows, held, worker,
     history, Heard, Held, Holding, Asking, TypeOK
<1>7. CASE StartTick
  BY <1>7 DEF StartTick, Goto, vars, gates, claims, rows, held, worker, history, Heard, Held,
     Holding, Asking, TypeOK
<1>8. CASE FanOut
  BY <1>8 DEF FanOut, Goto, vars, gates, claims, rows, held, worker, history, Heard, Held,
     Holding, Asking, TypeOK
<1>9. ASSUME NEW k \in Keys, Claim(k) PROVE Heard'
  BY <1>9 DEF Claim, Claimable, NewAttempt, Goto, vars, gates, claims, rows, held, worker,
     history, Heard, Held, Holding, Asking, TypeOK
<1>10. CASE EndLoop
  BY <1>10 DEF EndLoop, LeaveLoop, Goto, vars, gates, claims, rows, held, worker, history,
     Heard, Held, Holding, Asking, TypeOK
<1>11. CASE ReadEndpoint
  BY <1>11 DEF ReadEndpoint, IsEnabled, Goto, vars, gates, claims, rows, held, worker, history,
     Heard, Held, Holding, Asking, TypeOK
<1>12. CASE CheckStops
  BY <1>12 DEF CheckStops, Release, Goto, vars, gates, claims, rows, held, worker, history,
     Heard, Held, Holding, Asking, TypeOK
<1>13. ASSUME NEW result \in {"ok", "refused", "failed"}, Post(result) PROVE Heard'
  BY <1>13 DEF Post, Goto, vars, gates, claims, rows, held, worker, history, Heard, Held,
     Holding, Asking, TypeOK
<1>14. CASE Log
  BY <1>14 DEF Log, WriteLog, Goto, vars, gates, claims, rows, held, worker, history, Heard,
     Held, Holding, Asking, TypeOK
<1>15. CASE Record
  BY <1>15 DEF Record, Release, Outcome, Goto, vars, gates, claims, rows, held, worker,
     history, Heard, Held, Holding, Asking, TypeOK
<1>16. CASE EndTick
  BY <1>16 DEF EndTick, Goto, vars, gates, claims, rows, held, worker, history, Heard, Held,
     Holding, Asking, TypeOK
<1>17. CASE FailRead
  BY <1>17 DEF FailRead, Goto, vars, gates, claims, rows, held, worker, history, Heard, Held,
     Holding, Asking, TypeOK
<1>18. ASSUME NEW k \in Keys, Elapse(k) PROVE Heard'
  BY <1>18 DEF Elapse, vars, gates, claims, rows, held, worker, history, Heard, Held, Holding,
     Asking, TypeOK
<1>19. ASSUME NEW recovery \in BOOLEAN, EndAbruptly(recovery) PROVE Heard'
  BY <1>19 DEF EndAbruptly, Release, Goto, vars, gates, claims, rows, held, worker, history,
     Heard, Held, Holding, Asking, TypeOK
<1>20. CASE UNCHANGED vars
  BY <1>20 DEF vars, gates, claims, rows, held, worker, history, Heard, Held, Holding, Asking,
     TypeOK
<1> QED BY <1>1, <1>2, <1>3, <1>4, <1>5, <1>6, <1>7, <1>8, <1>9, <1>10, <1>11, <1>12, <1>13,
   <1>14, <1>15, <1>16, <1>17, <1>18, <1>19, <1>20 DEF Next, Operators, Worker

\* Attempts are numbered in order.
LEMMA NumberedHolds == IInv /\ [Next]_vars => Numbered'
<1> SUFFICES ASSUME IInv, [Next]_vars PROVE Numbered' OBVIOUS
<1> TypeOK /\ Held /\ Numbered BY DEF IInv
<1>1. ASSUME NEW e \in Events, Emit(e) PROVE Numbered'
  BY <1>1 DEF Emit, vars, gates, claims, rows, held, worker, history, Numbered, Held, Holding,
     Asking, TypeOK
<1>2. ASSUME NEW p \in Endpoints, CreateEndpoint(p) PROVE Numbered'
  BY <1>2 DEF CreateEndpoint, Recount, vars, gates, claims, rows, held, worker, history,
     Numbered, Held, Holding, Asking, TypeOK
<1>3. ASSUME NEW p \in Endpoints, DeleteEndpoint(p) PROVE Numbered'
  BY <1>3 DEF DeleteEndpoint, vars, gates, claims, rows, held, worker, history, Numbered, Held,
     Holding, Asking, TypeOK
<1>4. CASE PauseProject
  BY <1>4 DEF PauseProject, vars, gates, claims, rows, held, worker, history, Numbered, Held,
     Holding, Asking, TypeOK
<1>5. ASSUME NEW stop \in {"project", "installation"}, Resume(stop) PROVE Numbered'
  BY <1>5 DEF Resume, Recount, vars, gates, claims, rows, held, worker, history, Numbered,
     Held, Holding, Asking, TypeOK
<1>6. ASSUME NEW k \in Keys, Replay(k) PROVE Numbered'
  BY <1>6 DEF Replay, MayReplay, ForgetAttempts, vars, gates, claims, rows, held, worker,
     history, Numbered, Held, Holding, Asking, TypeOK
<1>7. CASE StartTick
  BY <1>7 DEF StartTick, Goto, vars, gates, claims, rows, held, worker, history, Numbered,
     Held, Holding, Asking, TypeOK
<1>8. CASE FanOut
  BY <1>8 DEF FanOut, Goto, vars, gates, claims, rows, held, worker, history, Numbered, Held,
     Holding, Asking, TypeOK
<1>9. ASSUME NEW k \in Keys, Claim(k) PROVE Numbered'
  BY <1>9 DEF Claim, Claimable, NewAttempt, Goto, vars, gates, claims, rows, held, worker,
     history, Numbered, Held, Holding, Asking, TypeOK
<1>10. CASE EndLoop
  BY <1>10 DEF EndLoop, LeaveLoop, Goto, vars, gates, claims, rows, held, worker, history,
     Numbered, Held, Holding, Asking, TypeOK
<1>11. CASE ReadEndpoint
  BY <1>11 DEF ReadEndpoint, IsEnabled, Goto, vars, gates, claims, rows, held, worker, history,
     Numbered, Held, Holding, Asking, TypeOK
<1>12. CASE CheckStops
  BY <1>12 DEF CheckStops, Release, Goto, vars, gates, claims, rows, held, worker, history,
     Numbered, Held, Holding, Asking, TypeOK
<1>13. ASSUME NEW result \in {"ok", "refused", "failed"}, Post(result) PROVE Numbered'
  BY <1>13 DEF Post, Goto, vars, gates, claims, rows, held, worker, history, Numbered, Held,
     Holding, Asking, TypeOK
<1>14. CASE Log
  BY <1>14 DEF Log, WriteLog, Goto, vars, gates, claims, rows, held, worker, history, Numbered,
     Held, Holding, Asking, TypeOK
<1>15. CASE Record
  BY <1>15 DEF Record, Release, Outcome, Goto, vars, gates, claims, rows, held, worker,
     history, Numbered, Held, Holding, Asking, TypeOK
<1>16. CASE EndTick
  BY <1>16 DEF EndTick, Goto, vars, gates, claims, rows, held, worker, history, Numbered, Held,
     Holding, Asking, TypeOK
<1>17. CASE FailRead
  BY <1>17 DEF FailRead, Goto, vars, gates, claims, rows, held, worker, history, Numbered,
     Held, Holding, Asking, TypeOK
<1>18. ASSUME NEW k \in Keys, Elapse(k) PROVE Numbered'
  BY <1>18 DEF Elapse, vars, gates, claims, rows, held, worker, history, Numbered, Held,
     Holding, Asking, TypeOK
<1>19. ASSUME NEW recovery \in BOOLEAN, EndAbruptly(recovery) PROVE Numbered'
  BY <1>19 DEF EndAbruptly, Release, Goto, vars, gates, claims, rows, held, worker, history,
     Numbered, Held, Holding, Asking, TypeOK
<1>20. CASE UNCHANGED vars
  BY <1>20 DEF vars, gates, claims, rows, held, worker, history, Numbered, Held, Holding,
     Asking, TypeOK
<1> QED BY <1>1, <1>2, <1>3, <1>4, <1>5, <1>6, <1>7, <1>8, <1>9, <1>10, <1>11, <1>12, <1>13,
   <1>14, <1>15, <1>16, <1>17, <1>18, <1>19, <1>20 DEF Next, Operators, Worker

\* Failures are counted against claims.
LEMMA TalliedHolds == IInv /\ [Next]_vars => Tallied' /\ AbandonedInTurn'
<1> SUFFICES ASSUME IInv, [Next]_vars PROVE Tallied' /\ AbandonedInTurn' OBVIOUS
<1> TypeOK /\ Held /\ Heard /\ Tallied /\ AbandonedInTurn BY DEF IInv
<1> MaxAttempts \in Nat \ {0}
  BY ConstantsOK
<1>1. ASSUME NEW e \in Events, Emit(e) PROVE Tallied' /\ AbandonedInTurn'
  BY <1>1 DEF Emit, vars, gates, claims, rows, held, worker, history, Tallied, AbandonedInTurn,
     Held, Heard, Holding, TypeOK, RowStates
<1>2. ASSUME NEW p \in Endpoints, CreateEndpoint(p) PROVE Tallied' /\ AbandonedInTurn'
  BY <1>2 DEF CreateEndpoint, Recount, vars, gates, claims, rows, held, worker, history,
     Tallied, AbandonedInTurn, Held, Heard, Holding, TypeOK, RowStates
<1>3. ASSUME NEW p \in Endpoints, DeleteEndpoint(p) PROVE Tallied' /\ AbandonedInTurn'
  BY <1>3 DEF DeleteEndpoint, vars, gates, claims, rows, held, worker, history, Tallied,
     AbandonedInTurn, Held, Heard, Holding, TypeOK, RowStates
<1>4. CASE PauseProject
  BY <1>4 DEF PauseProject, vars, gates, claims, rows, held, worker, history, Tallied,
     AbandonedInTurn, Held, Heard, Holding, TypeOK, RowStates
<1>5. ASSUME NEW stop \in {"project", "installation"}, Resume(stop) PROVE Tallied' /\ AbandonedInTurn'
  BY <1>5 DEF Resume, Recount, vars, gates, claims, rows, held, worker, history, Tallied,
     AbandonedInTurn, Held, Heard, Holding, TypeOK, RowStates
<1>6. ASSUME NEW k \in Keys, Replay(k) PROVE Tallied' /\ AbandonedInTurn'
  BY <1>6 DEF Replay, MayReplay, ForgetAttempts, vars, gates, claims, rows, held, worker,
     history, Tallied, AbandonedInTurn, Held, Heard, Holding, TypeOK, RowStates
<1>7. CASE StartTick
  BY <1>7 DEF StartTick, Goto, vars, gates, claims, rows, held, worker, history, Tallied,
     AbandonedInTurn, Held, Heard, Holding, TypeOK, RowStates
<1>8. CASE FanOut
  BY <1>8 DEF FanOut, Goto, vars, gates, claims, rows, held, worker, history, Tallied,
     AbandonedInTurn, Held, Heard, Holding, TypeOK, RowStates
<1>9. ASSUME NEW k \in Keys, Claim(k) PROVE Tallied' /\ AbandonedInTurn'
  BY <1>9 DEF Claim, Claimable, NewAttempt, Goto, vars, gates, claims, rows, held, worker,
     history, Tallied, AbandonedInTurn, Held, Heard, Holding, TypeOK, RowStates
<1>10. CASE EndLoop
  BY <1>10 DEF EndLoop, LeaveLoop, Goto, vars, gates, claims, rows, held, worker, history,
     Tallied, AbandonedInTurn, Held, Heard, Holding, TypeOK, RowStates
<1>11. CASE ReadEndpoint
  BY <1>11 DEF ReadEndpoint, IsEnabled, Goto, vars, gates, claims, rows, held, worker, history,
     Tallied, AbandonedInTurn, Held, Heard, Holding, TypeOK, RowStates
<1>12. CASE CheckStops
  BY <1>12 DEF CheckStops, Release, Goto, vars, gates, claims, rows, held, worker, history,
     Tallied, AbandonedInTurn, Held, Heard, Holding, TypeOK, RowStates
<1>13. ASSUME NEW result \in {"ok", "refused", "failed"}, Post(result) PROVE Tallied' /\ AbandonedInTurn'
  BY <1>13 DEF Post, Goto, vars, gates, claims, rows, held, worker, history, Tallied,
     AbandonedInTurn, Held, Heard, Holding, TypeOK, RowStates
<1>14. CASE Log
  BY <1>14 DEF Log, WriteLog, Goto, vars, gates, claims, rows, held, worker, history, Tallied,
     AbandonedInTurn, Held, Heard, Holding, TypeOK, RowStates
<1>15. CASE Record
  BY <1>15 DEF Record, Release, Outcome, Goto, vars, gates, claims, rows, held, worker,
     history, Tallied, AbandonedInTurn, Held, Heard, Holding, TypeOK, RowStates
<1>16. CASE EndTick
  BY <1>16 DEF EndTick, Goto, vars, gates, claims, rows, held, worker, history, Tallied,
     AbandonedInTurn, Held, Heard, Holding, TypeOK, RowStates
<1>17. CASE FailRead
  BY <1>17 DEF FailRead, Goto, vars, gates, claims, rows, held, worker, history, Tallied,
     AbandonedInTurn, Held, Heard, Holding, TypeOK, RowStates
<1>18. ASSUME NEW k \in Keys, Elapse(k) PROVE Tallied' /\ AbandonedInTurn'
  BY <1>18 DEF Elapse, vars, gates, claims, rows, held, worker, history, Tallied,
     AbandonedInTurn, Held, Heard, Holding, TypeOK, RowStates
<1>19. ASSUME NEW recovery \in BOOLEAN, EndAbruptly(recovery) PROVE Tallied' /\ AbandonedInTurn'
  BY <1>19 DEF EndAbruptly, Release, Goto, vars, gates, claims, rows, held, worker, history,
     Tallied, AbandonedInTurn, Held, Heard, Holding, TypeOK, RowStates
<1>20. CASE UNCHANGED vars
  BY <1>20 DEF vars, gates, claims, rows, held, worker, history, Tallied, AbandonedInTurn,
     Held, Heard, Holding, TypeOK, RowStates
<1> QED BY <1>1, <1>2, <1>3, <1>4, <1>5, <1>6, <1>7, <1>8, <1>9, <1>10, <1>11, <1>12, <1>13,
   <1>14, <1>15, <1>16, <1>17, <1>18, <1>19, <1>20 DEF Next, Operators, Worker

\* The log is written before the result.
LEMMA WrittenHolds == IInv /\ [Next]_vars => Written' /\ SettledIsInspectable'
<1> SUFFICES ASSUME IInv, [Next]_vars PROVE Written' /\ SettledIsInspectable' OBVIOUS
<1> TypeOK /\ Held /\ Written /\ SettledIsInspectable BY DEF IInv
<1>1. ASSUME NEW e \in Events, Emit(e) PROVE Written' /\ SettledIsInspectable'
  BY <1>1 DEF Emit, vars, gates, claims, rows, held, worker, history, Written,
     SettledIsInspectable, Held, Holding, TypeOK, RowStates
<1>2. ASSUME NEW p \in Endpoints, CreateEndpoint(p) PROVE Written' /\ SettledIsInspectable'
  BY <1>2 DEF CreateEndpoint, Recount, vars, gates, claims, rows, held, worker, history,
     Written, SettledIsInspectable, Held, Holding, TypeOK, RowStates
<1>3. ASSUME NEW p \in Endpoints, DeleteEndpoint(p) PROVE Written' /\ SettledIsInspectable'
  BY <1>3 DEF DeleteEndpoint, vars, gates, claims, rows, held, worker, history, Written,
     SettledIsInspectable, Held, Holding, TypeOK, RowStates
<1>4. CASE PauseProject
  BY <1>4 DEF PauseProject, vars, gates, claims, rows, held, worker, history, Written,
     SettledIsInspectable, Held, Holding, TypeOK, RowStates
<1>5. ASSUME NEW stop \in {"project", "installation"}, Resume(stop) PROVE Written' /\ SettledIsInspectable'
  BY <1>5 DEF Resume, Recount, vars, gates, claims, rows, held, worker, history, Written,
     SettledIsInspectable, Held, Holding, TypeOK, RowStates
<1>6. ASSUME NEW k \in Keys, Replay(k) PROVE Written' /\ SettledIsInspectable'
  BY <1>6 DEF Replay, MayReplay, ForgetAttempts, vars, gates, claims, rows, held, worker,
     history, Written, SettledIsInspectable, Held, Holding, TypeOK, RowStates
<1>7. CASE StartTick
  BY <1>7 DEF StartTick, Goto, vars, gates, claims, rows, held, worker, history, Written,
     SettledIsInspectable, Held, Holding, TypeOK, RowStates
<1>8. CASE FanOut
  BY <1>8 DEF FanOut, Goto, vars, gates, claims, rows, held, worker, history, Written,
     SettledIsInspectable, Held, Holding, TypeOK, RowStates
<1>9. ASSUME NEW k \in Keys, Claim(k) PROVE Written' /\ SettledIsInspectable'
  BY <1>9 DEF Claim, Claimable, NewAttempt, Goto, vars, gates, claims, rows, held, worker,
     history, Written, SettledIsInspectable, Held, Holding, TypeOK, RowStates
<1>10. CASE EndLoop
  BY <1>10 DEF EndLoop, LeaveLoop, Goto, vars, gates, claims, rows, held, worker, history,
     Written, SettledIsInspectable, Held, Holding, TypeOK, RowStates
<1>11. CASE ReadEndpoint
  BY <1>11 DEF ReadEndpoint, IsEnabled, Goto, vars, gates, claims, rows, held, worker, history,
     Written, SettledIsInspectable, Held, Holding, TypeOK, RowStates
<1>12. CASE CheckStops
  BY <1>12 DEF CheckStops, Release, Goto, vars, gates, claims, rows, held, worker, history,
     Written, SettledIsInspectable, Held, Holding, TypeOK, RowStates
<1>13. ASSUME NEW result \in {"ok", "refused", "failed"}, Post(result) PROVE Written' /\ SettledIsInspectable'
  BY <1>13 DEF Post, Goto, vars, gates, claims, rows, held, worker, history, Written,
     SettledIsInspectable, Held, Holding, TypeOK, RowStates
<1>14. CASE Log
  BY <1>14 DEF Log, WriteLog, Goto, vars, gates, claims, rows, held, worker, history, Written,
     SettledIsInspectable, Held, Holding, TypeOK, RowStates
<1>15. CASE Record
  BY <1>15 DEF Record, Release, Outcome, Goto, vars, gates, claims, rows, held, worker,
     history, Written, SettledIsInspectable, Held, Holding, TypeOK, RowStates
<1>16. CASE EndTick
  BY <1>16 DEF EndTick, Goto, vars, gates, claims, rows, held, worker, history, Written,
     SettledIsInspectable, Held, Holding, TypeOK, RowStates
<1>17. CASE FailRead
  BY <1>17 DEF FailRead, Goto, vars, gates, claims, rows, held, worker, history, Written,
     SettledIsInspectable, Held, Holding, TypeOK, RowStates
<1>18. ASSUME NEW k \in Keys, Elapse(k) PROVE Written' /\ SettledIsInspectable'
  BY <1>18 DEF Elapse, vars, gates, claims, rows, held, worker, history, Written,
     SettledIsInspectable, Held, Holding, TypeOK, RowStates
<1>19. ASSUME NEW recovery \in BOOLEAN, EndAbruptly(recovery) PROVE Written' /\ SettledIsInspectable'
  BY <1>19 DEF EndAbruptly, Release, Goto, vars, gates, claims, rows, held, worker, history,
     Written, SettledIsInspectable, Held, Holding, TypeOK, RowStates
<1>20. CASE UNCHANGED vars
  BY <1>20 DEF vars, gates, claims, rows, held, worker, history, Written, SettledIsInspectable,
     Held, Holding, TypeOK, RowStates
<1> QED BY <1>1, <1>2, <1>3, <1>4, <1>5, <1>6, <1>7, <1>8, <1>9, <1>10, <1>11, <1>12, <1>13,
   <1>14, <1>15, <1>16, <1>17, <1>18, <1>19, <1>20 DEF Next, Operators, Worker

\* A delivered row keeps the answer that made it so.
LEMMA DeliveredHolds == IInv /\ [Next]_vars => DeliveredWasAccepted'
<1> SUFFICES ASSUME IInv, [Next]_vars PROVE DeliveredWasAccepted' OBVIOUS
<1> TypeOK /\ Held /\ Heard /\ DeliveredWasAccepted BY DEF IInv
<1>1. ASSUME NEW e \in Events, Emit(e) PROVE DeliveredWasAccepted'
  BY <1>1 DEF Emit, vars, gates, claims, rows, held, worker, history, DeliveredWasAccepted,
     Held, Heard, Holding, Asking, TypeOK, RowStates
<1>2. ASSUME NEW p \in Endpoints, CreateEndpoint(p) PROVE DeliveredWasAccepted'
  BY <1>2 DEF CreateEndpoint, Recount, vars, gates, claims, rows, held, worker, history,
     DeliveredWasAccepted, Held, Heard, Holding, Asking, TypeOK, RowStates
<1>3. ASSUME NEW p \in Endpoints, DeleteEndpoint(p) PROVE DeliveredWasAccepted'
  BY <1>3 DEF DeleteEndpoint, vars, gates, claims, rows, held, worker, history,
     DeliveredWasAccepted, Held, Heard, Holding, Asking, TypeOK, RowStates
<1>4. CASE PauseProject
  BY <1>4 DEF PauseProject, vars, gates, claims, rows, held, worker, history,
     DeliveredWasAccepted, Held, Heard, Holding, Asking, TypeOK, RowStates
<1>5. ASSUME NEW stop \in {"project", "installation"}, Resume(stop) PROVE DeliveredWasAccepted'
  BY <1>5 DEF Resume, Recount, vars, gates, claims, rows, held, worker, history,
     DeliveredWasAccepted, Held, Heard, Holding, Asking, TypeOK, RowStates
<1>6. ASSUME NEW k \in Keys, Replay(k) PROVE DeliveredWasAccepted'
  BY <1>6 DEF Replay, MayReplay, ForgetAttempts, vars, gates, claims, rows, held, worker,
     history, DeliveredWasAccepted, Held, Heard, Holding, Asking, TypeOK, RowStates
<1>7. CASE StartTick
  BY <1>7 DEF StartTick, Goto, vars, gates, claims, rows, held, worker, history,
     DeliveredWasAccepted, Held, Heard, Holding, Asking, TypeOK, RowStates
<1>8. CASE FanOut
  BY <1>8 DEF FanOut, Goto, vars, gates, claims, rows, held, worker, history,
     DeliveredWasAccepted, Held, Heard, Holding, Asking, TypeOK, RowStates
<1>9. ASSUME NEW k \in Keys, Claim(k) PROVE DeliveredWasAccepted'
  BY <1>9 DEF Claim, Claimable, NewAttempt, Goto, vars, gates, claims, rows, held, worker,
     history, DeliveredWasAccepted, Held, Heard, Holding, Asking, TypeOK, RowStates
<1>10. CASE EndLoop
  BY <1>10 DEF EndLoop, LeaveLoop, Goto, vars, gates, claims, rows, held, worker, history,
     DeliveredWasAccepted, Held, Heard, Holding, Asking, TypeOK, RowStates
<1>11. CASE ReadEndpoint
  BY <1>11 DEF ReadEndpoint, IsEnabled, Goto, vars, gates, claims, rows, held, worker, history,
     DeliveredWasAccepted, Held, Heard, Holding, Asking, TypeOK, RowStates
<1>12. CASE CheckStops
  BY <1>12 DEF CheckStops, Release, Goto, vars, gates, claims, rows, held, worker, history,
     DeliveredWasAccepted, Held, Heard, Holding, Asking, TypeOK, RowStates
<1>13. ASSUME NEW result \in {"ok", "refused", "failed"}, Post(result) PROVE DeliveredWasAccepted'
  BY <1>13 DEF Post, Goto, vars, gates, claims, rows, held, worker, history,
     DeliveredWasAccepted, Held, Heard, Holding, Asking, TypeOK, RowStates
<1>14. CASE Log
  BY <1>14 DEF Log, WriteLog, Goto, vars, gates, claims, rows, held, worker, history,
     DeliveredWasAccepted, Held, Heard, Holding, Asking, TypeOK, RowStates
<1>15. CASE Record
  BY <1>15 DEF Record, Release, Outcome, Goto, vars, gates, claims, rows, held, worker,
     history, DeliveredWasAccepted, Held, Heard, Holding, Asking, TypeOK, RowStates
<1>16. CASE EndTick
  BY <1>16 DEF EndTick, Goto, vars, gates, claims, rows, held, worker, history,
     DeliveredWasAccepted, Held, Heard, Holding, Asking, TypeOK, RowStates
<1>17. CASE FailRead
  BY <1>17 DEF FailRead, Goto, vars, gates, claims, rows, held, worker, history,
     DeliveredWasAccepted, Held, Heard, Holding, Asking, TypeOK, RowStates
<1>18. ASSUME NEW k \in Keys, Elapse(k) PROVE DeliveredWasAccepted'
  BY <1>18 DEF Elapse, vars, gates, claims, rows, held, worker, history, DeliveredWasAccepted,
     Held, Heard, Holding, Asking, TypeOK, RowStates
<1>19. ASSUME NEW recovery \in BOOLEAN, EndAbruptly(recovery) PROVE DeliveredWasAccepted'
  BY <1>19 DEF EndAbruptly, Release, Goto, vars, gates, claims, rows, held, worker, history,
     DeliveredWasAccepted, Held, Heard, Holding, Asking, TypeOK, RowStates
<1>20. CASE UNCHANGED vars
  BY <1>20 DEF vars, gates, claims, rows, held, worker, history, DeliveredWasAccepted, Held,
     Heard, Holding, Asking, TypeOK, RowStates
<1> QED BY <1>1, <1>2, <1>3, <1>4, <1>5, <1>6, <1>7, <1>8, <1>9, <1>10, <1>11, <1>12, <1>13,
   <1>14, <1>15, <1>16, <1>17, <1>18, <1>19, <1>20 DEF Next, Operators, Worker

\* After its last look at endpoint and stops the worker makes one request.
LEMMA StoppedHolds == IInv /\ [Next]_vars => Stopped' /\ StopLetsOnePostOut'
<1> SUFFICES ASSUME IInv, [Next]_vars PROVE Stopped' /\ StopLetsOnePostOut' OBVIOUS
<1> TypeOK /\ Held /\ Stopped /\ StopLetsOnePostOut BY DEF IInv
<1>1. ASSUME NEW e \in Events, Emit(e) PROVE Stopped' /\ StopLetsOnePostOut'
  BY <1>1 DEF Emit, vars, gates, claims, rows, held, worker, history, Stopped,
     StopLetsOnePostOut, Postable, Held, Holding, TypeOK, RowStates
<1>2. ASSUME NEW p \in Endpoints, CreateEndpoint(p) PROVE Stopped' /\ StopLetsOnePostOut'
  BY <1>2 DEF CreateEndpoint, Recount, vars, gates, claims, rows, held, worker, history,
     Stopped, StopLetsOnePostOut, Postable, Held, Holding, TypeOK, RowStates
<1>3. ASSUME NEW p \in Endpoints, DeleteEndpoint(p) PROVE Stopped' /\ StopLetsOnePostOut'
  BY <1>3 DEF DeleteEndpoint, vars, gates, claims, rows, held, worker, history, Stopped,
     StopLetsOnePostOut, Postable, Held, Holding, TypeOK, RowStates
<1>4. CASE PauseProject
  BY <1>4 DEF PauseProject, vars, gates, claims, rows, held, worker, history, Stopped,
     StopLetsOnePostOut, Postable, Held, Holding, TypeOK, RowStates
<1>5. ASSUME NEW stop \in {"project", "installation"}, Resume(stop) PROVE Stopped' /\ StopLetsOnePostOut'
  BY <1>5 DEF Resume, Recount, vars, gates, claims, rows, held, worker, history, Stopped,
     StopLetsOnePostOut, Postable, Held, Holding, TypeOK, RowStates
<1>6. ASSUME NEW k \in Keys, Replay(k) PROVE Stopped' /\ StopLetsOnePostOut'
  BY <1>6 DEF Replay, MayReplay, ForgetAttempts, vars, gates, claims, rows, held, worker,
     history, Stopped, StopLetsOnePostOut, Postable, Held, Holding, TypeOK, RowStates
<1>7. CASE StartTick
  BY <1>7 DEF StartTick, Goto, vars, gates, claims, rows, held, worker, history, Stopped,
     StopLetsOnePostOut, Postable, Held, Holding, TypeOK, RowStates
<1>8. CASE FanOut
  BY <1>8 DEF FanOut, Goto, vars, gates, claims, rows, held, worker, history, Stopped,
     StopLetsOnePostOut, Postable, Held, Holding, TypeOK, RowStates
<1>9. ASSUME NEW k \in Keys, Claim(k) PROVE Stopped' /\ StopLetsOnePostOut'
  <2>1. /\ stops = {} /\ row[k] /= "none" /\ pc' = "endpoint" /\ at' = k
        /\ UNCHANGED <<endpoint, stops, latePosts>>
    BY <1>9 DEF Claim, Claimable, Goto, gates, Stopped, TypeOK
  <2>2. endpoint[k[2]] \in {"enabled", "disabled"}
    <3>1. k[2] \in Endpoints
      BY DEF Keys
    <3> QED BY <2>1, <3>1 DEF Stopped, TypeOK
  <2>3. latePosts[k] = 0 \/ endpoint[k[2]] = "disabled"
    BY <2>1, <2>2 DEF Stopped, Postable
  <2>4. \A x \in Keys : row'[x] /= "none" => row[x] /= "none"
    BY <1>9, <2>1 DEF Claim, TypeOK
  <2> QED BY <2>1, <2>3, <2>4 DEF Stopped, StopLetsOnePostOut, Postable, Holding
<1>10. CASE EndLoop
  BY <1>10 DEF EndLoop, LeaveLoop, Goto, vars, gates, claims, rows, held, worker, history,
     Stopped, StopLetsOnePostOut, Postable, Held, Holding, TypeOK, RowStates
<1>11. CASE ReadEndpoint
  BY <1>11 DEF ReadEndpoint, IsEnabled, Goto, vars, gates, claims, rows, held, worker, history,
     Stopped, StopLetsOnePostOut, Postable, Held, Holding, TypeOK, RowStates
<1>12. CASE CheckStops
  BY <1>12 DEF CheckStops, Release, Goto, vars, gates, claims, rows, held, worker, history,
     Stopped, StopLetsOnePostOut, Postable, Held, Holding, TypeOK, RowStates
<1>13. ASSUME NEW result \in {"ok", "refused", "failed"}, Post(result) PROVE Stopped' /\ StopLetsOnePostOut'
  BY <1>13 DEF Post, Goto, vars, gates, claims, rows, held, worker, history, Stopped,
     StopLetsOnePostOut, Postable, Held, Holding, TypeOK, RowStates
<1>14. CASE Log
  BY <1>14 DEF Log, WriteLog, Goto, vars, gates, claims, rows, held, worker, history, Stopped,
     StopLetsOnePostOut, Postable, Held, Holding, TypeOK, RowStates
<1>15. CASE Record
  BY <1>15 DEF Record, Release, Outcome, Goto, vars, gates, claims, rows, held, worker,
     history, Stopped, StopLetsOnePostOut, Postable, Held, Holding, TypeOK, RowStates
<1>16. CASE EndTick
  BY <1>16 DEF EndTick, Goto, vars, gates, claims, rows, held, worker, history, Stopped,
     StopLetsOnePostOut, Postable, Held, Holding, TypeOK, RowStates
<1>17. CASE FailRead
  BY <1>17 DEF FailRead, Goto, vars, gates, claims, rows, held, worker, history, Stopped,
     StopLetsOnePostOut, Postable, Held, Holding, TypeOK, RowStates
<1>18. ASSUME NEW k \in Keys, Elapse(k) PROVE Stopped' /\ StopLetsOnePostOut'
  BY <1>18 DEF Elapse, vars, gates, claims, rows, held, worker, history, Stopped,
     StopLetsOnePostOut, Postable, Held, Holding, TypeOK, RowStates
<1>19. ASSUME NEW recovery \in BOOLEAN, EndAbruptly(recovery) PROVE Stopped' /\ StopLetsOnePostOut'
  BY <1>19 DEF EndAbruptly, Release, Goto, vars, gates, claims, rows, held, worker, history,
     Stopped, StopLetsOnePostOut, Postable, Held, Holding, TypeOK, RowStates
<1>20. CASE UNCHANGED vars
  BY <1>20 DEF vars, gates, claims, rows, held, worker, history, Stopped, StopLetsOnePostOut,
     Postable, Held, Holding, TypeOK, RowStates
<1> QED BY <1>1, <1>2, <1>3, <1>4, <1>5, <1>6, <1>7, <1>8, <1>9, <1>10, <1>11, <1>12, <1>13,
   <1>14, <1>15, <1>16, <1>17, <1>18, <1>19, <1>20 DEF Next, Operators, Worker

LEMMA InvariantHolds == IInv /\ [Next]_vars => IInv'
BY TypeHolds, HeldHolds, HeardHolds, NumberedHolds, TalliedHolds, WrittenHolds, DeliveredHolds,
   StoppedHolds DEF IInv

LEMMA Inductive == Spec => []IInv
<1>1. Init => IInv
  BY InitiallyHolds
<1>2. IInv /\ [Next]_vars => IInv'
  BY InvariantHolds
<1> QED BY <1>1, <1>2, PTL DEF Spec

-----------------------------------------------------------------------------
(* Theorems *)

\* The model is well typed.
THEOREM TypeCorrect == Spec => []TypeOK
<1>1. IInv => TypeOK
  BY DEF IInv
<1> QED BY <1>1, Inductive, PTL

\* A row is marked delivered by the answer to its own latest attempt (the result UPDATE
\* of tickOutbox tests the attempt id).
THEOREM DeliveredIsTrue == Spec => []DeliveredWasAccepted
<1>1. IInv => DeliveredWasAccepted
  BY DEF IInv
<1> QED BY <1>1, Inductive, PTL

\* A row is given up after a refusal or the last allowed attempt, whatever pauses and
\* ended Ticks did to the count.
THEOREM GivenUpInTurn == Spec => []AbandonedInTurn
<1>1. IInv => AbandonedInTurn
  BY DEF IInv
<1> QED BY <1>1, Inductive, PTL

\* After a pause or the removal of the endpoint at most one request still leaves.
THEOREM OneLatePost == Spec => []StopLetsOnePostOut
<1>1. IInv => StopLetsOnePostOut
  BY DEF IInv
<1> QED BY <1>1, Inductive, PTL

\* A settled row can be inspected: its attempt has a row in webhook_attempts.
THEOREM SettledHasHistory == Spec => []SettledIsInspectable
<1>1. IInv => SettledIsInspectable
  BY DEF IInv
<1> QED BY <1>1, Inductive, PTL

\* A request carries the attempt id its row is leased under, and one no request
\* carried before.
THEOREM AttemptIsUnique == Spec => AttemptIsUsedOnce
<1> DEFINE Once == pc = "post" /\ pc' = "log" =>
      /\ row[at] = "sending" /\ mine = attempt[at]
      /\ \A older \in posted[at] : older < mine
<1>1. IInv => Once
  BY DEF IInv, Held, Holding, Numbered, Asking
<1> QED BY <1>1, Inductive, PTL DEF AttemptIsUsedOnce

\* What a step does to the debts and to what is known of them.
LEMMA LedgerStep ==
  ASSUME IInv, [Next]_vars
  PROVE  [Owed!Next]_<<Debt, answer, attempts>>
<1> TypeOK /\ Held /\ Heard BY DEF IInv
<1> USE DEF Owed!Next, Owed!Owe, Owed!Try, Owed!Answer, Owed!Pay, Owed!GiveUp, Owed!Replay
<1>0. \A k \in Keys : Debt[k] = IF row[k] \in {"pending", "sending"} THEN "owed"
                                ELSE IF row[k] = "delivered" THEN "paid"
                                ELSE IF row[k] = "dead_letter" THEN "given_up" ELSE "none"
  BY DEF Debt
<1>d. ASSUME \A k \in Keys : row'[k] = row[k] \/ {row[k], row'[k]} \subseteq {"pending", "sending"}
      PROVE  Debt' = Debt
  BY <1>d DEF Debt
<1>1. CASE UNCHANGED <<row, answer, attempts>>
  BY <1>1 DEF Debt
<1>2. ASSUME NEW k \in Keys, Replay(k) PROVE [Owed!Next]_<<Debt, answer, attempts>>
  <2>1. Debt[k] /= "none"
    BY <1>0, <1>2 DEF Replay, MayReplay, TypeOK, RowStates
  <2>2. Debt' = [Debt EXCEPT ![k] = "owed"]
    BY <1>2 DEF Replay, Debt, TypeOK
  <2> QED BY <1>2, <2>1, <2>2 DEF Replay, ForgetAttempts
<1>3. CASE FanOut
  <2>1. PICK batch \in SUBSET {e \in Events : outbox[e] = "pending"}, unread \in SUBSET Wanted :
          row' = [k \in Keys |->
                    IF k \in {x \in Wanted \ unread :
                                x[1] \in batch /\ endpoint[x[2]] = "enabled" /\ row[x] = "none"}
                    THEN "pending" ELSE row[k]]
    BY <1>3 DEF FanOut
  <2> DEFINE new == {x \in Wanted \ unread :
                       x[1] \in batch /\ endpoint[x[2]] = "enabled" /\ row[x] = "none"}
  <2>2. new \in SUBSET Keys /\ \A k \in new : Debt[k] = "none"
    BY <1>0, ConstantsOK
  <2>3. Debt' = [k \in Keys |-> IF k \in new THEN "owed" ELSE Debt[k]]
    BY <2>1 DEF Debt
  <2>4. UNCHANGED <<answer, attempts>>
    BY <1>3 DEF FanOut, history
  <2> QED BY <2>2, <2>3, <2>4
<1>4. ASSUME NEW k \in Keys, Claim(k) PROVE [Owed!Next]_<<Debt, answer, attempts>>
  <2>1. Debt[k] = "owed"
    BY <1>0, <1>4 DEF Claim, Claimable
  <2>2. Debt' = Debt
    BY <1>4, <1>d DEF Claim, Claimable, TypeOK
  <2> QED BY <1>4, <2>1, <2>2 DEF Claim
<1>5. CASE CheckStops
  <2>1. Debt' = Debt
    BY <1>5, <1>d DEF CheckStops, Held, Holding, TypeOK
  <2> QED BY <1>5, <2>1 DEF CheckStops, history
<1>6. ASSUME NEW result \in {"ok", "refused", "failed"}, Post(result)
      PROVE  [Owed!Next]_<<Debt, answer, attempts>>
  <2>1. at \in Keys /\ Debt[at] = "owed" /\ attempts[at] > 0
    BY <1>0, <1>6 DEF Post, Held, Holding, TypeOK
  <2>2. UNCHANGED row /\ UNCHANGED attempts
    BY <1>6 DEF Post, rows, claims
  <2>3. Debt' = Debt
    BY <2>2 DEF Debt
  <2>4. CASE result = "failed"
    BY <1>6, <2>2, <2>3, <2>4 DEF Post, TypeOK
  <2>5. CASE result = "ok"
    BY <1>6, <2>1, <2>2, <2>3, <2>5 DEF Post
  <2>6. CASE result = "refused"
    BY <1>6, <2>1, <2>2, <2>3, <2>6 DEF Post
  <2> QED BY <2>4, <2>5, <2>6
<1>7. CASE Record
  <2>1. /\ at \in Keys /\ Debt[at] = "owed" /\ row[at] = "sending"
        /\ attempt[at] = mine /\ attempts[at] = before + 1
    BY <1>0, <1>7 DEF Record, Held, Holding
  <2>2. UNCHANGED <<answer, attempts>> /\ row' = [row EXCEPT ![at] = Outcome(status, before)]
    BY <1>7, <2>1 DEF Record
  <2>3. CASE status = "ok"
    <3>1. answer[at] = "accepted" /\ Debt' = [Debt EXCEPT ![at] = "paid"]
      BY <1>7, <2>1, <2>2, <2>3 DEF Record, Heard, Outcome, Debt, TypeOK
    <3> QED BY <2>1, <2>2, <3>1
  <2>4. CASE status /= "ok" /\ (status = "refused" \/ before + 1 >= MaxAttempts)
    <3>1. answer[at] = "refused" \/ (answer[at] = "silent" /\ attempts[at] >= MaxAttempts)
      BY <1>7, <2>1, <2>4 DEF Record, Heard
    <3>2. Debt' = [Debt EXCEPT ![at] = "given_up"]
      BY <2>1, <2>2, <2>4 DEF Outcome, Debt, TypeOK
    <3> QED BY <2>1, <2>2, <3>1, <3>2
  <2>5. CASE status /= "ok" /\ ~(status = "refused" \/ before + 1 >= MaxAttempts)
    <3>1. Debt' = Debt
      BY <1>d, <2>1, <2>2, <2>5 DEF Outcome, TypeOK
    <3> QED BY <2>2, <3>1
  <2> QED BY <2>3, <2>4, <2>5
<1>8. \/ UNCHANGED <<row, answer, attempts>>
      \/ (\E k \in Keys : Replay(k) \/ Claim(k)) \/ FanOut \/ CheckStops
      \/ (\E result \in {"ok", "refused", "failed"} : Post(result)) \/ Record
  BY DEF Next, Operators, Worker, Emit, CreateEndpoint, DeleteEndpoint, PauseProject, Resume,
     StartTick, EndLoop, ReadEndpoint, Log, EndTick, FailRead, Elapse, EndAbruptly, vars, rows,
     claims, history
<1> QED BY <1>1, <1>2, <1>3, <1>4, <1>5, <1>6, <1>7, <1>8

\* The worker, its leases and everything that ends a Tick implement the ledger of
\* debts: what is owed is paid by an answer of its own, or given up in turn.
THEOREM Refinement == Spec => ImplementsEventLedger
<1>1. Init => Owed!Init
  BY DEF Init, Owed!Init, Debt
<1>2. IInv /\ [Next]_vars => [Owed!Next]_<<Debt, answer, attempts>>
  BY LedgerStep
<1> QED BY <1>1, <1>2, Inductive, PTL DEF Spec, ImplementsEventLedger, Owed!Spec
=============================================================================
