---------------------------- MODULE EventLedger ----------------------------
(***************************************************************************)
(* What a webhook subscription promises, for every pair of an event and an *)
(* endpoint: the event is owed from the moment it is distributed until an  *)
(* attempt made for this very debt was acknowledged, or until it is given  *)
(* up, after a refusal or after enough attempts.  A replay makes it owed   *)
(* again, and nothing that happened before the replay can pay it.          *)
(***************************************************************************)
EXTENDS Naturals

CONSTANTS Debts, Patience   \* attempts before an unacknowledged event is given up

VARIABLES
  debt,     \* "none", "owed", "paid" or "given_up"
  answer,   \* what the endpoint said to the last attempt
  tries     \* attempts since the event became owed

TypeOK ==
  /\ debt \in [Debts -> {"none", "owed", "paid", "given_up"}]
  /\ answer \in [Debts -> {"silent", "accepted", "refused"}]
  /\ tries \in [Debts -> Nat]

Init ==
  /\ debt = [d \in Debts |-> "none"]
  /\ answer = [d \in Debts |-> "silent"]
  /\ tries = [d \in Debts |-> 0]

\* An event is distributed to all its subscribers at once.
Owe(owed) ==
  /\ \A d \in owed : debt[d] = "none"
  /\ debt' = [d \in Debts |-> IF d \in owed THEN "owed" ELSE debt[d]]
  /\ UNCHANGED <<answer, tries>>

Try(d) ==
  /\ debt[d] = "owed"
  /\ answer' = [answer EXCEPT ![d] = "silent"]
  /\ tries' = [tries EXCEPT ![d] = @ + 1]
  /\ UNCHANGED debt

Answer(d, a) ==
  /\ debt[d] = "owed" /\ tries[d] > 0
  /\ answer' = [answer EXCEPT ![d] = a]
  /\ UNCHANGED <<debt, tries>>

Pay(d) ==
  /\ debt[d] = "owed" /\ answer[d] = "accepted"
  /\ debt' = [debt EXCEPT ![d] = "paid"]
  /\ UNCHANGED <<answer, tries>>

GiveUp(d) ==
  /\ debt[d] = "owed"
  /\ \/ answer[d] = "refused"
     \/ answer[d] = "silent" /\ tries[d] >= Patience
  /\ debt' = [debt EXCEPT ![d] = "given_up"]
  /\ UNCHANGED <<answer, tries>>

Replay(d) ==
  /\ debt[d] /= "none"
  /\ debt' = [debt EXCEPT ![d] = "owed"]
  /\ answer' = [answer EXCEPT ![d] = "silent"]
  /\ tries' = [tries EXCEPT ![d] = 0]

Next ==
  \/ \E owed \in SUBSET Debts : Owe(owed)
  \/ \E d \in Debts :
       Try(d) \/ (\E a \in {"accepted", "refused"} : Answer(d, a))
       \/ Pay(d) \/ GiveUp(d) \/ Replay(d)

Spec == Init /\ [][Next]_<<debt, answer, tries>>
=============================================================================
