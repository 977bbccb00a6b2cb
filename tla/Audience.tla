------------------------------ MODULE Audience ------------------------------
(***************************************************************************)
(* The contract between those who keep consent and those who send mail:    *)
(* how the circle of people a list may be mailed to can change.  People    *)
(* join one at a time, by their own doing; whoever was barred never joins  *)
(* again; a deployment closes or reopens the list and may dismiss          *)
(* everybody, but it lets nobody in.                                       *)
(***************************************************************************)

CONSTANT People

VARIABLES
  willing,   \* agreed to the policy in force, and may be mailed while the list is open
  barred,    \* suppressed or deleted
  closed     \* the list is retired

TypeOK ==
  /\ willing \subseteq People
  /\ barred \subseteq People
  /\ willing \cap barred = {}
  /\ closed \in BOOLEAN

Init ==
  /\ willing \in SUBSET People
  /\ barred = {}
  /\ closed \in BOOLEAN

Join(p) ==
  /\ p \notin willing \cup barred
  /\ willing' = willing \cup {p}
  /\ UNCHANGED <<barred, closed>>

Leave(p) ==
  /\ p \in willing
  /\ willing' = willing \ {p}
  /\ UNCHANGED <<barred, closed>>

Bar(p) ==
  /\ p \notin barred
  /\ barred' = barred \cup {p}
  /\ willing' = willing \ {p}
  /\ UNCHANGED closed

Deploy(close, dismiss) ==
  /\ closed' = close
  /\ willing' = IF dismiss THEN {} ELSE willing
  /\ UNCHANGED barred

Next ==
  \/ \E p \in People : Join(p) \/ Leave(p) \/ Bar(p)
  \/ \E close, dismiss \in BOOLEAN : Deploy(close, dismiss)

circle == <<willing, barred, closed>>

Spec == Init /\ [][Next]_circle
=============================================================================
