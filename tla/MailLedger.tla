----------------------------- MODULE MailLedger -----------------------------
(***************************************************************************)
(* What sending promises, for every mail identified by a key (a broadcast  *)
(* and a contact, an enrollment and a step): at most one copy is ever      *)
(* handed to the next mail server.  A mail is open, being attempted, or    *)
(* closed; it is opened again only after an attempt that provably left no  *)
(* copy behind, and once closed it is never attempted again.               *)
(***************************************************************************)
EXTENDS Naturals

CONSTANT Mails

VARIABLES
  ledger,   \* state of each mail
  copies    \* copies the next mail server took

TypeOK ==
  /\ ledger \in [Mails -> {"open", "attempted", "closed"}]
  /\ copies \in [Mails -> 0..1]

Init ==
  /\ ledger = [m \in Mails |-> "open"]
  /\ copies = [m \in Mails |-> 0]

\* The intent is durable before the mail leaves.
Attempt(m) ==
  /\ ledger[m] = "open" /\ copies[m] = 0
  /\ ledger' = [ledger EXCEPT ![m] = "attempted"]
  /\ UNCHANGED copies

\* The server takes the mail, at most once, whatever the sender learns of it.
Take(m) ==
  /\ ledger[m] /= "open" /\ copies[m] = 0
  /\ copies' = [copies EXCEPT ![m] = 1]
  /\ UNCHANGED ledger

\* The attempt certainly left no copy: it may be repeated.
Reopen(m) ==
  /\ ledger[m] = "attempted" /\ copies[m] = 0
  /\ ledger' = [ledger EXCEPT ![m] = "open"]
  /\ UNCHANGED copies

\* Accepted, refused, unknown, or reported on by the provider.
Close(m) ==
  /\ ledger[m] /= "closed"
  /\ ledger' = [ledger EXCEPT ![m] = "closed"]
  /\ UNCHANGED copies

\* Mails are given up together: a deleted contact's, or all whose lease ran out.
Abandon(given) ==
  /\ \A m \in given : ledger[m] /= "closed"
  /\ ledger' = [m \in Mails |-> IF m \in given THEN "closed" ELSE ledger[m]]
  /\ UNCHANGED copies

Next ==
  \/ \E m \in Mails : Attempt(m) \/ Take(m) \/ Reopen(m) \/ Close(m)
  \/ \E given \in SUBSET Mails : Abandon(given)

Spec == Init /\ [][Next]_<<ledger, copies>>
=============================================================================
