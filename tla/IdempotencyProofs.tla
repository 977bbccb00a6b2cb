------------------------- MODULE IdempotencyProofs -------------------------
(***************************************************************************)
(* Theorems about module Idempotency, for any number of requests, keys and *)
(* inputs, and any bounds.  Each part of the inductive invariant has a     *)
(* lemma of its own, with one step per action; InvariantHolds joins them.  *)
(***************************************************************************)
EXTENDS Idempotency, TLAPS

\* A request that has begun carries a key and an input.
Named == \A r \in Requests : ~At(r, "idle") => Key(r) \in Keys /\ request[r].input \in Inputs

\* Contact ids are drawn in order.
Drawn ==
  /\ contact.id <= created
  /\ \A r \in Requests : request[r].id <= created
  /\ \A r \in Requests : At(r, "store") => request[r].reply.id /= 0
  /\ \A k \in Keys : row[k].response = "stored" => row[k].reply.id /= 0

\* Wherever an operation may yet be applied, it was applied at most once for
\* each deletion and each lookup of its own that failed; an operation that goes
\* on after its upsert was applied.
Counted ==
  /\ \A k \in Keys :
       /\ applied[k] <= 1 + deletions + missed[k]
       /\ row[k].response = "none" => applied[k] <= deletions + missed[k]
       /\ row[k].response \in {"stored", "redacted"} => applied[k] >= 1
  /\ \A r \in Requests, k \in Keys : Working(r, k) =>
       /\ request[r].step \in {"upsert", "release"} => applied[k] <= deletions + missed[k]
       /\ At(r, "find") /\ contact.id = 0 => applied[k] <= deletions + missed[k]
       /\ At(r, "read") /\ (contact.id = 0 \/ request[r].id /= contact.id)
            => applied[k] <= deletions + missed[k]
       /\ request[r].step \in {"find", "read", "store"} => applied[k] >= 1

\* The answers given to a key are those of its row.
Given ==
  \A k \in Keys :
    /\ row[k].response \in {"none", "pending"} => answers[k] = {}
    /\ row[k].response = "stored" =>
         answers[k] \subseteq {[asked |-> row[k].input, reply |-> row[k].reply]}
    /\ \A a, b \in answers[k] : a = b

\* A reply on its way is about the live contact, or a deletion overtook it.
OnTheWay ==
  \A r \in Requests :
    At(r, "store") /\ request[r].reply.id /= contact.id => Key(r) \in overtaken

IInv ==
  /\ TypeOK /\ Named /\ OneAtATime /\ Drawn /\ Counted /\ Given /\ StuckOnlyWhenAbandoned
  /\ OnTheWay /\ DeletionRedactsAnswers

-----------------------------------------------------------------------------
(* Lemmas *)

\* What the records of the model are made of.
LEMMA Forms ==
  ASSUME TypeOK
  PROVE  /\ Ids \subseteq Nat /\ Nobody \in Profiles /\ NoRow \in Rows /\ 0 \in Ids
         /\ contact = [id |-> contact.id, input |-> contact.input]
         /\ contact.id \in Ids /\ contact.input \in Inputs \cup {Nil}
         /\ \A k \in Keys : /\ row[k].input \in Inputs \cup {Nil}
                            /\ row[k].response \in {"none", "pending", "stored", "redacted"}
                            /\ row[k].reply \in Profiles /\ row[k].reply.id \in Ids
         /\ \A r \in Requests : /\ request[r].step \in Steps /\ Key(r) \in Keys \cup {Nil}
                                /\ request[r].input \in Inputs \cup {Nil}
                                /\ request[r].id \in Ids /\ request[r].reply \in Profiles
                                /\ request[r].reply.id \in Ids
BY ConstantsOK DEF TypeOK, Ids, Profiles, Rows, Nobody, NoRow, Key, Steps

\* A request goes on to a step, with its key and input; the others stay.
Moves(r, step) ==
  /\ request' \in [Requests -> [step : Steps, key : Keys \cup {Nil}, input : Inputs \cup {Nil},
                                id : Ids, reply : Profiles]]
  /\ request'[r].step = step
  /\ request'[r].key = request[r].key /\ request'[r].input = request[r].input
  /\ \A x \in Requests : x /= r => request'[x] = request[x]

LEMMA Carried ==
  ASSUME TypeOK, NEW r \in Requests, NEW step \in Steps, NEW id \in Ids, Carry(r, step, id)
  PROVE  Moves(r, step) /\ request'[r].id = id
<1>1. request' = [request EXCEPT ![r] = [@ EXCEPT !.step = step, !.id = id]]
  BY DEF Carry
<1> QED BY <1>1 DEF Moves, TypeOK

\* How an upsert goes on: applied, with the id it drew, or failing.
LEMMA Upserted ==
  ASSUME TypeOK, Named, NEW r \in Requests, Upsert(r)
  PROVE  /\ Key(r) \in Keys /\ request[r].input \in Inputs
         /\ \/ /\ Moves(r, "find") /\ request'[r].id <= created'
               /\ contact' = [id |-> IF contact.id = 0 THEN created + 1 ELSE contact.id,
                               input |-> request[r].input]
               /\ contact'.id \in Ids
               /\ created' = IF contact.id = 0 THEN contact'.id ELSE created
               /\ applied' = [applied EXCEPT ![Key(r)] = @ + 1]
               /\ abandoned' = abandoned /\ trouble' = trouble
            \/ \E error \in AllErrors :
                 /\ Trouble /\ Fail(r, error)
                 /\ contact' = contact /\ created' = created /\ applied' = applied
<1>1. Key(r) \in Keys /\ request[r].input \in Inputs
  BY DEF Upsert, Named, At
<1>2. ASSUME NEW id \in Ids, id = IF contact.id = 0 THEN created + 1 ELSE contact.id,
             created' = IF contact.id = 0 THEN id ELSE created,
             Carry(r, "find", IF contact.id = 0 THEN id ELSE 0)
      PROVE  Moves(r, "find") /\ request'[r].id <= created'
  <2>1. 0 \in Ids /\ created \in Nat /\ Ids \subseteq Nat /\ "find" \in Steps
    BY Forms DEF TypeOK, Steps
  <2>2. CASE contact.id = 0
    <3>1. Carry(r, "find", id)
      BY <1>2, <2>2
    <3> QED BY <1>2, <2>1, <2>2, <3>1, Carried
  <2>3. CASE contact.id /= 0
    <3>1. Carry(r, "find", 0)
      BY <1>2, <2>3
    <3> QED BY <1>2, <2>1, <2>3, <3>1, Carried
  <2> QED BY <2>2, <2>3
<1>3. CASE \E error \in AllErrors :
             Trouble /\ Fail(r, error) /\ UNCHANGED <<contact, created, applied>>
  BY <1>1, <1>3
<1>4. ASSUME NEW id \in Ids, id = IF contact.id = 0 THEN created + 1 ELSE contact.id,
             contact' = [id |-> id, input |-> request[r].input],
             created' = IF contact.id = 0 THEN id ELSE created,
             applied' = [applied EXCEPT ![Key(r)] = @ + 1],
             Carry(r, "find", IF contact.id = 0 THEN id ELSE 0),
             UNCHANGED <<abandoned, trouble>>
      PROVE  /\ Moves(r, "find") /\ request'[r].id <= created'
             /\ contact' = [id |-> IF contact.id = 0 THEN created + 1 ELSE contact.id,
                             input |-> request[r].input]
             /\ contact'.id \in Ids
             /\ created' = IF contact.id = 0 THEN contact'.id ELSE created
             /\ applied' = [applied EXCEPT ![Key(r)] = @ + 1]
             /\ abandoned' = abandoned /\ trouble' = trouble
  BY <1>2, <1>4
<1> QED BY <1>1, <1>3, <1>4 DEF Upsert

\* How a request goes on from looking its contact up: with the live contact's id,
\* or with the id it had.
LEMMA Found ==
  ASSUME TypeOK, Named, NEW r \in Requests, Find(r)
  PROVE  /\ Key(r) \in Keys /\ Moves(r, "read")
         /\ request'[r].id \in {contact.id, request[r].id}
         /\ \/ request'[r].id = contact.id \/ contact.id = 0
            \/ missed'[Key(r)] = missed[Key(r)] + 1
         /\ \/ missed' = missed
            \/ missed' = [missed EXCEPT ![Key(r)] = @ + 1]
         /\ trouble' \in 0..MaxTrouble
<1>1. Key(r) \in Keys
  BY DEF Find, Named, At
<1>2. contact.id \in Ids /\ request[r].id \in Ids /\ "read" \in Steps
  BY Forms DEF Steps
<1>3. trouble' \in 0..MaxTrouble
  BY ConstantsOK DEF Find, Trouble, TypeOK
<1>4. CASE Carry(r, "read", IF contact.id = 0 THEN request[r].id ELSE contact.id)
           /\ UNCHANGED <<missed, trouble>>
  <2>1. CASE contact.id = 0
    <3>1. Carry(r, "read", request[r].id)
      BY <1>4, <2>1
    <3> QED BY <1>1, <1>2, <1>3, <1>4, <2>1, <3>1, Carried
  <2>2. CASE contact.id /= 0
    <3>1. Carry(r, "read", contact.id)
      BY <1>4, <2>2
    <3> QED BY <1>1, <1>2, <1>3, <1>4, <2>2, <3>1, Carried
  <2> QED BY <2>1, <2>2
<1>5. CASE /\ Trouble /\ Carry(r, "read", request[r].id)
           /\ missed' = IF request[r].id = contact.id THEN missed
                        ELSE [missed EXCEPT ![Key(r)] = @ + 1]
  <2>1. Moves(r, "read") /\ request'[r].id = request[r].id
    BY <1>2, <1>5, Carried
  <2>2. request[r].id /= contact.id => missed'[Key(r)] = missed[Key(r)] + 1
    BY <1>1, <1>5 DEF TypeOK
  <2> QED BY <1>1, <1>3, <1>5, <2>1, <2>2
<1> QED BY <1>4, <1>5 DEF Find

LEMMA InitiallyHolds == Init => IInv
<1> SUFFICES ASSUME Init PROVE IInv OBVIOUS
<1> USE ConstantsOK DEF Init
<1>1. TypeOK
  BY DEF TypeOK, Nobody, NoRow, Idle, Profiles, Rows, Ids, Steps
<1>2. Named /\ OneAtATime /\ OnTheWay
  BY DEF Named, OneAtATime, OnTheWay, Working, At, Idle
<1>3. Drawn
  BY DEF Drawn, At, Idle, Nobody, NoRow
<1>4. Counted /\ Given /\ StuckOnlyWhenAbandoned /\ DeletionRedactsAnswers
  BY DEF Counted, Given, StuckOnlyWhenAbandoned, DeletionRedactsAnswers, Working, At, Idle,
     NoRow
<1> QED BY <1>1, <1>2, <1>3, <1>4 DEF IInv

\* The step of one request, and what it leaves of the others.
LEMMA TypeHolds == IInv /\ [Next]_vars => TypeOK' /\ Named'
<1> SUFFICES ASSUME IInv, [Next]_vars PROVE TypeOK' /\ Named' OBVIOUS
<1> TypeOK /\ Named BY DEF IInv
<1>0. Ids \subseteq Nat /\ Nobody \in Profiles /\ NoRow \in Rows /\ 0 \in Ids
  BY Forms
<1>t. Trouble => trouble' \in 0..MaxTrouble
  BY ConstantsOK DEF Trouble, TypeOK
<1>1. ASSUME NEW r \in Requests, NEW k \in Keys, NEW i \in Inputs, Lookup(r, k, i)
      PROVE  TypeOK' /\ Named'
  <2>1. request' \in [Requests -> [step : Steps, key : Keys \cup {Nil}, input : Inputs \cup {Nil},
                                    id : Ids, reply : Profiles]]
    BY <1>0, <1>1 DEF Lookup, TypeOK, Steps
  <2>2. answers' \in [Keys -> SUBSET [asked : Inputs, reply : Profiles]]
    BY <1>1, Forms DEF Lookup, TypeOK, Succeed
  <2>3. Named'
    BY <1>1 DEF Lookup, Named, TypeOK, At, Key
  <2> QED BY <1>1, <2>1, <2>2, <2>3 DEF TypeOK, Lookup
<1>2. ASSUME NEW r \in Requests, Claim(r) PROVE TypeOK' /\ Named'
  <2>1. Key(r) \in Keys /\ request[r].input \in Inputs
    BY <1>2 DEF Claim, At, Named
  <2>2. row' \in [Keys -> Rows] /\ abandoned' \subseteq Keys
    BY <1>0, <1>2, <2>1 DEF Claim, TypeOK, Rows
  <2>3. request' \in [Requests -> [step : Steps, key : Keys \cup {Nil}, input : Inputs \cup {Nil},
                                    id : Ids, reply : Profiles]]
    BY <1>0, <1>2 DEF Claim, Goto, Answer, Idle, TypeOK, Steps
  <2>4. Named'
    BY <1>2 DEF Claim, Goto, Answer, Idle, Named, TypeOK, At, Key
  <2> QED BY <1>2, <2>2, <2>3, <2>4 DEF TypeOK, Claim
<1>3. ASSUME NEW r \in Requests, Upsert(r) PROVE TypeOK' /\ Named'
  <2>1. Key(r) \in Keys /\ request[r].input \in Inputs
    BY <1>3, Upserted
  <2>2. CASE \E error \in AllErrors : /\ Trouble /\ Fail(r, error)
                                      /\ UNCHANGED <<contact, created, applied>>
    <3>1. request' \in [Requests -> [step : Steps, key : Keys \cup {Nil},
                                      input : Inputs \cup {Nil}, id : Ids, reply : Profiles]]
      BY <1>0, <2>2 DEF Fail, Goto, Answer, Idle, TypeOK, Steps
    <3>2. Named'
      BY <2>1, <2>2 DEF Fail, Goto, Answer, Idle, Named, TypeOK, At, Key
    <3>3. abandoned' \subseteq Keys /\ trouble' \in 0..MaxTrouble
      BY <1>t, <2>1, <2>2 DEF Fail, Abandon, TypeOK
    <3> QED BY <1>3, <2>2, <3>1, <3>2, <3>3 DEF TypeOK, Upsert
  <2>3. CASE /\ Moves(r, "find")
             /\ contact' = [id |-> IF contact.id = 0 THEN created + 1 ELSE contact.id,
                             input |-> request[r].input]
             /\ contact'.id \in Ids
             /\ created' = IF contact.id = 0 THEN contact'.id ELSE created
             /\ applied' = [applied EXCEPT ![Key(r)] = @ + 1]
             /\ abandoned' = abandoned /\ trouble' = trouble
    <3>1. contact' \in Profiles /\ created' \in Ids
      BY <2>1, <2>3 DEF TypeOK, Profiles
    <3>2. applied' \in [Keys -> Nat]
      BY <2>1, <2>3 DEF TypeOK
    <3>3. Named'
      BY <2>1, <2>3 DEF Moves, Named, At, Key
    <3> QED BY <1>3, <2>3, <3>1, <3>2, <3>3 DEF TypeOK, Upsert, Moves
  <2> QED BY <1>3, <2>2, <2>3, Upserted
<1>4. ASSUME NEW r \in Requests, Find(r) PROVE TypeOK' /\ Named'
  <2>1. /\ Key(r) \in Keys /\ Moves(r, "read") /\ trouble' \in 0..MaxTrouble
        /\ \/ missed' = missed
           \/ missed' = [missed EXCEPT ![Key(r)] = @ + 1]
    BY <1>4, Found
  <2>2. request[r].input \in Inputs
    BY <1>4 DEF Find, Named, At
  <2>3. missed' \in [Keys -> Nat]
    BY <2>1 DEF TypeOK
  <2>4. Named'
    BY <2>1, <2>2 DEF Moves, Named, At, Key
  <2> QED BY <1>4, <2>1, <2>3, <2>4 DEF TypeOK, Find, Moves
<1>5. ASSUME NEW r \in Requests, Read(r) PROVE TypeOK' /\ Named'
  <2>1. Key(r) \in Keys
    BY <1>5 DEF Read, At, Named
  <2>2. request' \in [Requests -> [step : Steps, key : Keys \cup {Nil}, input : Inputs \cup {Nil},
                                    id : Ids, reply : Profiles]]
    BY <1>0, <1>5 DEF Read, Fail, Goto, Answer, Idle, TypeOK, Steps
  <2>3. Named'
    BY <1>5 DEF Read, Fail, Goto, Answer, Idle, Named, TypeOK, At, Key
  <2>4. abandoned' \subseteq Keys /\ trouble' \in 0..MaxTrouble
    BY <1>5, <1>t, <2>1 DEF Read, Fail, Abandon, TypeOK
  <2> QED BY <1>5, <2>2, <2>3, <2>4 DEF TypeOK, Read
<1>6. ASSUME NEW r \in Requests, Store(r) PROVE TypeOK' /\ Named'
  <2>1. Key(r) \in Keys /\ request[r].input \in Inputs /\ request[r].reply \in Profiles
    BY <1>6, Forms DEF Store, At, Named
  <2>2. row' \in [Keys -> Rows]
    BY <1>6, <2>1 DEF Store, TypeOK, Rows
  <2>3. answers' \in [Keys -> SUBSET [asked : Inputs, reply : Profiles]]
    BY <1>6, <2>1 DEF Store, Succeed, TypeOK
  <2>4. request' \in [Requests -> [step : Steps, key : Keys \cup {Nil}, input : Inputs \cup {Nil},
                                    id : Ids, reply : Profiles]]
    BY <1>0, <1>6 DEF Store, Answer, Idle, TypeOK, Steps
  <2>5. Named'
    BY <1>6 DEF Store, Answer, Idle, Named, TypeOK, At, Key
  <2> QED BY <1>6, <2>2, <2>3, <2>4, <2>5 DEF TypeOK, Store
<1>7. ASSUME NEW r \in Requests, Release(r) PROVE TypeOK' /\ Named'
  <2>1. row' \in [Keys -> Rows]
    BY <1>0, <1>7 DEF Release, TypeOK
  <2>2. request' \in [Requests -> [step : Steps, key : Keys \cup {Nil}, input : Inputs \cup {Nil},
                                    id : Ids, reply : Profiles]]
    BY <1>0, <1>7 DEF Release, Answer, Idle, TypeOK, Steps
  <2>3. Named'
    BY <1>7 DEF Release, Answer, Idle, Named, TypeOK, At, Key
  <2> QED BY <1>7, <2>1, <2>2, <2>3 DEF TypeOK, Release
<1>8. ASSUME NEW r \in Requests, Abort(r) PROVE TypeOK' /\ Named'
  <2>1. abandoned' \subseteq Keys /\ trouble' \in 0..MaxTrouble
    BY <1>8, <1>t DEF Abort, Abandon, Named, TypeOK
  <2>2. request' \in [Requests -> [step : Steps, key : Keys \cup {Nil}, input : Inputs \cup {Nil},
                                    id : Ids, reply : Profiles]]
    BY <1>0, <1>8 DEF Abort, Answer, Idle, TypeOK, Steps
  <2>3. Named'
    BY <1>8 DEF Abort, Answer, Idle, Named, TypeOK, At, Key
  <2> QED BY <1>8, <2>1, <2>2, <2>3 DEF TypeOK, Abort
<1>9. CASE Crash
  <2>1. abandoned' \subseteq Keys /\ trouble' \in 0..MaxTrouble
    BY <1>9, <1>t DEF Crash, Named, TypeOK
  <2>2. request' \in [Requests -> [step : Steps, key : Keys \cup {Nil}, input : Inputs \cup {Nil},
                                    id : Ids, reply : Profiles]]
    BY <1>0, <1>9 DEF Crash, Idle, Steps
  <2>3. Named'
    BY <1>9 DEF Crash, Idle, Named, At
  <2> QED BY <1>9, <2>1, <2>2, <2>3 DEF TypeOK, Crash
<1>10. CASE DeleteContact
  <2>1. row' \in [Keys -> Rows]
    BY <1>0, <1>10 DEF DeleteContact, RedactAnswers, TypeOK, Rows
  <2>2. overtaken' \subseteq Keys /\ deletions' \in Nat /\ trouble' \in 0..MaxTrouble
    BY <1>10, <1>t DEF DeleteContact, TypeOK, Named, At
  <2>3. Named'
    BY <1>10 DEF DeleteContact, Named, At, Key
  <2> QED BY <1>0, <1>10, <2>1, <2>2, <2>3 DEF TypeOK, DeleteContact
<1>11. CASE UNCHANGED vars
  BY <1>11 DEF vars, TypeOK, Named, At, Key
<1> QED BY <1>1, <1>2, <1>3, <1>4, <1>5, <1>6, <1>7, <1>8, <1>9, <1>10, <1>11 DEF Next, Serve

\* One request at a time works under a key: a claim needs a key without a row, and
\* while the row is pending nobody else gets one.
LEMMA AlonePerKey == IInv /\ [Next]_vars => OneAtATime'
<1> SUFFICES ASSUME IInv, [Next]_vars PROVE OneAtATime' OBVIOUS
<1> TypeOK /\ Named BY DEF IInv
<1> /\ \A k \in Keys : row[k].response \in {"none", "pending", "stored", "redacted"}
    /\ \A r \in Requests : request[r].step \in Steps
  BY Forms
<1> OneAtATime BY DEF IInv
<1>1. ASSUME NEW r \in Requests, NEW k \in Keys, NEW i \in Inputs, Lookup(r, k, i)
      PROVE  OneAtATime'
  <2>1. row' = row /\ \A x \in Requests :
             ~At(x, "idle")' /\ ~At(x, "claim")' => request'[x] = request[x]
    BY <1>1 DEF Lookup, At, TypeOK
  <2> QED BY <2>1 DEF OneAtATime, Working, At, Key
<1>2. ASSUME NEW r \in Requests, Claim(r) PROVE OneAtATime'
  BY <1>2 DEF Claim, IsFree, Goto, Answer, Idle, OneAtATime, Working, At, Key, TypeOK, Named
<1>3. ASSUME NEW r \in Requests, Upsert(r) PROVE OneAtATime'
  <2>1. row' = row /\ Working(r, Key(r))
    BY <1>3 DEF Upsert, Working, At
  <2>2. \/ Moves(r, "find")
        \/ \E error \in AllErrors : Fail(r, error)
    BY <1>3, Upserted
  <2>3. CASE Moves(r, "find")
    BY <2>1, <2>3 DEF Moves, OneAtATime, Working, At, Key
  <2>4. CASE \E error \in AllErrors : Fail(r, error)
    BY <2>1, <2>4 DEF Fail, Goto, Answer, Idle, OneAtATime, Working, At, Key, TypeOK
  <2> QED BY <2>2, <2>3, <2>4
<1>4. ASSUME NEW r \in Requests, Find(r) PROVE OneAtATime'
  <2>1. row' = row /\ Working(r, Key(r)) /\ Moves(r, "read")
    BY <1>4, Found DEF Find, Working, At
  <2> QED BY <2>1 DEF Moves, OneAtATime, Working, At, Key
<1>5. ASSUME NEW r \in Requests, Read(r) PROVE OneAtATime'
  BY <1>5 DEF Read, Fail, FreeingErrors, Abandon, Goto, Answer, Idle, OneAtATime, Working, At,
     Key, TypeOK, Named
<1>6. ASSUME NEW r \in Requests, Store(r) PROVE OneAtATime'
  BY <1>6 DEF Store, Mine, Succeed, Answer, Idle, OneAtATime, Working, At, Key, TypeOK, Named
<1>7. ASSUME NEW r \in Requests, Release(r) PROVE OneAtATime'
  BY <1>7 DEF Release, Answer, Idle, NoRow, OneAtATime, Working, At, Key, TypeOK, Named
<1>8. ASSUME NEW r \in Requests, Abort(r) PROVE OneAtATime'
  BY <1>8 DEF Abort, Abandon, Answer, Idle, OneAtATime, Working, At, Key, TypeOK, Named
<1>9. CASE Crash
  BY <1>9 DEF Crash, Idle, OneAtATime, Working, At, Key, TypeOK, Named
<1>10. CASE DeleteContact
  BY <1>10 DEF DeleteContact, RedactAnswers, Nobody, OneAtATime, Working, At, Key, TypeOK, Named
<1>11. CASE UNCHANGED vars
  BY <1>11 DEF vars, OneAtATime, Working, At, Key, TypeOK, Named
<1> QED BY <1>1, <1>2, <1>3, <1>4, <1>5, <1>6, <1>7, <1>8, <1>9, <1>10, <1>11 DEF Next, Serve

\* Contact ids are drawn in order, and replies name a contact.
LEMMA DrawnInOrder == IInv /\ [Next]_vars => Drawn'
<1> SUFFICES ASSUME IInv, [Next]_vars PROVE Drawn' OBVIOUS
<1> TypeOK /\ Named BY DEF IInv
<1> /\ \A k \in Keys : row[k].response \in {"none", "pending", "stored", "redacted"}
    /\ \A r \in Requests : request[r].step \in Steps
  BY Forms
<1> Drawn BY DEF IInv
<1> Ids \subseteq Nat /\ contact.id \in Nat /\ created \in Nat
  BY Forms DEF TypeOK
<1> \A r \in Requests : request[r].id \in Nat /\ request[r].reply.id \in Nat
  BY Forms
<1>1. ASSUME NEW r \in Requests, NEW k \in Keys, NEW i \in Inputs, Lookup(r, k, i)
      PROVE  Drawn'
  <2>1. /\ row' = row /\ contact' = contact /\ created' = created
        /\ \A x \in Requests : request'[x] = request[x] \/ (request'[x].id = 0 /\ At(x, "claim")')
    BY <1>1 DEF Lookup, TypeOK, At
  <2> QED BY <2>1 DEF Drawn, At
<1>2. ASSUME NEW r \in Requests, Claim(r) PROVE Drawn'
  <2>1. /\ contact' = contact /\ created' = created
        /\ \A k \in Keys : row'[k].response = "stored" => row'[k] = row[k]
    BY <1>2 DEF Claim, TypeOK
  <2>2. \A x \in Requests : \/ request'[x].id = request[x].id /\ At(x, "upsert")'
                            \/ request'[x] \in {request[x], Idle}
    BY <1>2 DEF Claim, Goto, Answer, TypeOK, At
  <2> QED BY <2>1, <2>2 DEF Drawn, At, Idle
<1>3. ASSUME NEW r \in Requests, Upsert(r) PROVE Drawn'
  <2>1. /\ contact'.id \in Nat /\ created' \in Nat
        /\ contact'.id <= created' /\ created <= created' /\ row' = row
    BY <1>3 DEF Upsert, Drawn
  <2>2. \A x \in Requests : \/ (request'[x].id <= created' /\ ~At(x, "store")')
                            \/ request'[x].id = request[x].id /\ ~At(x, "store")'
                            \/ request'[x] = request[x]
                            \/ request'[x] = Idle
    <3>1. \/ Moves(r, "find") /\ request'[r].id <= created'
          \/ \E error \in AllErrors : Fail(r, error)
      BY <1>3, Upserted
    <3>2. CASE Moves(r, "find") /\ request'[r].id <= created'
      BY <3>2 DEF Moves, At
    <3>3. CASE \E error \in AllErrors : Fail(r, error)
      BY <3>3 DEF Fail, Goto, Answer, At, TypeOK
    <3> QED BY <3>1, <3>2, <3>3
  <2>3. \A x \in Requests : request'[x].id <= created'
    BY <2>1, <2>2 DEF Drawn, Idle
  <2>4. \A x \in Requests : At(x, "store")' => request'[x].reply.id /= 0
    BY <2>2 DEF Drawn, At, Idle
  <2> QED BY <2>1, <2>3, <2>4 DEF Drawn
<1>4. ASSUME NEW r \in Requests, Find(r) PROVE Drawn'
  <2>1. /\ row' = row /\ contact' = contact /\ created' = created
        /\ Moves(r, "read") /\ request'[r].id \in {contact.id, request[r].id}
    BY <1>4, Found DEF Find
  <2> QED BY <2>1 DEF Moves, Drawn, At
<1>5. ASSUME NEW r \in Requests, Read(r) PROVE Drawn'
  BY <1>5 DEF Read, Fail, FreeingErrors, Abandon, Goto, Answer, Idle, Drawn, At, Key, TypeOK,
     Named, NoRow
<1>6. ASSUME NEW r \in Requests, Store(r) PROVE Drawn'
  BY <1>6 DEF Store, Mine, Succeed, Answer, Idle, Drawn, At, Key, TypeOK, Named, NoRow
<1>7. ASSUME NEW r \in Requests, Release(r) PROVE Drawn'
  BY <1>7 DEF Release, Answer, Idle, NoRow, Drawn, At, Key, TypeOK, Named, NoRow
<1>8. ASSUME NEW r \in Requests, Abort(r) PROVE Drawn'
  BY <1>8 DEF Abort, Abandon, Answer, Idle, Drawn, At, Key, TypeOK, Named, NoRow
<1>9. CASE Crash
  BY <1>9 DEF Crash, Idle, Drawn, At, Key, TypeOK, Named, NoRow
<1>10. CASE DeleteContact
  <2>1. \A k \in Keys : row'[k].response = "stored" => row'[k] = row[k]
    BY <1>10 DEF DeleteContact, RedactAnswers, TypeOK, Rows
  <2>2. contact'.id = 0 /\ created' = created /\ request' = request
    BY <1>10 DEF DeleteContact, Nobody
  <2> QED BY <2>1, <2>2 DEF Drawn, At
<1>11. CASE UNCHANGED vars
  BY <1>11 DEF vars, Drawn, At, Key, TypeOK, Named, NoRow
<1> QED BY <1>1, <1>2, <1>3, <1>4, <1>5, <1>6, <1>7, <1>8, <1>9, <1>10, <1>11 DEF Next, Serve

\* A deletion redacts the stored answers that name the contact, and nothing else.
LEMMA Redaction ==
  ASSUME TypeOK, DeleteContact, NEW k \in Keys
  PROVE  /\ row'[k].input = row[k].input
         /\ \/ /\ row'[k] = row[k]
               /\ (row[k].response = "stored" => row[k].reply.id /= contact.id)
            \/ /\ row[k].response = "stored" /\ row[k].reply.id = contact.id
               /\ row'[k].response = "redacted"
BY DEF DeleteContact, RedactAnswers, TypeOK, Rows

\* What is applied under a key, against the deletions and lookups missed so far.
LEMMA AppliedIsCounted == IInv /\ [Next]_vars => Counted'
<1> SUFFICES ASSUME IInv, [Next]_vars PROVE Counted' OBVIOUS
<1> TypeOK /\ Named BY DEF IInv
<1> /\ \A k \in Keys : row[k].response \in {"none", "pending", "stored", "redacted"}
    /\ \A r \in Requests : request[r].step \in Steps
  BY Forms
<1> Ids \subseteq Nat /\ contact.id \in Nat /\ created \in Nat /\ deletions \in Nat
  BY Forms DEF TypeOK
<1> /\ \A r \in Requests : request[r].id \in Nat /\ request[r].reply.id \in Nat
    /\ \A k \in Keys : applied[k] \in Nat /\ missed[k] \in Nat
  BY Forms DEF TypeOK
<1> OneAtATime /\ Drawn /\ Counted BY DEF IInv
<1> USE DEF Drawn, OneAtATime
<1>1. ASSUME NEW r \in Requests, NEW k \in Keys, NEW i \in Inputs, Lookup(r, k, i)
      PROVE  Counted'
  BY <1>1 DEF Lookup, Succeed, Counted, Working, At, Key, TypeOK, Named, NoRow
<1>2. ASSUME NEW r \in Requests, Claim(r) PROVE Counted'
  <2>1. /\ applied' = applied /\ deletions' = deletions /\ missed' = missed /\ contact' = contact
        /\ Key(r) \in Keys /\ At(r, "claim")
    BY <1>2 DEF Claim, At, Named
  <2>2. CASE IsFree(Key(r))
    <3>1. /\ row[Key(r)].response = "none" /\ row'[Key(r)].response = "pending"
          /\ \A k \in Keys : k /= Key(r) => row'[k] = row[k]
      BY <1>2, <2>1, <2>2 DEF Claim, IsFree, TypeOK
    <3>2. /\ At(r, "upsert")' /\ Key(r)' = Key(r)
          /\ \A x \in Requests : x /= r => request'[x] = request[x]
      BY <1>2, <2>2 DEF Claim, Goto, At, Key, TypeOK
    <3> QED BY <2>1, <3>1, <3>2 DEF Counted, Working, At, Key
  <2>3. CASE ~IsFree(Key(r))
    <3>1. /\ row' = row /\ At(r, "idle")'
          /\ \A x \in Requests : x /= r => request'[x] = request[x]
      BY <1>2, <2>3 DEF Claim, Answer, Idle, At, TypeOK
    <3> QED BY <2>1, <3>1 DEF Counted, Working, At, Key
  <2> QED BY <2>2, <2>3
<1>3. ASSUME NEW r \in Requests, Upsert(r) PROVE Counted'
  <2>1. /\ row' = row /\ deletions' = deletions /\ missed' = missed /\ Key(r) \in Keys
        /\ At(r, "upsert") /\ Working(r, Key(r))
    BY <1>3 DEF Upsert, At, Named, Working
  <2>2. applied[Key(r)] <= deletions + missed[Key(r)] /\ row[Key(r)].response = "pending"
    BY <2>1 DEF Counted, At
  <2>3. \A x \in Requests : x /= r => ~Working(x, Key(r))
    BY <2>1
  <2>4. ASSUME applied' = [applied EXCEPT ![Key(r)] = @ + 1], Moves(r, "find"),
               contact' = [id |-> IF contact.id = 0 THEN created + 1 ELSE contact.id,
                           input |-> request[r].input]
        PROVE  Counted'
    <3>1. /\ applied'[Key(r)] = applied[Key(r)] + 1
          /\ \A k \in Keys : k /= Key(r) => applied'[k] = applied[k]
      BY <2>1, <2>4 DEF TypeOK
    <3>2. /\ At(r, "find")' /\ Key(r)' = Key(r)
          /\ \A x \in Requests : x /= r => request'[x] = request[x]
      BY <2>4 DEF Moves, At, Key
    <3>3. /\ contact'.id /= 0 /\ contact'.id \in Nat
          /\ \/ contact.id = 0
             \/ contact'.id = contact.id
      BY <2>4
    <3> QED BY <2>1, <2>2, <2>3, <3>1, <3>2, <3>3 DEF Counted, Working, At, Key
  <2>5. ASSUME NEW error \in AllErrors, Fail(r, error), applied' = applied, contact' = contact
        PROVE  Counted'
    <3>0. \A x \in Requests : x /= r => request'[x] = request[x]
      BY <2>5 DEF Fail, Goto, Answer, TypeOK
    <3>1. At(r, "idle")' \/ (At(r, "release")' /\ Key(r)' = Key(r))
      <4>1. Goto(r, "release") \/ Answer(r)
        BY <2>5 DEF Fail
      <4>2. Answer(r) => request'[r].step = "idle"
        BY DEF Answer, Idle, TypeOK
      <4>3. Goto(r, "release") =>
              request'[r].step = "release" /\ request'[r].key = request[r].key
        BY DEF Goto, TypeOK
      <4> QED BY <4>1, <4>2, <4>3 DEF At, Key
    <3> QED BY <2>1, <2>2, <2>3, <2>5, <3>0, <3>1 DEF Counted, Working, At, Key
  <2> QED BY <1>3, <2>4, <2>5, Upserted
<1>4. ASSUME NEW r \in Requests, Find(r) PROVE Counted'
  <2>1. /\ row' = row /\ contact' = contact /\ deletions' = deletions /\ applied' = applied
        /\ At(r, "find") /\ Working(r, Key(r)) /\ Key(r) \in Keys
    BY <1>4, Found DEF Find, Working, At
  <2>2. /\ Moves(r, "read")
        /\ \/ request'[r].id = contact.id \/ contact.id = 0
           \/ missed'[Key(r)] = missed[Key(r)] + 1
        /\ \/ missed' = missed
           \/ missed' = [missed EXCEPT ![Key(r)] = @ + 1]
    BY <1>4, Found
  <2>3. \A k \in Keys : missed'[k] \in Nat /\ missed[k] <= missed'[k]
    BY <2>1, <2>2 DEF TypeOK
  <2>4. \A k \in Keys :
          /\ applied'[k] <= 1 + deletions' + missed'[k]
          /\ row'[k].response = "none" => applied'[k] <= deletions' + missed'[k]
          /\ row'[k].response \in {"stored", "redacted"} => applied'[k] >= 1
    BY <2>1, <2>3 DEF Counted
  <2>5. ASSUME NEW x \in Requests, NEW k \in Keys, Working(x, k)'
        PROVE  /\ request'[x].step \in {"upsert", "release"} => applied'[k] <= deletions' + missed'[k]
               /\ At(x, "find")' /\ contact'.id = 0 => applied'[k] <= deletions' + missed'[k]
               /\ At(x, "read")' /\ (contact'.id = 0 \/ request'[x].id /= contact'.id)
                    => applied'[k] <= deletions' + missed'[k]
               /\ request'[x].step \in {"find", "read", "store"} => applied'[k] >= 1
    <3>1. CASE x = r
      <4>1. At(x, "read")' /\ k = Key(r)
        BY <2>2, <2>5, <3>1 DEF Moves, Working, At, Key
      <4>2. applied[k] >= 1 /\ applied[k] <= 1 + deletions + missed[k]
            /\ (contact.id = 0 => applied[k] <= deletions + missed[k])
        BY <2>1, <4>1 DEF Counted, At
      <4> QED BY <2>1, <2>2, <2>3, <3>1, <4>1, <4>2 DEF At
    <3>2. CASE x /= r
      <4>1. request'[x] = request[x] /\ Working(x, k)
        BY <2>2, <2>5, <3>2 DEF Moves, Working, At, Key
      <4> QED BY <2>1, <2>3, <4>1 DEF Counted, At
    <3> QED BY <3>1, <3>2
  <2> QED BY <2>4, <2>5 DEF Counted
<1>5. ASSUME NEW r \in Requests, Read(r) PROVE Counted'
  BY <1>5 DEF Read, Fail, FreeingErrors, Abandon, Goto, Answer, Idle, Counted, Working, At,
     Key, TypeOK, Named, NoRow
<1>6. ASSUME NEW r \in Requests, Store(r) PROVE Counted'
  BY <1>6 DEF Store, Mine, Succeed, Answer, Idle, Counted, Working, At, Key, TypeOK, Named,
     NoRow
<1>7. ASSUME NEW r \in Requests, Release(r) PROVE Counted'
  BY <1>7 DEF Release, Answer, Idle, NoRow, Counted, Working, At, Key, TypeOK, Named, NoRow
<1>8. ASSUME NEW r \in Requests, Abort(r) PROVE Counted'
  BY <1>8 DEF Abort, Abandon, Answer, Idle, Counted, Working, At, Key, TypeOK, Named, NoRow
<1>9. CASE Crash
  BY <1>9 DEF Crash, Idle, Counted, Working, At, Key, TypeOK, Named, NoRow
<1>10. CASE DeleteContact
  <2>1. contact.id /= 0 /\ contact'.id = 0 /\ request' = request
    BY <1>10 DEF DeleteContact, Nobody
  <2> QED BY <1>10, Redaction, <2>1 DEF DeleteContact, Counted, Working, At, Key
<1>11. CASE UNCHANGED vars
  BY <1>11 DEF vars, Counted, Working, At, Key, TypeOK, Named, NoRow
<1> QED BY <1>1, <1>2, <1>3, <1>4, <1>5, <1>6, <1>7, <1>8, <1>9, <1>10, <1>11 DEF Next, Serve

\* The answers given to a key are its row's.
LEMMA AnswersAreTheRows == IInv /\ [Next]_vars => Given'
<1> SUFFICES ASSUME IInv, [Next]_vars PROVE Given' OBVIOUS
<1> TypeOK /\ Named BY DEF IInv
<1> /\ \A k \in Keys : row[k].response \in {"none", "pending", "stored", "redacted"}
    /\ \A r \in Requests : request[r].step \in Steps
  BY Forms
<1> OneAtATime /\ Given BY DEF IInv
<1> USE DEF OneAtATime
<1>1. ASSUME NEW r \in Requests, NEW k \in Keys, NEW i \in Inputs, Lookup(r, k, i)
      PROVE  Given'
  <2>1. row' = row
    BY <1>1 DEF Lookup
  <2>2. \/ answers' = answers
        \/ /\ row[k].response = "stored" /\ i = row[k].input
           /\ answers' = [answers EXCEPT ![k] = @ \cup {[asked |-> row[k].input,
              reply |-> row[k].reply]}]
    BY <1>1 DEF Lookup, Succeed, SameFingerprint
  <2> QED BY <2>1, <2>2 DEF Given, TypeOK
<1>2. ASSUME NEW r \in Requests, Claim(r) PROVE Given'
  BY <1>2 DEF Claim, IsFree, Goto, Answer, Idle, Given, Working, At, Key, TypeOK, Named, NoRow
<1>3. ASSUME NEW r \in Requests, Upsert(r) PROVE Given'
  BY <1>3 DEF Upsert, Given
<1>4. ASSUME NEW r \in Requests, Find(r) PROVE Given'
  BY <1>4 DEF Find, Given
<1>5. ASSUME NEW r \in Requests, Read(r) PROVE Given'
  BY <1>5 DEF Read, Fail, FreeingErrors, Abandon, Goto, Answer, Idle, Given, Working, At, Key,
     TypeOK, Named, NoRow
<1>6. ASSUME NEW r \in Requests, Store(r) PROVE Given'
  BY <1>6 DEF Store, Mine, Succeed, Answer, Idle, Given, Working, At, Key, TypeOK, Named, NoRow
<1>7. ASSUME NEW r \in Requests, Release(r) PROVE Given'
  BY <1>7 DEF Release, Answer, Idle, NoRow, Given, Working, At, Key, TypeOK, Named, NoRow
<1>8. ASSUME NEW r \in Requests, Abort(r) PROVE Given'
  BY <1>8 DEF Abort, Abandon, Answer, Idle, Given, Working, At, Key, TypeOK, Named, NoRow
<1>9. CASE Crash
  BY <1>9 DEF Crash, Idle, Given, Working, At, Key, TypeOK, Named, NoRow
<1>10. CASE DeleteContact
  <2>1. contact.id /= 0 /\ contact'.id = 0 /\ request' = request
    BY <1>10 DEF DeleteContact, Nobody
  <2> QED BY <1>10, Redaction, <2>1 DEF DeleteContact, Given
<1>11. CASE UNCHANGED vars
  BY <1>11 DEF vars, Given, Working, At, Key, TypeOK, Named, NoRow
<1> QED BY <1>1, <1>2, <1>3, <1>4, <1>5, <1>6, <1>7, <1>8, <1>9, <1>10, <1>11 DEF Next, Serve

\* Whoever leaves a pending key has it abandoned.
LEMMA PendingIsOwned == IInv /\ [Next]_vars => StuckOnlyWhenAbandoned'
<1> SUFFICES ASSUME IInv, [Next]_vars PROVE StuckOnlyWhenAbandoned' OBVIOUS
<1> TypeOK /\ Named BY DEF IInv
<1> /\ \A k \in Keys : row[k].response \in {"none", "pending", "stored", "redacted"}
    /\ \A r \in Requests : request[r].step \in Steps
  BY Forms
<1> OneAtATime /\ StuckOnlyWhenAbandoned BY DEF IInv
<1> USE DEF OneAtATime
<1>1. ASSUME NEW r \in Requests, NEW k \in Keys, NEW i \in Inputs, Lookup(r, k, i)
      PROVE  StuckOnlyWhenAbandoned'
  BY <1>1 DEF Lookup, Succeed, StuckOnlyWhenAbandoned, Working, At, Key, TypeOK, Named
<1>2. ASSUME NEW r \in Requests, Claim(r) PROVE StuckOnlyWhenAbandoned'
  BY <1>2 DEF Claim, IsFree, Goto, Answer, Idle, StuckOnlyWhenAbandoned, Working, At, Key,
     TypeOK, Named
<1>3. ASSUME NEW r \in Requests, Upsert(r) PROVE StuckOnlyWhenAbandoned'
  <2>1. row' = row /\ Working(r, Key(r)) /\ Key(r) \in Keys
    BY <1>3, Upserted DEF Upsert, Working, At
  <2>2. \/ Moves(r, "find") /\ abandoned' = abandoned
        \/ \E error \in AllErrors : Fail(r, error)
    BY <1>3, Upserted
  <2>3. CASE Moves(r, "find") /\ abandoned' = abandoned
    BY <2>1, <2>3 DEF Moves, StuckOnlyWhenAbandoned, Working, At, Key
  <2>4. CASE \E error \in AllErrors : Fail(r, error)
    BY <2>1, <2>4 DEF Fail, FreeingErrors, AllErrors, Abandon, Goto, Answer, Idle,
       StuckOnlyWhenAbandoned, Working, At, Key, TypeOK
  <2> QED BY <2>2, <2>3, <2>4
<1>4. ASSUME NEW r \in Requests, Find(r) PROVE StuckOnlyWhenAbandoned'
  <2>1. /\ row' = row /\ abandoned' = abandoned /\ Moves(r, "read") /\ Working(r, Key(r))
    BY <1>4, Found DEF Find, Working, At
  <2> QED BY <2>1 DEF Moves, StuckOnlyWhenAbandoned, Working, At, Key
<1>5. ASSUME NEW r \in Requests, Read(r) PROVE StuckOnlyWhenAbandoned'
  BY <1>5 DEF Read, Fail, FreeingErrors, Abandon, Goto, Answer, Idle, StuckOnlyWhenAbandoned,
     Working, At, Key, TypeOK, Named
<1>6. ASSUME NEW r \in Requests, Store(r) PROVE StuckOnlyWhenAbandoned'
  BY <1>6 DEF Store, Mine, Succeed, Answer, Idle, StuckOnlyWhenAbandoned, Working, At, Key,
     TypeOK, Named
<1>7. ASSUME NEW r \in Requests, Release(r) PROVE StuckOnlyWhenAbandoned'
  BY <1>7 DEF Release, Answer, Idle, NoRow, StuckOnlyWhenAbandoned, Working, At, Key, TypeOK,
     Named
<1>8. ASSUME NEW r \in Requests, Abort(r) PROVE StuckOnlyWhenAbandoned'
  BY <1>8 DEF Abort, Abandon, Answer, Idle, StuckOnlyWhenAbandoned, Working, At, Key, TypeOK,
     Named
<1>9. CASE Crash
  BY <1>9 DEF Crash, Idle, StuckOnlyWhenAbandoned, Working, At, Key, TypeOK, Named
<1>10. CASE DeleteContact
  <2>1. contact.id /= 0 /\ contact'.id = 0 /\ request' = request
    BY <1>10 DEF DeleteContact, Nobody
  <2> QED BY <1>10, Redaction, <2>1 DEF DeleteContact, StuckOnlyWhenAbandoned, Working, At, Key
<1>11. CASE UNCHANGED vars
  BY <1>11 DEF vars, StuckOnlyWhenAbandoned, Working, At, Key, TypeOK, Named
<1> QED BY <1>1, <1>2, <1>3, <1>4, <1>5, <1>6, <1>7, <1>8, <1>9, <1>10, <1>11 DEF Next, Serve

\* A reply leaves the live contact behind only in a deletion.
LEMMA RepliesAreLive == IInv /\ [Next]_vars => OnTheWay'
<1> SUFFICES ASSUME IInv, [Next]_vars PROVE OnTheWay' OBVIOUS
<1> TypeOK /\ Named BY DEF IInv
<1> /\ \A k \in Keys : row[k].response \in {"none", "pending", "stored", "redacted"}
    /\ \A r \in Requests : request[r].step \in Steps
  BY Forms
<1> Drawn /\ OnTheWay BY DEF IInv
<1> USE DEF Drawn
<1>1. ASSUME NEW r \in Requests, NEW k \in Keys, NEW i \in Inputs, Lookup(r, k, i)
      PROVE  OnTheWay'
  BY <1>1 DEF Lookup, Succeed, OnTheWay, At, Key, TypeOK, Named
<1>2. ASSUME NEW r \in Requests, Claim(r) PROVE OnTheWay'
  BY <1>2 DEF Claim, IsFree, Goto, Answer, Idle, OnTheWay, At, Key, TypeOK, Named
<1>3. ASSUME NEW r \in Requests, Upsert(r) PROVE OnTheWay'
  <2>1. contact'.id = contact.id \/ contact.id = 0
    BY <1>3 DEF Upsert
  <2>2. /\ overtaken' = overtaken
        /\ \A x \in Requests : At(x, "store")' => request'[x] = request[x]
    <3>1. Moves(r, "find") \/ \E error \in AllErrors : Fail(r, error)
      BY <1>3, Upserted
    <3>2. CASE Moves(r, "find")
      BY <1>3, <3>2 DEF Upsert, Moves, At
    <3>3. CASE \E error \in AllErrors : Fail(r, error)
      BY <1>3, <3>3 DEF Upsert, Fail, Goto, Answer, Idle, At, TypeOK
    <3> QED BY <3>1, <3>2, <3>3
  <2> QED BY <2>1, <2>2 DEF OnTheWay, At, Key
<1>4. ASSUME NEW r \in Requests, Find(r) PROVE OnTheWay'
  <2>1. /\ contact' = contact /\ overtaken' = overtaken /\ Moves(r, "read")
    BY <1>4, Found DEF Find
  <2> QED BY <2>1 DEF Moves, OnTheWay, At, Key
<1>5. ASSUME NEW r \in Requests, Read(r) PROVE OnTheWay'
  BY <1>5 DEF Read, Fail, FreeingErrors, Abandon, Goto, Answer, Idle, OnTheWay, At, Key,
     TypeOK, Named
<1>6. ASSUME NEW r \in Requests, Store(r) PROVE OnTheWay'
  BY <1>6 DEF Store, Mine, Succeed, Answer, Idle, OnTheWay, At, Key, TypeOK, Named
<1>7. ASSUME NEW r \in Requests, Release(r) PROVE OnTheWay'
  BY <1>7 DEF Release, Answer, Idle, NoRow, OnTheWay, At, Key, TypeOK, Named
<1>8. ASSUME NEW r \in Requests, Abort(r) PROVE OnTheWay'
  BY <1>8 DEF Abort, Abandon, Answer, Idle, OnTheWay, At, Key, TypeOK, Named
<1>9. CASE Crash
  BY <1>9 DEF Crash, Idle, OnTheWay, At, Key, TypeOK, Named
<1>10. CASE DeleteContact
  BY <1>10 DEF DeleteContact, RedactAnswers, Nobody, OnTheWay, At, Key, TypeOK, Named
<1>11. CASE UNCHANGED vars
  BY <1>11 DEF vars, OnTheWay, At, Key, TypeOK, Named
<1> QED BY <1>1, <1>2, <1>3, <1>4, <1>5, <1>6, <1>7, <1>8, <1>9, <1>10, <1>11 DEF Next, Serve

\* So does a stored answer.
LEMMA StoredAreLive == IInv /\ [Next]_vars => DeletionRedactsAnswers'
<1> SUFFICES ASSUME IInv, [Next]_vars PROVE DeletionRedactsAnswers' OBVIOUS
<1> TypeOK /\ Named BY DEF IInv
<1> /\ \A k \in Keys : row[k].response \in {"none", "pending", "stored", "redacted"}
    /\ \A r \in Requests : request[r].step \in Steps
  BY Forms
<1> Drawn /\ OnTheWay /\ DeletionRedactsAnswers BY DEF IInv
<1> USE DEF Drawn
<1>1. ASSUME NEW r \in Requests, NEW k \in Keys, NEW i \in Inputs, Lookup(r, k, i)
      PROVE  DeletionRedactsAnswers'
  BY <1>1 DEF Lookup, Succeed, DeletionRedactsAnswers, OnTheWay, At, Key, TypeOK, Named, NoRow
<1>2. ASSUME NEW r \in Requests, Claim(r) PROVE DeletionRedactsAnswers'
  BY <1>2 DEF Claim, IsFree, Goto, Answer, Idle, DeletionRedactsAnswers, OnTheWay, At, Key,
     TypeOK, Named, NoRow
<1>3. ASSUME NEW r \in Requests, Upsert(r) PROVE DeletionRedactsAnswers'
  BY <1>3 DEF Upsert, Fail, FreeingErrors, AllErrors, Abandon, Goto, Answer, Idle,
     DeletionRedactsAnswers, OnTheWay, At, Key, TypeOK, Named, NoRow
<1>4. ASSUME NEW r \in Requests, Find(r) PROVE DeletionRedactsAnswers'
  BY <1>4 DEF Find, DeletionRedactsAnswers
<1>5. ASSUME NEW r \in Requests, Read(r) PROVE DeletionRedactsAnswers'
  BY <1>5 DEF Read, Fail, FreeingErrors, Abandon, Goto, Answer, Idle, DeletionRedactsAnswers,
     OnTheWay, At, Key, TypeOK, Named, NoRow
<1>6. ASSUME NEW r \in Requests, Store(r) PROVE DeletionRedactsAnswers'
  BY <1>6 DEF Store, Mine, Succeed, Answer, Idle, DeletionRedactsAnswers, OnTheWay, At, Key,
     TypeOK, Named, NoRow
<1>7. ASSUME NEW r \in Requests, Release(r) PROVE DeletionRedactsAnswers'
  BY <1>7 DEF Release, Answer, Idle, NoRow, DeletionRedactsAnswers, OnTheWay, At, Key, TypeOK,
     Named, NoRow
<1>8. ASSUME NEW r \in Requests, Abort(r) PROVE DeletionRedactsAnswers'
  BY <1>8 DEF Abort, Abandon, Answer, Idle, DeletionRedactsAnswers, OnTheWay, At, Key, TypeOK,
     Named, NoRow
<1>9. CASE Crash
  BY <1>9 DEF Crash, Idle, DeletionRedactsAnswers, OnTheWay, At, Key, TypeOK, Named, NoRow
<1>10. CASE DeleteContact
  <2>1. contact.id /= 0 /\ contact'.id = 0 /\ request' = request
    BY <1>10 DEF DeleteContact, Nobody
  <2> QED BY <1>10, Redaction, <2>1 DEF DeleteContact, DeletionRedactsAnswers
<1>11. CASE UNCHANGED vars
  BY <1>11 DEF vars, DeletionRedactsAnswers, OnTheWay, At, Key, TypeOK, Named, NoRow
<1> QED BY <1>1, <1>2, <1>3, <1>4, <1>5, <1>6, <1>7, <1>8, <1>9, <1>10, <1>11 DEF Next, Serve

-----------------------------------------------------------------------------
(* Theorems *)

LEMMA InvariantHolds == Spec => []IInv
<1>1. Init => IInv
  BY InitiallyHolds
<1>2. IInv /\ [Next]_vars => IInv'
  BY TypeHolds, AlonePerKey, DrawnInOrder, AppliedIsCounted, AnswersAreTheRows, PendingIsOwned,
     RepliesAreLive, StoredAreLive DEF IInv
<1> QED BY <1>1, <1>2, PTL DEF Spec

\* Every variable keeps its type.
THEOREM TypeCorrect == Spec => []TypeOK
<1>1. IInv => TypeOK
  BY DEF IInv
<1> QED BY <1>1, InvariantHolds, PTL

\* The insert is a claim: one request at a time works under a key.
THEOREM ClaimsExclude == Spec => []OneAtATime
<1>1. IInv => OneAtATime
  BY DEF IInv
<1> QED BY <1>1, InvariantHolds, PTL

\* A key's operation is applied once, and once more at most for each deletion and
\* for each lookup of its own that failed after an update.
THEOREM AppliedOnce == Spec => []RepeatOnlyByAccident
<1>1. IInv => RepeatOnlyByAccident
  BY DEF IInv, Counted, RepeatOnlyByAccident
<1> QED BY <1>1, InvariantHolds, PTL

\* All answers to a key are the same, and the stored one.
THEOREM AnswersAgree == Spec => []SameAnswer
<1>1. ASSUME IInv, NEW k \in Keys PROVE
        /\ \A a, b \in answers[k] : a = b
        /\ \A a \in answers[k] :
             /\ applied[k] >= 1 /\ row[k].response \in {"stored", "redacted"}
             /\ row[k].response = "stored" => a.reply = row[k].reply
  <2>1. row[k].response \in {"none", "pending", "stored", "redacted"}
    BY <1>1, Forms DEF IInv
  <2> QED BY <1>1, <2>1 DEF IInv, Counted, Given
<1>2. IInv => SameAnswer
  BY <1>1 DEF SameAnswer
<1> QED BY <1>2, InvariantHolds, PTL

\* Nothing but a server error, a lost client or a crash leaves a key stuck.
THEOREM NothingElseSticks == Spec => []StuckOnlyWhenAbandoned
<1>1. IInv => StuckOnlyWhenAbandoned
  BY DEF IInv
<1> QED BY <1>1, InvariantHolds, PTL

\* What a deletion leaves of a contact in stored answers was on its way.
THEOREM DeletionReachesAnswers == Spec => []DeletionRedactsAnswers
<1>1. IInv => DeletionRedactsAnswers
  BY DEF IInv
<1> QED BY <1>1, InvariantHolds, PTL
=============================================================================
