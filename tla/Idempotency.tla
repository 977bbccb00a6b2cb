---------------------------- MODULE Idempotency ----------------------------
(***************************************************************************)
(* Engine.Do with an idempotency key, around the operation that shows most *)
(* of it: contacts create, three statements of its own, beside an operator *)
(* who deletes the contact.  All requests name one address, so one contact *)
(* is live at a time.  Every statement of a request interleaves with those *)
(* of the others; a request may lose its client or its process anywhere,   *)
(* and a client repeats a key as often as it likes.                        *)
(***************************************************************************)
EXTENDS Naturals

CONSTANTS
  Requests,      \* requests in progress at once
  Keys,
  Inputs,        \* canonical inputs: they tell fingerprints and profiles apart
  Nil,           \* no key, no input
  MaxContacts,   \* bound: contacts created
  MaxTrouble     \* bound: deletions, lost clients, failing statements

ASSUME ConstantsOK ==
  /\ Nil \notin Inputs \cup Keys
  /\ MaxContacts \in Nat /\ MaxTrouble \in Nat

VARIABLES
  row,       \* idempotency: fingerprint and response, per key
  contact,   \* the live contact of the address: id, 0 if there is none, and profile
  created,   \* contact ids used
  request,   \* step, key, input, id and reply so far, per request
  applied,   \* history: times a key's operation took effect
  answers,   \* history: the successful answers given to a key
  deletions, \* history
  missed,    \* history: times a key's request lost sight of the contact it updated
  abandoned, \* history: keys whose last claim ended with a server error or in nothing
  overtaken, \* history: keys whose answer was on its way when the contact was deleted
  trouble    \* what is left of the bound

vars == <<row, contact, created, request, applied, answers, deletions, missed, abandoned,
          overtaken, trouble>>

Ids == 0..MaxContacts
Profiles == [id : Ids, input : Inputs \cup {Nil}]
Nobody == [id |-> 0, input |-> Nil]

\* response: "none" before the row exists, "pending", "stored" or "redacted".
Rows == [input : Inputs \cup {Nil}, response : {"none", "pending", "stored", "redacted"},
         reply : Profiles]
NoRow == [input |-> Nil, response |-> "none", reply |-> Nobody]
Idle == [step |-> "idle", key |-> Nil, input |-> Nil, id |-> 0, reply |-> Nobody]
Steps == {"idle", "claim", "upsert", "find", "read", "store", "release"}

TypeOK ==
  /\ row \in [Keys -> Rows]
  /\ contact \in Profiles /\ created \in Ids
  /\ request \in [Requests -> [step : Steps, key : Keys \cup {Nil}, input : Inputs \cup {Nil},
                               id : Ids, reply : Profiles]]
  /\ applied \in [Keys -> Nat]
  /\ answers \in [Keys -> SUBSET [asked : Inputs, reply : Profiles]]
  /\ deletions \in Nat /\ missed \in [Keys -> Nat] /\ abandoned \subseteq Keys /\ overtaken \subseteq Keys
  /\ trouble \in 0..MaxTrouble

Init ==
  /\ row = [k \in Keys |-> NoRow]
  /\ contact = Nobody /\ created = 0
  /\ request = [r \in Requests |-> Idle]
  /\ applied = [k \in Keys |-> 0] /\ answers = [k \in Keys |-> {}]
  /\ deletions = 0 /\ missed = [k \in Keys |-> 0] /\ abandoned = {} /\ overtaken = {}
  /\ trouble = MaxTrouble

-----------------------------------------------------------------------------
(* Helpers *)

Trouble == trouble > 0 /\ trouble' = trouble - 1
Key(r) == request[r].key
At(r, step) == request[r].step = step
Goto(r, step) == request' = [request EXCEPT ![r].step = step]
Carry(r, step, id) == request' = [request EXCEPT ![r].step = step, ![r].id = id]
Answer(r) == request' = [request EXCEPT ![r] = Idle]
Succeed(k, input, reply) ==
  answers' = [answers EXCEPT ![k] = @ \cup {[asked |-> input, reply |-> reply]}]
Abandon(k) == abandoned' = abandoned \cup {k}

AnotherInput(r) == row[Key(r)].response = "pending" /\ row[Key(r)].input /= request[r].input
Mine(r) == row[Key(r)].response = "pending" /\ row[Key(r)].input = request[r].input

\* isConstraint: the primary key admits one row for a key.
IsFree(k) == row[k].response = "none"

AnyFingerprint(k, input) == TRUE
SameFingerprint(k, input) == row[k].input = input

\* Errors that free the key: those of the client, Status < 500.
AllErrors == {"client", "server"}
NoErrors == {}
FreeingErrors == {"client"}

-----------------------------------------------------------------------------
(* Do *)

\* A request comes in, and the first statement looks its key up.
Lookup(r, k, input) ==
  /\ At(r, "idle")
  /\ LET claims == [request EXCEPT ![r] = [step |-> "claim", key |-> k, input |-> input,
                                           id |-> 0, reply |-> Nobody]] IN
     \/ row[k].response = "none" /\ request' = claims /\ UNCHANGED answers
     \/ \* A conflict, a claim in progress or to be reconciled, a redacted answer.
        /\ row[k].response /= "none"
        /\ ~SameFingerprint(k, input) \/ row[k].response /= "stored"
        /\ UNCHANGED <<request, answers>>
     \/ \* The replay.
        /\ SameFingerprint(k, input) /\ row[k].response = "stored"
        /\ Succeed(k, input, row[k].reply)
        /\ UNCHANGED request
  /\ UNCHANGED <<row, contact, created, applied, deletions, missed, abandoned, overtaken, trouble>>

\* The claim: an insert which only one of several can make.
Claim(r) ==
  /\ At(r, "claim")
  /\ IF IsFree(Key(r))
     THEN /\ row' = [row EXCEPT ![Key(r)] =
                [input |-> request[r].input, response |-> "pending", reply |-> Nobody]]
          /\ abandoned' = abandoned \ {Key(r)}
          /\ Goto(r, "upsert")
     ELSE Answer(r) /\ UNCHANGED <<row, abandoned>>
  /\ UNCHANGED <<contact, created, applied, answers, deletions, missed, overtaken, trouble>>

\* The operation returned an error: it frees the key, or leaves it to be reconciled.
Fail(r, error) ==
  /\ IF error \in FreeingErrors THEN Goto(r, "release") ELSE Answer(r)
  /\ IF error = "server" THEN Abandon(Key(r)) ELSE UNCHANGED abandoned

\* contacts create, first the upsert by address.  The request draws an id before
\* it: the contact's own if this is an insert, nobody's (0) if it is an update.
Upsert(r) ==
  /\ At(r, "upsert")
  /\ \/ LET id == IF contact.id = 0 THEN created + 1 ELSE contact.id IN
        /\ id \in Ids
        /\ contact' = [id |-> id, input |-> request[r].input]
        /\ created' = IF contact.id = 0 THEN id ELSE created
        /\ applied' = [applied EXCEPT ![Key(r)] = @ + 1]
        /\ Carry(r, "find", IF contact.id = 0 THEN id ELSE 0)
        /\ UNCHANGED <<abandoned, trouble>>
     \/ \E error \in AllErrors :
          /\ Trouble /\ Fail(r, error)
          /\ UNCHANGED <<contact, created, applied>>
  /\ UNCHANGED <<row, answers, deletions, missed, overtaken>>

\* The contact's id is looked up by address.  If that finds nothing, or fails,
\* which nobody looks at, the id that was drawn stays.
Find(r) ==
  /\ At(r, "find")
  /\ \/ /\ Carry(r, "read", IF contact.id = 0 THEN request[r].id ELSE contact.id)
        /\ UNCHANGED <<missed, trouble>>
     \/ /\ Trouble /\ Carry(r, "read", request[r].id)
        /\ missed' = IF request[r].id = contact.id THEN missed
                     ELSE [missed EXCEPT ![Key(r)] = @ + 1]
  /\ UNCHANGED <<row, contact, created, applied, answers, deletions, abandoned, overtaken>>

\* The answer is read from the contact of that id, unless it is gone.
Read(r) ==
  /\ At(r, "read")
  /\ \/ /\ contact.id /= 0 /\ request[r].id = contact.id
        /\ request' = [request EXCEPT ![r].step = "store", ![r].reply = contact]
        /\ UNCHANGED <<abandoned, trouble>>
     \/ /\ contact.id = 0 \/ request[r].id /= contact.id
        /\ Fail(r, "client") /\ UNCHANGED trouble
     \/ Trouble /\ Fail(r, "server")
  /\ UNCHANGED <<row, contact, created, applied, answers, deletions, missed, overtaken>>

Store(r) ==
  /\ At(r, "store")
  /\ row' = IF Mine(r)
            THEN [row EXCEPT ![Key(r)].response = "stored", ![Key(r)].reply = request[r].reply]
            ELSE row
  /\ Succeed(Key(r), request[r].input, request[r].reply)
  /\ Answer(r)
  /\ UNCHANGED <<contact, created, applied, deletions, missed, abandoned, overtaken, trouble>>

Release(r) ==
  /\ At(r, "release")
  /\ row' = IF row[Key(r)].response = "pending" THEN [row EXCEPT ![Key(r)] = NoRow] ELSE row
  /\ Answer(r)
  /\ UNCHANGED <<contact, created, applied, answers, deletions, missed, abandoned, overtaken, trouble>>

\* The client is gone and its context cancelled, or a statement fails: the rest
\* of the request does nothing.
Abort(r) ==
  /\ ~At(r, "idle") /\ Trouble
  /\ IF At(r, "claim") THEN UNCHANGED abandoned ELSE Abandon(Key(r))
  /\ Answer(r)
  /\ UNCHANGED <<row, contact, created, applied, answers, deletions, missed, overtaken>>

Crash ==
  /\ Trouble
  /\ abandoned' = abandoned \cup {Key(r) : r \in {x \in Requests : ~At(x, "idle") /\ ~At(x, "claim")}}
  /\ request' = [r \in Requests |-> Idle]
  /\ UNCHANGED <<row, contact, created, applied, answers, deletions, missed, overtaken>>

-----------------------------------------------------------------------------
\* contacts delete: the stored answers that name the contact are redacted.
RedactNothing(id) == row
RedactAnswers(id) ==
  [k \in Keys |-> IF row[k].response = "stored" /\ row[k].reply.id = id
                  THEN [row[k] EXCEPT !.response = "redacted", !.reply = Nobody] ELSE row[k]]

DeleteContact ==
  /\ contact.id /= 0 /\ Trouble
  /\ row' = RedactAnswers(contact.id)
  /\ contact' = Nobody
  /\ deletions' = deletions + 1
  /\ overtaken' = overtaken \cup {Key(r) : r \in {x \in Requests : At(x, "store")}}
  /\ UNCHANGED <<created, request, applied, answers, missed, abandoned>>

Serve(r) == Claim(r) \/ Upsert(r) \/ Find(r) \/ Read(r) \/ Store(r) \/ Release(r)

Next ==
  \/ \E r \in Requests : Serve(r) \/ Abort(r) \/ \E k \in Keys, i \in Inputs : Lookup(r, k, i)
  \/ DeleteContact \/ Crash

Spec == Init /\ [][Next]_vars

\* net/http runs every handler to its end.
Fairness == \A r \in Requests : WF_vars(Serve(r))
FairSpec == Spec /\ Fairness

-----------------------------------------------------------------------------
(* Properties *)

Working(r, k) == ~At(r, "idle") /\ ~At(r, "claim") /\ Key(r) = k

\* One request at a time works under a key, and only on a pending row of its own
\* fingerprint: what it stores or releases in the end is its own claim.
OneAtATime ==
  /\ \A r \in Requests, k \in Keys :
       Working(r, k) => row[k].response = "pending" /\ row[k].input = request[r].input
  /\ \A r, s \in Requests, k \in Keys : Working(r, k) /\ Working(s, k) => r = s

\* A key is applied again only after a deletion, or after one of its own requests
\* updated the contact, failed to look up whom it updated and told its client that
\* there is no such contact: not by other retries, by concurrent requests, by
\* operations that fail or after a crash.
RepeatOnlyByAccident == \A k \in Keys : applied[k] <= 1 + deletions + missed[k]

\* Whoever gets an answer to a key gets the same one, for the same input, and it
\* is the one stored for later requests until it is redacted.
SameAnswer ==
  \A k \in Keys :
    /\ \A a, b \in answers[k] : a = b
    /\ \A a \in answers[k] :
         /\ applied[k] >= 1 /\ row[k].response \in {"stored", "redacted"}
         /\ row[k].response = "stored" => a.reply = row[k].reply

\* A key is stuck, refused though nobody works under it, only after its last
\* claim ended in a server error, a lost client, a failing statement or a crash.
StuckOnlyWhenAbandoned ==
  \A k \in Keys :
    row[k].response = "pending" => k \in abandoned \/ \E r \in Requests : Working(r, k)

\* A deletion leaves at most those answers that were on their way when it came.
DeletionRedactsAnswers ==
  \A k \in Keys :
    row[k].response = "stored" /\ row[k].reply.id /= contact.id => k \in overtaken

\* Every claim comes to an end: an answer, a free key, or one to be reconciled.
ClaimsEnd ==
  \A k \in Keys : row[k].response = "pending" ~> row[k].response /= "pending" \/ k \in abandoned
=============================================================================
