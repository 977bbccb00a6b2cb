--------------------------- MODULE SendingProofs ----------------------------
(***************************************************************************)
(* Proofs about Registry, Limits and Sending, for every set of records,    *)
(* messages and buckets and every maximum: types, verified senders, one    *)
(* provider for all attempts, the minute windows, deleted transports.      *)
(***************************************************************************)
EXTENDS Sending, TLAPS

---------------------------------------------------------------------------
(* Types *)

InUse(c) == c = Installation \/ (c \in Transports /\ c \in enabled)

\* What selection returns is an enabled transport or the installation's.
LEMMA SelectedInUse ==
  ASSUME TypeOK, NEW pin \in Providers \union {None}, NEW s, NEW c \in Selected(pin, s)
  PROVE  InUse(c)
<1> USE DEF InUse
<1>1. CASE pin = None
  <2>1. c \in Newest(s)
    BY <1>1 DEF Selected
  <2>2. CASE Candidates(s) # {}
    <3>1. PICK i \in Candidates(s) : c = made[i]
      BY <2>1, <2>2 DEF Newest
    <3> QED BY <3>1 DEF Candidates, Looked, TypeOK, RegistryTypeOK
  <2>3. CASE Candidates(s) = {}
    BY <2>1, <2>3 DEF Newest
  <2> QED BY <2>2, <2>3
<1>2. CASE pin # None
  BY <1>2 DEF Selected, Providers
<1> QED BY <1>1, <1>2

\* The pin a message is selected with is a transport, the installation or none.
LEMMA PinIsProvider ==
  ASSUME TypeOK, NEW m \in Messages, NEW read \in Providers \union {None}
  PROVE  PinOf(m, read) \in Providers \union {None}
BY SendingAssumption DEF PinOf, ManifestPin, TypeOK, Providers

\* What taking a job leaves behind: nothing, a settled job, or a job in hand with a
\* transport that is in use, which is the kept choice unless the message slips.
LEMMA Taken ==
  ASSUME TypeOK, NEW m \in Messages, TakeDelivery(m) \/ TakeConfirmation(m)
  PROVE  /\ UNCHANGED <<counts, registryVars, activePin, releasePin, history, paused, trouble>>
         /\ hand = Free /\ job[m] = "pending"
         /\ \/ UNCHANGED <<hand, job, kept, slipped>>
            \/ Settle(m, "settled") /\ UNCHANGED <<kept, slipped>>
            \/ \E c \in Providers :
                 /\ Hold(m, c) /\ InUse(c)
                 /\ \/ slipped' = slipped \union {m} /\ UNCHANGED kept
                    \/ kept[m] = c /\ UNCHANGED <<kept, slipped>>
                    \/ kept[m] = None /\ m \in Deliveries /\ UNCHANGED <<kept, slipped>>
                    \/ /\ kept[m] = None /\ m \notin Deliveries
                       /\ kept' = [kept EXCEPT ![m] = c] /\ UNCHANGED slipped
<1>1. ASSUME NEW pin \in Providers \union {None}, NEW s, NEW c \in Selected(pin, s)
      PROVE  /\ c \in Providers /\ InUse(c)
             /\ pin # None => c = pin
  <2>1. InUse(c)
    BY <1>1, SelectedInUse
  <2> QED BY <1>1, <2>1 DEF Selected, Providers, InUse
<1>2. kept[m] \in Providers \union {None} /\ None \notin Providers
  BY SendingAssumption DEF TypeOK
<1>3. CASE TakeDelivery(m)
  <2>1. /\ UNCHANGED <<counts, registryVars, kept, activePin, releasePin, history, paused, trouble>>
        /\ m \in Deliveries /\ hand = Free /\ job[m] = "pending"
    BY <1>3 DEF TakeDelivery
  <2>2. CASE \/ paused /\ UNCHANGED <<hand, job, slipped>>
             \/ Settle(m, "settled") /\ UNCHANGED slipped
    BY <2>1, <2>2
  <2>3. ASSUME NEW lost \in BOOLEAN, NEW s, lost => kept[m] # None, Slip(m, lost),
               NEW c \in Selected(PinOf(m, IF lost THEN None ELSE kept[m]), s), Hold(m, c)
        PROVE  \E x \in Providers :
                 /\ Hold(m, x) /\ InUse(x)
                 /\ \/ slipped' = slipped \union {m}
                    \/ kept[m] = x /\ UNCHANGED slipped
                    \/ kept[m] = None /\ UNCHANGED slipped
    <3>1. (IF lost THEN None ELSE kept[m]) \in Providers \union {None}
      BY <1>2
    <3>2. PinOf(m, IF lost THEN None ELSE kept[m]) \in Providers \union {None}
      BY <3>1, PinIsProvider
    <3>3. c \in Providers /\ InUse(c)
      BY <1>1, <2>3, <3>2
    <3>4. ~lost /\ kept[m] # None => c = kept[m]
      BY <1>1, <2>3, <3>2 DEF PinOf
    <3>5. \/ slipped' = slipped \union {m}
          \/ kept[m] = c /\ UNCHANGED slipped
          \/ kept[m] = None /\ UNCHANGED slipped
      BY <2>3, <3>4 DEF Slip
    <3> QED BY <2>3, <3>3, <3>5
  <2> QED BY <1>3, <2>1, <2>2, <2>3 DEF TakeDelivery
<1>4. CASE TakeConfirmation(m)
  <2>1. /\ UNCHANGED <<counts, registryVars, activePin, releasePin, history, paused, trouble>>
        /\ m \notin Deliveries /\ hand = Free /\ job[m] = "pending"
    BY <1>4, SendingAssumption DEF TakeConfirmation
  <2>2. CASE Settle(m, "settled") /\ UNCHANGED <<kept, slipped>>
    BY <2>1, <2>2
  <2>3. ASSUME NEW lost \in BOOLEAN, NEW pin \in {PinOf(m, kept[m]), kept[m]},
               lost => kept[m] = None, Slip(m, lost), NEW c \in Selected(pin, StreamOf[m]),
               Hold(m, c),
               kept' = IF lost \/ kept[m] # None THEN kept ELSE [kept EXCEPT ![m] = c]
        PROVE  \E x \in Providers :
                 /\ Hold(m, x) /\ InUse(x)
                 /\ \/ slipped' = slipped \union {m} /\ UNCHANGED kept
                    \/ kept[m] = x /\ UNCHANGED <<kept, slipped>>
                    \/ kept[m] = None /\ kept' = [kept EXCEPT ![m] = x] /\ UNCHANGED slipped
    <3>1. pin \in Providers \union {None}
      BY <1>2, <2>3, PinIsProvider
    <3>2. c \in Providers /\ InUse(c)
      BY <1>1, <3>1
    <3>3. kept[m] # None => c = kept[m]
      BY <1>1, <2>3, <3>1 DEF PinOf
    <3>4. \/ slipped' = slipped \union {m} /\ UNCHANGED kept
          \/ kept[m] = c /\ UNCHANGED <<kept, slipped>>
          \/ kept[m] = None /\ kept' = [kept EXCEPT ![m] = c] /\ UNCHANGED slipped
      BY <2>3, <3>3 DEF Slip
    <3> QED BY <2>3, <3>2, <3>4
  <2> QED BY <1>4, <2>1, <2>2, <2>3 DEF TakeConfirmation
<1> QED BY <1>3, <1>4

\* Counting keeps the counters natural numbers.
LEMMA CountedType ==
  ASSUME counts \in [Buckets -> Nat], NEW buckets
  PROVE  Counted(buckets) \in [Buckets -> Nat]
BY DEF Counted

\* A step of one request keeps the types of the requests and of their number.
LEMMA BeginType ==
  ASSUME RegistryTypeOK, NEW a \in Admins, NEW r \in Requests, Begin(a, r)
  PROVE  request' \in [Admins -> Requests] /\ asked' \in 0..MaxRequests
BY RegistryAssumption DEF Begin, Ask, RegistryTypeOK

LEMMA EndType ==
  ASSUME RegistryTypeOK, NEW a \in Admins, End(a)
  PROVE  request' \in [Admins -> Requests]
BY DEF End, Requests, RegistryTypeOK

\* What a request at each of its steps has read.
LEMMA RequestForms ==
  ASSUME RegistryTypeOK, NEW a \in Admins
  PROVE  /\ request[a].at = "insert" => request[a] \in [at : {"insert"}, id : Transports, stream : Streams]
         /\ request[a].at = "look up" => request[a] \in [at : {"look up"}, id : Domains]
         /\ request[a].at \in {"found", "not found"} => request[a].id \in Domains
<1>1. request[a] \in Requests
  BY DEF RegistryTypeOK
<1>2. CASE request[a] = Ready
  BY <1>2 DEF Ready
<1>3. CASE request[a] \in [at : {"rotate"}, id : Webhooks]
  BY <1>3
<1>4. CASE request[a] \in [at : {"look up", "found", "not found"}, id : Domains]
  <2>1. request[a].at \in {"look up", "found", "not found"} /\ request[a].id \in Domains
    BY <1>4
  <2>2. request[a] = [at |-> request[a].at, id |-> request[a].id]
    BY <1>4
  <2> QED BY <2>1, <2>2
<1>5. CASE request[a] \in [at : {"insert"}, id : Transports, stream : Streams]
  BY <1>5
<1> QED BY <1>1, <1>2, <1>3, <1>4, <1>5 DEF Requests

\* The steps of the registry keep its types.
LEMMA RegistryTypeStep ==
  ASSUME RegistryTypeOK, RegistryNext
  PROVE  RegistryTypeOK'
<1>1. ASSUME NEW r \in Records, Create(r) PROVE RegistryTypeOK'
  BY <1>1, RegistryAssumption DEF Create, Ask, Records, RegistryTypeOK
<1>2. ASSUME NEW r \in Records, Delete(r) PROVE RegistryTypeOK'
  BY <1>2, RegistryAssumption DEF Delete, Ask, RegistryTypeOK
<1>3. ASSUME NEW a \in Admins, NEW t \in Transports, NEW s \in Streams, BeginCreate(a, t, s)
      PROVE  RegistryTypeOK'
  <2>1. [at |-> "insert", id |-> t, stream |-> s] \in Requests
    BY DEF Requests
  <2>2. request' \in [Admins -> Requests] /\ asked' \in 0..MaxRequests
    BY <1>3, <2>1, BeginType DEF BeginCreate
  <2> QED BY <1>3, <2>2 DEF BeginCreate, records, RegistryTypeOK
<1>4. ASSUME NEW a \in Admins, NEW w \in Webhooks, BeginRotate(a, w) PROVE RegistryTypeOK'
  <2>1. [at |-> "rotate", id |-> w] \in Requests
    BY DEF Requests
  <2>2. request' \in [Admins -> Requests] /\ asked' \in 0..MaxRequests
    BY <1>4, <2>1, BeginType DEF BeginRotate
  <2> QED BY <1>4, <2>2 DEF BeginRotate, records, RegistryTypeOK
<1>5. ASSUME NEW a \in Admins, NEW d \in Domains, BeginCheck(a, d) PROVE RegistryTypeOK'
  <2>1. [at |-> "look up", id |-> d] \in Requests
    BY DEF Requests
  <2>2. request' \in [Admins -> Requests] /\ asked' \in 0..MaxRequests
    BY <1>5, <2>1, BeginType DEF BeginCheck
  <2> QED BY <1>5, <2>2 DEF BeginCheck, records, RegistryTypeOK
<1>6. ASSUME NEW a \in Admins, Insert(a) PROVE RegistryTypeOK'
  <2> DEFINE t == request[a].id
  <2>1. request[a] \in [at : {"insert"}, id : Transports, stream : Streams]
    BY <1>6, RequestForms DEF Insert
  <2>2. t \in Transports /\ request[a].stream \in Streams
    BY <2>1
  <2>3. request' \in [Admins -> Requests]
    BY <1>6, EndType DEF Insert
  <2>4. CASE t \in rows
    BY <1>6, <2>3, <2>4 DEF Insert, records, RegistryTypeOK
  <2>5. CASE t \notin rows
    <3>1. /\ rows' = rows \union {t} /\ enabled' = enabled \union {t}
          /\ stream' = [stream EXCEPT ![t] = request[a].stream]
          /\ made' = Append(made, t)
          /\ UNCHANGED <<verified, secret, asked, proved>>
      BY <1>6, <2>5 DEF Insert
    <3>2. stream' \in [Transports -> Streams \union {NoStream}]
      BY <2>2, <3>1 DEF RegistryTypeOK
    <3>3. made' \in Seq(Transports)
      BY <2>2, <3>1 DEF RegistryTypeOK
    <3>4. enabled' \subseteq rows' /\ rows' \subseteq Records
      BY <2>2, <3>1 DEF RegistryTypeOK, Records
    <3> QED BY <2>3, <3>1, <3>2, <3>3, <3>4 DEF RegistryTypeOK
  <2> QED BY <2>4, <2>5
<1>7. ASSUME NEW a \in Admins, Rotate(a) PROVE RegistryTypeOK'
  <2>1. request' \in [Admins -> Requests]
    BY <1>7, EndType DEF Rotate
  <2>2. secret' \in [Webhooks -> Admins \union {Maker}]
    BY <1>7 DEF Rotate, RegistryTypeOK
  <2> QED BY <1>7, <2>1, <2>2 DEF Rotate, WriteBack, RegistryTypeOK
<1>8. ASSUME NEW a \in Admins, LookUp(a) PROVE RegistryTypeOK'
  <2>1. request[a] \in [at : {"look up"}, id : Domains]
    BY <1>8, RequestForms DEF LookUp
  <2>2. PICK found \in BOOLEAN :
          /\ request' = [request EXCEPT ![a].at = IF found THEN "found" ELSE "not found"]
          /\ proved' = IF found THEN proved \union {request[a].id} ELSE proved
    BY <1>8 DEF LookUp
  <2>3. [request[a] EXCEPT !.at = IF found THEN "found" ELSE "not found"] \in Requests
    BY <2>1 DEF Requests
  <2>4. request' \in [Admins -> Requests]
    BY <2>2, <2>3 DEF RegistryTypeOK
  <2>5. proved' \subseteq Domains
    BY <2>1, <2>2 DEF RegistryTypeOK
  <2> QED BY <1>8, <2>4, <2>5 DEF LookUp, records, RegistryTypeOK
<1>9. ASSUME NEW a \in Admins, WriteCheck(a) PROVE RegistryTypeOK'
  <2>1. request[a].id \in Domains
    BY <1>9, RequestForms DEF WriteCheck
  <2>2. request' \in [Admins -> Requests]
    BY <1>9, EndType DEF WriteCheck
  <2>3. verified' \subseteq Domains
    BY <1>9, <2>1 DEF WriteCheck, RegistryTypeOK
  <2> QED BY <1>9, <2>2, <2>3 DEF WriteCheck, WriteBack, RegistryTypeOK
<1>10. ASSUME NEW a \in Admins, LoseRequest(a) PROVE RegistryTypeOK'
  <2>1. request' \in [Admins -> Requests]
    BY <1>10, EndType DEF LoseRequest
  <2> QED BY <1>10, <2>1 DEF LoseRequest, records, RegistryTypeOK
<1> QED
  BY <1>1, <1>2, <1>3, <1>4, <1>5, <1>6, <1>7, <1>8, <1>9, <1>10 DEF RegistryNext

\* What the worker holds once it is not free.
LEMMA HandForms ==
  ASSUME TypeOK, hand.at \in {"chosen", "counted", "ready", "answered"} \/ hand # Free
  PROVE  /\ hand # Free /\ hand.message \in Messages /\ hand.via \in Providers
         /\ hand.at \in {"chosen", "counted", "ready", "answered"}
         /\ hand = [at |-> hand.at, message |-> hand.message, via |-> hand.via]
         /\ job[hand.message] = "dispatching"
<1>1. hand # Free
  BY DEF Free
<1>2. hand \in [at : {"chosen", "counted", "ready", "answered"}, message : Messages, via : Providers]
  BY <1>1 DEF TypeOK, Hands
<1> QED BY <1>1, <1>2 DEF TypeOK

LEMMA HandMoves ==
  ASSUME TypeOK, hand # Free, NEW at \in {"chosen", "counted", "ready", "answered"},
         hand' = [hand EXCEPT !.at = at]
  PROVE  /\ hand' \in Hands /\ hand' # Free
         /\ hand'.message = hand.message /\ hand'.via = hand.via /\ hand'.at = at
<1>1. hand = [at |-> hand.at, message |-> hand.message, via |-> hand.via]
  BY HandForms
<1>2. hand' = [at |-> at, message |-> hand.message, via |-> hand.via]
  BY <1>1
<1>3. hand.message \in Messages /\ hand.via \in Providers
  BY HandForms
<1> QED BY <1>2, <1>3 DEF Hands, Free

\* The initial registry is typed and every record enabled.
LEMMA RegistryInitType ==
  ASSUME RegistryInit
  PROVE  /\ RegistryTypeOK
         /\ SenderWasProved
<1> DEFINE done == {Provisioned[i] : i \in DOMAIN Provisioned}
           domains == {SenderDomain[t] : t \in done}
<1>1. /\ rows = done \union domains \union Registered /\ enabled = rows
      /\ verified = domains /\ proved = domains /\ made = Provisioned
      /\ stream \in [Transports -> Streams \union {NoStream}]
      /\ secret = [w \in Webhooks |-> Maker]
      /\ request = [a \in Admins |-> Ready] /\ asked = 0
  BY RegistryAssumption DEF RegistryInit
<1>2. done \subseteq Transports
  BY RegistryAssumption
<1>3. domains \subseteq Domains
  BY <1>2, RegistryAssumption
<1>4. RegistryTypeOK
  <2>1. rows \subseteq Records
    BY <1>1, <1>2, <1>3, RegistryAssumption DEF Records
  <2>2. request \in [Admins -> Requests]
    BY <1>1 DEF Requests
  <2> QED BY <1>1, <1>3, <2>1, <2>2, RegistryAssumption DEF RegistryTypeOK
<1>5. ASSUME NEW t \in Transports, t \in rows PROVE SenderDomain[t] \in proved
  <2>1. t \in done
    BY <1>1, <1>3, <1>5, RegistryAssumption
  <2> QED BY <1>1, <2>1
<1> QED BY <1>4, <1>5 DEF SenderWasProved

LEMMA InitType == Init => TypeOK
<1> SUFFICES ASSUME Init PROVE TypeOK
  OBVIOUS
<1>1. RegistryTypeOK
  BY RegistryInitType DEF Init
<1>2. counts \in [Buckets -> Nat]
  BY DEF Init, LimitsInit
<1>3. hand \in Hands /\ hand = Free
  BY DEF Init, Hands
<1>4. job \in [Messages -> {"none", "pending", "dispatching", "settled"}]
  BY DEF Init
<1>5. paused \in BOOLEAN
  BY DEF Init
<1> QED BY <1>1, <1>2, <1>3, <1>4, <1>5, SendingAssumption DEF Init, TypeOK

LEMMA TypeStep ==
  ASSUME TypeOK, [Next]_vars
  PROVE  TypeOK'
<1>1. CASE RegistryNext /\ UNCHANGED <<counts, job, hand, choice, history, paused, trouble>>
  <2>1. RegistryTypeOK'
    BY <1>1, RegistryTypeStep DEF TypeOK
  <2> QED BY <1>1, <2>1 DEF TypeOK, choice, history
<1>2. ASSUME NEW m \in Messages, TakeDelivery(m) \/ TakeConfirmation(m) PROVE TypeOK'
  <2>1. UNCHANGED <<counts, registryVars, activePin, releasePin, history, paused, trouble>>
    BY <1>2, Taken
  <2>2. RegistryTypeOK'
    BY <2>1 DEF TypeOK, registryVars, records, RegistryTypeOK
  <2>3. CASE UNCHANGED <<hand, job, kept, slipped>>
    BY <2>1, <2>2, <2>3 DEF TypeOK, history
  <2>4. CASE Settle(m, "settled") /\ UNCHANGED <<kept, slipped>>
    BY <2>1, <2>2, <2>4 DEF TypeOK, Settle, Hands, history
  <2>5. ASSUME NEW c \in Providers, Hold(m, c), slipped' \in {slipped, slipped \union {m}},
               kept' \in {kept, [kept EXCEPT ![m] = c]}
        PROVE  TypeOK'
    <3>1. hand' \in Hands /\ hand'.message = m
      BY <2>5 DEF Hold, Hands
    <3>2. job' \in [Messages -> {"none", "pending", "dispatching", "settled"}] /\ job'[m] = "dispatching"
      BY <2>5 DEF Hold, TypeOK
    <3>3. kept' \in [Messages -> Providers \union {None}] /\ slipped' \subseteq Messages
      BY <2>5 DEF TypeOK
    <3> QED BY <2>1, <2>2, <3>1, <3>2, <3>3 DEF TypeOK, history
  <2>6. \/ UNCHANGED <<hand, job, kept, slipped>>
        \/ Settle(m, "settled") /\ UNCHANGED <<kept, slipped>>
        \/ \E c \in Providers :
             /\ Hold(m, c) /\ slipped' \in {slipped, slipped \union {m}}
             /\ kept' \in {kept, [kept EXCEPT ![m] = c]}
    BY <1>2, Taken
  <2> QED BY <2>3, <2>4, <2>5, <2>6
<1>3. ASSUME NEW m \in Messages, ExpireLease(m) PROVE TypeOK'
  BY <1>3 DEF ExpireLease, TypeOK, choice, history, registryVars, records, RegistryTypeOK
<1>4. CASE TakeSlot
  <2>1. hand # Free
    BY <1>4, HandForms DEF TakeSlot
  <2>2. UNCHANGED <<registryVars, choice, history, paused>> /\ trouble' \in 0..MaxTrouble
    BY <1>4, SendingAssumption DEF TakeSlot, Disturb, TypeOK
  <2>3. RegistryTypeOK'
    BY <2>2 DEF TypeOK, registryVars, records, RegistryTypeOK
  <2>4. CASE /\ Admit({hand.via}) /\ UNCHANGED job
             /\ hand' = [hand EXCEPT !.at = IF hand.message \in Deliveries THEN "counted" ELSE "ready"]
    <3>1. counts' \in [Buckets -> Nat]
      BY <2>4, CountedType DEF TypeOK, Admit
    <3>2. hand' \in Hands /\ hand'.message = hand.message
      BY <2>1, <2>4, HandMoves
    <3> QED BY <2>1, <2>2, <2>3, <2>4, <3>1, <3>2 DEF TypeOK, choice, history
  <2>5. CASE UNCHANGED counts /\ Settle(hand.message, "pending")
    BY <2>2, <2>3, <2>5 DEF Settle, TypeOK, Hands, choice, history
  <2> QED BY <1>4, <2>4, <2>5 DEF TakeSlot, Refuse
<1>5. CASE ReserveDelivery
  <2>1. hand # Free /\ hand.via \in Providers
    BY <1>5, HandForms DEF ReserveDelivery
  <2>2. UNCHANGED <<counts, registryVars, activePin, releasePin, slipped, history, paused, trouble>>
    BY <1>5 DEF ReserveDelivery
  <2>3. RegistryTypeOK'
    BY <2>2 DEF TypeOK, registryVars, records, RegistryTypeOK
  <2>4. CASE /\ kept' = [kept EXCEPT ![hand.message] = IF @ = None THEN hand.via ELSE @]
             /\ hand' = [hand EXCEPT !.at = "ready"] /\ UNCHANGED job
    <3>1. kept' \in [Messages -> Providers \union {None}]
      BY <2>1, <2>4 DEF TypeOK
    <3>2. hand' \in Hands /\ hand'.message = hand.message
      BY <2>1, <2>4, HandMoves
    <3> QED BY <2>1, <2>2, <2>3, <2>4, <3>1, <3>2 DEF TypeOK, history
  <2>5. CASE Settle(hand.message, "settled") /\ UNCHANGED kept
    BY <2>2, <2>3, <2>5 DEF Settle, TypeOK, Hands, history
  <2> QED BY <1>5, <2>4, <2>5 DEF ReserveDelivery
<1>6. CASE Send
  <2>1. hand # Free /\ hand.via \in Providers /\ hand.message \in Messages
    BY <1>6, HandForms DEF Send
  <2>2. UNCHANGED <<counts, registryVars, job, choice, paused, trouble>>
    BY <1>6 DEF Send
  <2>3. RegistryTypeOK'
    BY <2>2 DEF TypeOK, registryVars, records, RegistryTypeOK
  <2>4. hand' \in Hands /\ hand'.message = hand.message
    BY <1>6, <2>1, HandMoves DEF Send
  <2>5. used' \in [Messages -> SUBSET Providers]
    BY <1>6, <2>1 DEF Send, TypeOK
  <2>6. minute' \in [Providers -> Nat] /\ late' \in [Providers -> Nat]
    BY <1>6, <2>1 DEF Send, TypeOK
  <2> QED BY <2>1, <2>2, <2>3, <2>4, <2>5, <2>6 DEF TypeOK, choice
<1>7. CASE Record
  <2>1. UNCHANGED <<counts, registryVars, choice, history, paused>> /\ trouble' \in 0..MaxTrouble
    BY <1>7, SendingAssumption DEF Record, Disturb, TypeOK
  <2>2. RegistryTypeOK'
    BY <2>1 DEF TypeOK, registryVars, records, RegistryTypeOK
  <2>3. hand' = Free /\ job' \in [Messages -> {"none", "pending", "dispatching", "settled"}]
    BY <1>7 DEF Record, Settle, TypeOK
  <2> QED BY <2>1, <2>2, <2>3 DEF TypeOK, Hands, choice, history
<1>8. CASE Crash
  <2>1. UNCHANGED <<counts, registryVars, job, choice, history, paused>> /\ trouble' \in 0..MaxTrouble
    BY <1>8, SendingAssumption DEF Crash, Disturb, TypeOK
  <2>2. RegistryTypeOK'
    BY <2>1 DEF TypeOK, registryVars, records, RegistryTypeOK
  <2> QED BY <1>8, <2>1, <2>2 DEF Crash, TypeOK, Hands, choice, history
<1>9. ASSUME NEW s \in Subscribers, Subscribe(s) PROVE TypeOK'
  <2>1. UNCHANGED <<registryVars, hand, choice, history, paused, trouble>>
    BY <1>9 DEF Subscribe
  <2>2. RegistryTypeOK'
    BY <2>1 DEF TypeOK, registryVars, records, RegistryTypeOK
  <2>3. counts' \in [Buckets -> Nat]
    BY <1>9, CountedType DEF Subscribe, Admit, Refuse, TypeOK
  <2>4. /\ job' \in [Messages -> {"none", "pending", "dispatching", "settled"}]
        /\ \A m \in Messages : job[m] = "dispatching" => job'[m] = "dispatching"
    BY <1>9 DEF Subscribe, TypeOK
  <2>5. hand # Free => hand.message \in Messages
    BY HandForms
  <2> QED BY <2>1, <2>2, <2>3, <2>4, <2>5 DEF TypeOK, choice, history
<1>10. ASSUME NEW pin \in Pins, Deploy(pin) PROVE TypeOK'
  <2>1. RegistryTypeOK'
    BY <1>10, RegistryAssumption DEF Deploy, Ask, TypeOK, records, RegistryTypeOK
  <2> QED BY <1>10, <2>1 DEF Deploy, TypeOK, history
<1>11. CASE NextMinute
  <2>1. counts' \in [Buckets -> Nat]
    BY <1>11 DEF NextMinute, TurnMinute, TypeOK
  <2>2. RegistryTypeOK'
    BY <1>11 DEF NextMinute, TypeOK, registryVars, records, RegistryTypeOK
  <2> QED BY <1>11, <2>1, <2>2 DEF NextMinute, TypeOK, choice
<1>12. CASE UNCHANGED vars
  BY <1>12 DEF vars, TypeOK, choice, history, registryVars, records, RegistryTypeOK
<1>13. CASE Pause \/ Resume
  <2>1. UNCHANGED <<counts, registryVars, job, choice, hand, history>>
    BY <1>13 DEF Pause, Resume
  <2>2. RegistryTypeOK'
    BY <2>1 DEF TypeOK, registryVars, records, RegistryTypeOK
  <2>3. trouble' \in 0..MaxTrouble
    <3>1. trouble \in 0..MaxTrouble /\ MaxTrouble \in Nat
      BY SendingAssumption DEF TypeOK
    <3>2. trouble' = trouble \/ Disturb
      BY <1>13 DEF Pause, Resume
    <3> QED BY <3>1, <3>2 DEF Disturb
  <2>4. paused' \in BOOLEAN
    BY <1>13, Zenon DEF Pause, Resume
  <2> QED BY <2>1, <2>2, <2>3, <2>4 DEF TypeOK, choice, history
<1> QED
  BY <1>1, <1>2, <1>3, <1>4, <1>5, <1>6, <1>7, <1>8, <1>9, <1>10, <1>11, <1>12, <1>13 DEF Next, Worker

\* Every variable keeps its type, and what the worker holds is being dispatched.
THEOREM TypeCorrect == Spec => []TypeOK
BY InitType, TypeStep, PTL DEF Spec

---------------------------------------------------------------------------
(* The registry *)

\* Outside development mode everything that lets a transport be made rests on an
\* answer of the resolver.
SenderInv ==
  /\ verified \subseteq proved
  /\ SenderWasProved
  /\ \A a \in Admins :
       /\ ~Development /\ request[a].at = "insert" => SenderDomain[request[a].id] \in proved
       /\ request[a].at = "found" => request[a].id \in proved

LEMMA SenderStep ==
  ASSUME RegistryTypeOK, SenderInv, RegistryNext
  PROVE  SenderInv'
<1>1. ASSUME NEW r \in Records, Create(r) PROVE SenderInv'
  <2>1. r \notin Transports
    BY <1>1, RegistryAssumption DEF Create
  <2> QED BY <1>1, <2>1 DEF Create, SenderInv, SenderWasProved
<1>2. ASSUME NEW r \in Records, Delete(r) PROVE SenderInv'
  BY <1>2 DEF Delete, SenderInv, SenderWasProved
<1>3. ASSUME NEW a \in Admins, NEW t \in Transports, NEW s \in Streams, BeginCreate(a, t, s)
      PROVE  SenderInv'
  <2>1. UNCHANGED <<verified, rows, proved>>
    BY <1>3 DEF BeginCreate, records
  <2>2. ~Development => SenderDomain[t] \in proved
    BY <1>3 DEF BeginCreate, IsVerified, SenderInv
  <2>3. request' = [request EXCEPT ![a] = [at |-> "insert", id |-> t, stream |-> s]]
    BY <1>3 DEF BeginCreate, Begin
  <2> QED BY <2>1, <2>2, <2>3 DEF SenderInv, SenderWasProved, RegistryTypeOK
<1>4. ASSUME NEW a \in Admins, NEW w \in Webhooks, BeginRotate(a, w) PROVE SenderInv'
  BY <1>4 DEF BeginRotate, Begin, records, SenderInv, SenderWasProved, RegistryTypeOK
<1>5. ASSUME NEW a \in Admins, NEW d \in Domains, BeginCheck(a, d) PROVE SenderInv'
  BY <1>5 DEF BeginCheck, Begin, records, SenderInv, SenderWasProved, RegistryTypeOK
<1>6. ASSUME NEW a \in Admins, Insert(a) PROVE SenderInv'
  <2>1. ~Development => SenderDomain[request[a].id] \in proved
    BY <1>6 DEF Insert, SenderInv
  <2>2. rows' \subseteq rows \union {request[a].id} /\ UNCHANGED <<verified, proved>>
    BY <1>6 DEF Insert, records
  <2>3. request' = [request EXCEPT ![a] = Ready]
    BY <1>6 DEF Insert, End
  <2>4. SenderWasProved'
    BY <2>1, <2>2 DEF SenderInv, SenderWasProved
  <2>5. \A b \in Admins : request'[b] = request[b] \/ request'[b].at = "ready"
    BY <2>3 DEF RegistryTypeOK, Ready
  <2> QED BY <2>2, <2>4, <2>5 DEF SenderInv
<1>7. ASSUME NEW a \in Admins, Rotate(a) PROVE SenderInv'
  BY <1>7 DEF Rotate, End, Ready, SenderInv, SenderWasProved, RegistryTypeOK
<1>8. ASSUME NEW a \in Admins, LookUp(a) PROVE SenderInv'
  <2>1. UNCHANGED <<verified, rows>>
    BY <1>8 DEF LookUp, records
  <2>2. PICK answer \in {"found", "not found"} :
          /\ request' = [request EXCEPT ![a].at = answer]
          /\ proved' = IF answer = "found" THEN proved \union {request[a].id} ELSE proved
    BY <1>8 DEF LookUp
  <2>3. request[a] = [at |-> "look up", id |-> request[a].id]
    <3>1. request[a] \in [at : {"look up"}, id : Domains]
      BY <1>8, RequestForms DEF LookUp
    <3> QED BY <3>1
  <2>4. request'[a].at = answer /\ request'[a].id = request[a].id
    BY <2>2, <2>3 DEF RegistryTypeOK
  <2>5. \A b \in Admins : b # a => request'[b] = request[b]
    BY <2>2 DEF RegistryTypeOK
  <2>6. proved \subseteq proved' /\ (answer = "found" => request[a].id \in proved')
    BY <2>2
  <2>7. verified' \subseteq proved' /\ SenderWasProved'
    BY <2>1, <2>6 DEF SenderInv, SenderWasProved
  <2>8. ASSUME NEW b \in Admins
        PROVE  /\ ~Development /\ request'[b].at = "insert" => SenderDomain[request'[b].id] \in proved'
               /\ request'[b].at = "found" => request'[b].id \in proved'
    <3>1. CASE b = a
      BY <2>4, <2>6, <3>1
    <3>2. CASE b # a
      BY <2>5, <2>6, <3>2 DEF SenderInv
    <3> QED BY <3>1, <3>2
  <2> QED BY <2>7, <2>8 DEF SenderInv
<1>9. ASSUME NEW a \in Admins, WriteCheck(a) PROVE SenderInv'
  BY <1>9 DEF WriteCheck, End, Ready, SenderInv, SenderWasProved, RegistryTypeOK
<1>10. ASSUME NEW a \in Admins, LoseRequest(a) PROVE SenderInv'
  BY <1>10 DEF LoseRequest, End, Ready, records, SenderInv, SenderWasProved, RegistryTypeOK
<1> QED
  BY <1>1, <1>2, <1>3, <1>4, <1>5, <1>6, <1>7, <1>8, <1>9, <1>10 DEF RegistryNext

\* Outside the registry's own steps only the number of requests changes.
LEMMA RegistryElsewhere ==
  ASSUME [Next]_vars, ~RegistryNext
  PROVE  UNCHANGED <<records, request, proved>>
<1>1. ASSUME NEW m \in Messages, TakeDelivery(m) \/ TakeConfirmation(m) \/ ExpireLease(m)
      PROVE  UNCHANGED registryVars
  BY <1>1 DEF TakeDelivery, TakeConfirmation, ExpireLease
<1>2. CASE TakeSlot \/ ReserveDelivery \/ Send \/ Record \/ Crash \/ NextMinute \/ Pause \/ Resume
  BY <1>2 DEF TakeSlot, ReserveDelivery, Send, Record, Crash, NextMinute, Pause, Resume, registryVars
<1>3. ASSUME NEW s \in Subscribers, Subscribe(s) PROVE UNCHANGED registryVars
  BY <1>3 DEF Subscribe
<1>4. ASSUME NEW pin \in Pins, Deploy(pin) PROVE UNCHANGED <<records, request, proved>>
  BY <1>4 DEF Deploy
<1>5. CASE UNCHANGED vars
  BY <1>5 DEF vars, registryVars
<1> QED BY <1>1, <1>2, <1>3, <1>4, <1>5 DEF Next, Worker, registryVars

\* Outside development mode a transport exists only if the resolver once found the
\* ownership record of its sender's domain, whatever checks, deletions and other
\* requests overlap.
THEOREM SenderIsProved == Spec => []SenderWasProved
<1>1. Init => SenderInv
  <2> SUFFICES ASSUME Init PROVE SenderInv
    OBVIOUS
  <2>1. verified = proved /\ request = [a \in Admins |-> Ready]
    BY DEF Init, RegistryInit
  <2>2. SenderWasProved
    BY RegistryInitType DEF Init, SenderWasProved
  <2> QED BY <2>1, <2>2 DEF SenderInv, Ready
<1>2. ASSUME TypeOK, SenderInv, [Next]_vars PROVE SenderInv'
  <2>1. CASE RegistryNext
    BY <1>2, <2>1, SenderStep DEF TypeOK
  <2>2. CASE ~RegistryNext
    BY <1>2, <2>2, RegistryElsewhere DEF SenderInv, SenderWasProved, records
  <2> QED BY <2>1, <2>2
<1>3. SenderInv => SenderWasProved
  BY DEF SenderInv
<1> QED BY <1>1, <1>2, <1>3, TypeCorrect, PTL DEF Spec

\* No step enables a deleted record, and no row goes.
LEMMA GoneStays ==
  ASSUME TypeOK, [Next]_vars
  PROVE  rows \subseteq rows' /\ \A r \in rows \ enabled : r \notin enabled'
<1>1. CASE RegistryNext
  <2> SUFFICES rows \subseteq rows' /\ enabled' \subseteq enabled \union (Records \ rows)
    OBVIOUS
  <2>1. ASSUME NEW r \in Records, Create(r) \/ Delete(r)
        PROVE  rows \subseteq rows' /\ enabled' \subseteq enabled \union (Records \ rows)
    BY <2>1 DEF Create, Delete
  <2>2. ASSUME NEW a \in Admins, Insert(a)
        PROVE  rows \subseteq rows' /\ enabled' \subseteq enabled \union (Records \ rows)
    <3>1. request[a] \in [at : {"insert"}, id : Transports, stream : Streams]
      BY <2>2, RequestForms DEF Insert, TypeOK
    <3>2. request[a].id \in Records
      BY <3>1 DEF Records
    <3> QED BY <2>2, <3>2 DEF Insert, records
  <2>3. ASSUME NEW a \in Admins, Rotate(a) \/ LookUp(a) \/ WriteCheck(a) \/ LoseRequest(a)
        PROVE  UNCHANGED <<rows, enabled>>
    BY <2>3 DEF Rotate, LookUp, WriteCheck, LoseRequest, WriteBack, records
  <2>4. ASSUME NEW a \in Admins, NEW t \in Transports, NEW s \in Streams, BeginCreate(a, t, s)
        PROVE  UNCHANGED <<rows, enabled>>
    BY <2>4 DEF BeginCreate, records
  <2>5. ASSUME NEW a \in Admins, NEW w \in Webhooks, BeginRotate(a, w) PROVE UNCHANGED <<rows, enabled>>
    BY <2>5 DEF BeginRotate, records
  <2>6. ASSUME NEW a \in Admins, NEW d \in Domains, BeginCheck(a, d) PROVE UNCHANGED <<rows, enabled>>
    BY <2>6 DEF BeginCheck, records
  <2> QED BY <1>1, <2>1, <2>2, <2>3, <2>4, <2>5, <2>6 DEF RegistryNext
<1>2. CASE ~RegistryNext
  BY <1>2, RegistryElsewhere DEF records
<1> QED BY <1>1, <1>2

\* A deleted record stays deleted.
THEOREM DeletionLasts == Spec => DeletedStaysDeleted
<1>1. ASSUME TypeOK, [Next]_vars PROVE [\A r \in rows \ enabled : r \notin enabled']_registryVars
  BY <1>1, GoneStays
<1> QED BY <1>1, TypeCorrect, PTL DEF Spec, DeletedStaysDeleted

---------------------------------------------------------------------------
(* One provider *)

\* A message that did not slip was only submitted through the kept choice, and
\* what the worker holds is that choice, once it is kept.
ProviderInv ==
  /\ \A m \in Messages \ slipped : \A c \in used[m] : kept[m] = c
  /\ hand # Free /\ hand.message \notin slipped =>
       \/ kept[hand.message] = hand.via
       \/ /\ kept[hand.message] = None
          /\ hand.at = "counted" \/ (hand.at = "chosen" /\ hand.message \in Deliveries)

LEMMA ProviderStep ==
  ASSUME TypeOK, ProviderInv, [Next]_vars
  PROVE  ProviderInv'
<1>1. CASE UNCHANGED <<hand, choice, history>>
  BY <1>1 DEF ProviderInv, choice, history
<1>2. ASSUME NEW m \in Messages, TakeDelivery(m) \/ TakeConfirmation(m) PROVE ProviderInv'
  <2>1. UNCHANGED used /\ kept[m] \in Providers \union {None} /\ None \notin Providers
    BY <1>2, Taken, SendingAssumption DEF history, TypeOK
  <2>2. CASE UNCHANGED <<hand, job, kept, slipped>>
    BY <2>1, <2>2 DEF ProviderInv
  <2>3. CASE Settle(m, "settled") /\ UNCHANGED <<kept, slipped>>
    BY <2>1, <2>3 DEF Settle, ProviderInv
  <2>4. ASSUME NEW c \in Providers, Hold(m, c),
               \/ slipped' = slipped \union {m} /\ UNCHANGED kept
               \/ kept[m] = c /\ UNCHANGED <<kept, slipped>>
               \/ kept[m] = None /\ m \in Deliveries /\ UNCHANGED <<kept, slipped>>
               \/ /\ kept[m] = None /\ m \notin Deliveries
                  /\ kept' = [kept EXCEPT ![m] = c] /\ UNCHANGED slipped
        PROVE  ProviderInv'
    <3>1. hand'.message = m /\ hand'.via = c /\ hand'.at = "chosen"
      BY <2>4 DEF Hold
    <3>2. CASE slipped' = slipped \union {m} /\ UNCHANGED kept
      BY <2>1, <3>1, <3>2 DEF ProviderInv
    <3>3. CASE kept[m] = c /\ UNCHANGED <<kept, slipped>>
      BY <2>1, <3>1, <3>3 DEF ProviderInv
    <3>4. CASE kept[m] = None /\ m \in Deliveries /\ UNCHANGED <<kept, slipped>>
      BY <2>1, <3>1, <3>4 DEF ProviderInv
    <3>5. CASE kept[m] = None /\ kept' = [kept EXCEPT ![m] = c] /\ UNCHANGED slipped
      <4>1. m \notin slipped => used[m] = {}
        BY <2>1, <3>5 DEF ProviderInv, TypeOK
      <4>2. kept'[m] = c /\ \A n \in Messages : n # m => kept'[n] = kept[n]
        BY <3>5 DEF TypeOK
      <4> QED BY <2>1, <3>1, <3>5, <4>1, <4>2 DEF ProviderInv
    <3> QED BY <2>4, <3>2, <3>3, <3>4, <3>5
  <2>5. \/ UNCHANGED <<hand, job, kept, slipped>>
        \/ Settle(m, "settled") /\ UNCHANGED <<kept, slipped>>
        \/ \E c \in Providers :
             /\ Hold(m, c)
             /\ \/ slipped' = slipped \union {m} /\ UNCHANGED kept
                \/ kept[m] = c /\ UNCHANGED <<kept, slipped>>
                \/ kept[m] = None /\ m \in Deliveries /\ UNCHANGED <<kept, slipped>>
                \/ /\ kept[m] = None /\ m \notin Deliveries
                   /\ kept' = [kept EXCEPT ![m] = c] /\ UNCHANGED slipped
    BY <1>2, Taken
  <2> QED BY <2>2, <2>3, <2>4, <2>5
<1>3. CASE TakeSlot
  <2>1. UNCHANGED <<choice, history>> /\ hand.at = "chosen"
    BY <1>3 DEF TakeSlot
  <2>2. hand # Free
    BY <2>1, HandForms
  <2>3. CASE hand' = [hand EXCEPT !.at = IF hand.message \in Deliveries THEN "counted" ELSE "ready"]
    <3>1. hand'.message = hand.message /\ hand'.via = hand.via
          /\ hand'.at = IF hand.message \in Deliveries THEN "counted" ELSE "ready"
      BY <2>2, <2>3, HandMoves
    <3> QED BY <2>1, <2>2, <3>1 DEF ProviderInv, choice, history
  <2>4. CASE hand' = Free
    BY <2>1, <2>4 DEF ProviderInv, choice, history
  <2> QED BY <1>3, <2>3, <2>4 DEF TakeSlot, Settle
<1>4. CASE ReserveDelivery
  <2>1. UNCHANGED <<slipped, history>> /\ hand.at = "counted"
    BY <1>4 DEF ReserveDelivery
  <2>2. hand # Free /\ hand.message \in Messages
    BY <2>1, HandForms
  <2>3. CASE /\ kept' = [kept EXCEPT ![hand.message] = IF @ = None THEN hand.via ELSE @]
             /\ hand' = [hand EXCEPT !.at = "ready"]
    <3>1. hand'.message = hand.message /\ hand'.via = hand.via
      BY <2>2, <2>3, HandMoves
    <3>2. /\ kept'[hand.message] = IF kept[hand.message] = None THEN hand.via ELSE kept[hand.message]
          /\ \A n \in Messages : n # hand.message => kept'[n] = kept[n]
      BY <2>2, <2>3 DEF TypeOK
    <3>3. \A c \in used[hand.message] : hand.message \notin slipped => kept'[hand.message] = c
      BY <2>2, <3>2, SendingAssumption DEF ProviderInv, TypeOK
    <3> QED BY <2>1, <2>2, <3>1, <3>2, <3>3 DEF ProviderInv, history
  <2>4. CASE hand' = Free /\ UNCHANGED kept
    BY <2>1, <2>4 DEF ProviderInv, history
  <2> QED BY <1>4, <2>3, <2>4 DEF ReserveDelivery, Settle
<1>5. CASE Send
  <2>1. UNCHANGED choice /\ hand.at = "ready"
    BY <1>5 DEF Send
  <2>2. hand # Free /\ hand.message \in Messages
    BY <2>1, HandForms
  <2>3. hand'.message = hand.message /\ hand'.via = hand.via
    BY <1>5, <2>2, HandMoves DEF Send
  <2>4. used' = [used EXCEPT ![hand.message] = @ \union {hand.via}]
    BY <1>5 DEF Send
  <2>5. hand.message \notin slipped => kept[hand.message] = hand.via
    BY <2>1, <2>2 DEF ProviderInv
  <2> QED BY <2>1, <2>2, <2>3, <2>4, <2>5 DEF ProviderInv, choice, TypeOK
<1>6. CASE Record \/ Crash
  BY <1>6 DEF Record, Crash, Settle, ProviderInv, choice, history
<1>7. ASSUME NEW m \in Messages, ExpireLease(m) PROVE UNCHANGED <<hand, choice, history>>
  BY <1>7 DEF ExpireLease
<1>8. ASSUME NEW s \in Subscribers, Subscribe(s) PROVE UNCHANGED <<hand, choice, history>>
  BY <1>8 DEF Subscribe
<1>9. CASE NextMinute \/ Pause \/ Resume \/ \E pin \in Pins : Deploy(pin)
  BY <1>9 DEF NextMinute, Pause, Resume, Deploy, ProviderInv, choice, history
<1>10. CASE UNCHANGED vars
  BY <1>1, <1>10 DEF vars
<1> QED
  BY <1>1, <1>2, <1>3, <1>4, <1>5, <1>6, <1>7, <1>8, <1>9, <1>10 DEF Next, Worker

\* A message is only submitted through one transport.
THEOREM RetryIsFaithful == Spec => []RetryKeepsProvider
<1>1. Init => ProviderInv
  BY DEF Init, ProviderInv
<1>2. ProviderInv => RetryKeepsProvider
  BY DEF ProviderInv, RetryKeepsProvider
<1> QED BY <1>1, <1>2, ProviderStep, TypeCorrect, PTL DEF Spec

---------------------------------------------------------------------------
(* The window of a transport *)

\* What the worker has counted and not sent yet.
Carried(c) == IF hand.at \in {"counted", "ready"} /\ hand.via = c THEN 1 ELSE 0

\* Submissions of this minute, with the one that is about to come, are at most
\* those counted in this minute and one counted before it.
WindowInv ==
  /\ \A b \in Buckets : counts[b] <= Maximum[b]
  /\ \A c \in Providers : minute[c] + Carried(c) <= counts[c] + 1

LEMMA AdmitWithinMaximum ==
  ASSUME TypeOK, \A b \in Buckets : counts[b] <= Maximum[b], NEW buckets \in SUBSET Buckets,
         Admit(buckets)
  PROVE  /\ \A b \in Buckets : counts'[b] <= Maximum[b]
         /\ \A b \in buckets : counts'[b] = counts[b] + 1
         /\ \A b \in Buckets \ buckets : counts'[b] = counts[b]
BY MaximumAssumption DEF Admit, Fits, Counted, TypeOK

LEMMA WindowStep ==
  ASSUME TypeOK, WindowInv, [Next]_vars
  PROVE  WindowInv'
<1> USE DEF WindowInv
<1>0. Providers \subseteq Buckets
  BY SendingAssumption DEF Buckets
<1>1. CASE UNCHANGED <<counts, hand, minute>>
  BY <1>1 DEF Carried
<1>2. ASSUME NEW m \in Messages, TakeDelivery(m) \/ TakeConfirmation(m) PROVE WindowInv'
  <2>1. UNCHANGED <<counts, minute>>
    BY <1>2, Taken DEF history
  <2>2. hand'.at \in {"chosen", "free"}
    BY <1>2, Taken DEF Settle, Hold, Free
  <2>3. \A c \in Providers : Carried(c)' = 0 /\ Carried(c) \in {0, 1}
    BY <2>2 DEF Carried
  <2> QED BY <1>0, <2>1, <2>3 DEF TypeOK
<1>3. CASE TakeSlot
  <2>1. UNCHANGED minute /\ hand.at = "chosen"
    BY <1>3 DEF TakeSlot, history
  <2>2. hand # Free /\ hand.via \in Providers
    BY <2>1, HandForms
  <2>3. \A c \in Providers : Carried(c) = 0
    BY <2>1 DEF Carried
  <2>4. CASE Admit({hand.via}) /\ hand' = [hand EXCEPT !.at = IF hand.message \in Deliveries THEN "counted" ELSE "ready"]
    <3>1. hand'.via = hand.via
      BY <2>2, <2>4, HandMoves
    <3>2. /\ \A b \in Buckets : counts'[b] <= Maximum[b]
          /\ counts'[hand.via] = counts[hand.via] + 1
          /\ \A b \in Buckets \ {hand.via} : counts'[b] = counts[b]
      BY <1>0, <2>2, <2>4, AdmitWithinMaximum
    <3>3. \A c \in Providers : Carried(c)' \in {0, 1} /\ (c # hand.via => Carried(c)' = 0)
      BY <3>1 DEF Carried
    <3>4. ASSUME NEW c \in Providers PROVE minute'[c] + Carried(c)' <= counts'[c] + 1
      <4>1. minute[c] \in Nat /\ counts[c] \in Nat /\ minute[c] <= counts[c] + 1
        BY <1>0, <2>3 DEF TypeOK
      <4>2. CASE c = hand.via
        BY <2>1, <3>2, <3>3, <4>1, <4>2
      <4>3. CASE c # hand.via
        BY <1>0, <2>1, <3>2, <3>3, <4>1, <4>3
      <4> QED BY <4>2, <4>3
    <3> QED BY <3>2, <3>4
  <2>5. CASE UNCHANGED counts /\ hand' = Free
    BY <2>1, <2>3, <2>5 DEF Carried, Free
  <2> QED BY <1>3, <2>4, <2>5 DEF TakeSlot, Refuse, Settle
<1>4. CASE ReserveDelivery
  <2>1. UNCHANGED <<counts, minute>> /\ hand.at = "counted"
    BY <1>4 DEF ReserveDelivery, history
  <2>2. hand # Free
    BY <2>1, HandForms
  <2>3. CASE hand' = [hand EXCEPT !.at = "ready"]
    <3>1. hand'.via = hand.via /\ hand'.at = "ready"
      BY <2>2, <2>3, HandMoves
    <3>2. \A c \in Providers : Carried(c)' = Carried(c)
      BY <2>1, <3>1 DEF Carried
    <3> QED BY <2>1, <3>2
  <2>4. CASE hand' = Free
    <3>1. \A c \in Providers : Carried(c)' = 0 /\ Carried(c) \in {0, 1}
      BY <2>4 DEF Carried, Free
    <3> QED BY <1>0, <2>1, <3>1 DEF TypeOK
  <2> QED BY <1>4, <2>3, <2>4 DEF ReserveDelivery, Settle
<1>5. CASE Send
  <2>1. UNCHANGED counts /\ hand.at = "ready"
    BY <1>5 DEF Send
  <2>2. hand # Free /\ hand.via \in Providers
    BY <2>1, HandForms
  <2>3. hand'.at = "answered"
    BY <1>5, <2>2, HandMoves DEF Send
  <2>4. minute' = [minute EXCEPT ![hand.via] = @ + 1]
    BY <1>5 DEF Send
  <2>5. ASSUME NEW c \in Providers PROVE minute'[c] + Carried(c)' <= counts'[c] + 1
    <3>1. minute'[c] = minute[c] + Carried(c)
      BY <2>1, <2>2, <2>4 DEF Carried, TypeOK
    <3>2. Carried(c)' = 0
      BY <2>3 DEF Carried
    <3>3. Carried(c) \in {0, 1} /\ minute[c] \in Nat /\ counts[c] \in Nat
      BY <1>0 DEF Carried, TypeOK
    <3> QED BY <2>1, <3>1, <3>2, <3>3
  <2> QED BY <2>1, <2>5
<1>6. CASE Record \/ Crash
  <2>1. UNCHANGED <<counts, minute>> /\ hand' = Free
    BY <1>6 DEF Record, Crash, Settle, history
  <2>2. \A c \in Providers : Carried(c)' = 0 /\ Carried(c) \in {0, 1}
    BY <2>1 DEF Carried, Free
  <2> QED BY <1>0, <2>1, <2>2 DEF TypeOK
<1>7. ASSUME NEW m \in Messages, ExpireLease(m) PROVE UNCHANGED <<counts, hand, minute>>
  BY <1>7 DEF ExpireLease, history
<1>8. ASSUME NEW s \in Subscribers, Subscribe(s) PROVE WindowInv'
  <2>1. UNCHANGED <<hand, minute>>
    BY <1>8 DEF Subscribe, history
  <2>2. BucketsOf[s] \in SUBSET Buckets /\ BucketsOf[s] \intersect Providers = {}
    BY SendingAssumption DEF Buckets
  <2>3. CASE Refuse(BucketsOf[s])
    BY <1>1, <2>1, <2>3 DEF Refuse
  <2>4. CASE Admit(BucketsOf[s])
    <3>1. /\ \A b \in Buckets : counts'[b] <= Maximum[b]
          /\ \A b \in Buckets \ BucketsOf[s] : counts'[b] = counts[b]
      BY <2>2, <2>4, AdmitWithinMaximum
    <3>2. \A c \in Providers : counts'[c] = counts[c]
      BY <1>0, <2>2, <3>1
    <3> QED BY <2>1, <3>1, <3>2 DEF Carried
  <2> QED BY <1>8, <2>3, <2>4 DEF Subscribe
<1>9. CASE Pause \/ Resume \/ \E pin \in Pins : Deploy(pin)
  BY <1>1, <1>9 DEF Pause, Resume, Deploy, history
<1>10. CASE NextMinute
  <2>1. /\ minute' = [c \in Providers |-> 0] /\ UNCHANGED hand
        /\ counts' = [b \in Buckets |-> IF b \in MinuteBuckets THEN 0 ELSE counts[b]]
    BY <1>10 DEF NextMinute, TurnMinute
  <2>2. \A c \in Providers : Carried(c)' \in {0, 1} /\ minute'[c] = 0 /\ counts'[c] = 0
    BY <1>0, <2>1, SendingAssumption DEF Carried
  <2>3. \A b \in Buckets : counts'[b] <= Maximum[b]
    BY <2>1, MaximumAssumption
  <2> QED BY <2>2, <2>3
<1>11. CASE UNCHANGED vars
  BY <1>1, <1>11 DEF vars, history
<1>12. CASE RegistryNext /\ UNCHANGED <<counts, job, hand, choice, history, paused, trouble>>
  BY <1>1, <1>12 DEF history
<1> QED
  BY <1>1, <1>2, <1>3, <1>4, <1>5, <1>6, <1>7, <1>8, <1>9, <1>10, <1>11, <1>12 DEF Next, Worker

\* A minute gives a transport at most its rate and one message more.
THEOREM RateHolds == Spec => []MinuteHolds
<1>1. Init => WindowInv
  <2> SUFFICES ASSUME Init PROVE WindowInv
    OBVIOUS
  <2>1. /\ counts = [b \in Buckets |-> 0] /\ hand = Free
        /\ minute = [c \in Providers |-> 0] /\ Providers \subseteq Buckets
    BY SendingAssumption DEF Init, LimitsInit, Buckets
  <2> QED BY <2>1, MaximumAssumption DEF WindowInv, Carried, Free
<1>2. TypeOK /\ WindowInv => MinuteHolds
  <2> SUFFICES ASSUME TypeOK, WindowInv, NEW c \in Providers PROVE minute[c] <= Maximum[c] + 1
    BY DEF MinuteHolds
  <2>1. c \in Buckets
    BY SendingAssumption DEF Buckets
  <2>2. minute[c] \in Nat /\ counts[c] \in Nat /\ Maximum[c] \in Nat /\ Carried(c) \in {0, 1}
    BY <2>1, MaximumAssumption DEF TypeOK, Carried
  <2>3. counts[c] <= Maximum[c] /\ minute[c] + Carried(c) <= counts[c] + 1
    BY <2>1 DEF WindowInv
  <2> QED BY <2>2, <2>3
<1> QED BY <1>1, <1>2, WindowStep, TypeCorrect, PTL DEF Spec

---------------------------------------------------------------------------
(* Deleted transports *)

\* The worker is about to submit through the transport.
Chosen(c) == hand.at \in {"chosen", "counted", "ready"} /\ hand.via = c

\* A transport that was given a message after its deletion is not chosen again.
LateInv ==
  \A c \in Providers :
    \/ late[c] = 0
    \/ late[c] = 1 /\ c \in rows \ enabled /\ ~Chosen(c)

LEMMA LateStep ==
  ASSUME TypeOK, LateInv, [Next]_vars
  PROVE  LateInv'
<1>1. \A c \in rows \ enabled : c \in rows' \ enabled'
  BY GoneStays
<1>2. CASE UNCHANGED <<late, hand>>
  BY <1>1, <1>2 DEF LateInv, Chosen
<1>3. CASE UNCHANGED late /\ hand' = Free
  BY <1>1, <1>3 DEF LateInv, Chosen, Free
<1>4. ASSUME NEW m \in Messages, TakeDelivery(m) \/ TakeConfirmation(m) PROVE LateInv'
  <2>1. UNCHANGED <<late, rows, enabled>>
    BY <1>4, Taken DEF history, registryVars, records
  <2>2. ASSUME NEW c \in Providers, Hold(m, c), InUse(c)
        PROVE  LateInv'
    <3>1. c \notin rows \ enabled
      BY <2>2, SendingAssumption DEF TypeOK, RegistryTypeOK, InUse
    <3>2. hand'.via = c
      BY <2>2 DEF Hold
    <3> QED BY <2>1, <3>1, <3>2 DEF LateInv, Chosen
  <2>3. \/ UNCHANGED hand
        \/ hand' = Free
        \/ \E c \in Providers : Hold(m, c) /\ InUse(c)
    BY <1>4, Taken DEF Settle
  <2> QED BY <1>2, <1>3, <2>1, <2>2, <2>3
<1>5. CASE TakeSlot
  <2>1. UNCHANGED late /\ hand.at = "chosen"
    BY <1>5 DEF TakeSlot, history
  <2>2. hand # Free
    BY <2>1, HandForms
  <2>3. CASE hand' = [hand EXCEPT !.at = IF hand.message \in Deliveries THEN "counted" ELSE "ready"]
    <3>1. hand'.via = hand.via
      BY <2>2, <2>3, HandMoves
    <3> QED BY <1>1, <2>1, <3>1 DEF LateInv, Chosen
  <2> QED BY <1>3, <1>5, <2>1, <2>3 DEF TakeSlot, Settle
<1>6. CASE ReserveDelivery
  <2>1. UNCHANGED late /\ hand.at = "counted"
    BY <1>6 DEF ReserveDelivery, history
  <2>2. hand # Free
    BY <2>1, HandForms
  <2>3. CASE hand' = [hand EXCEPT !.at = "ready"]
    <3>1. hand'.via = hand.via
      BY <2>2, <2>3, HandMoves
    <3> QED BY <1>1, <2>1, <3>1 DEF LateInv, Chosen
  <2> QED BY <1>3, <1>6, <2>1, <2>3 DEF ReserveDelivery, Settle
<1>7. CASE Send
  <2>1. UNCHANGED <<rows, enabled>> /\ hand.at = "ready"
    BY <1>7 DEF Send, registryVars, records
  <2>2. hand # Free /\ hand.via \in Providers
    BY <2>1, HandForms
  <2>3. hand'.at = "answered"
    BY <1>7, <2>2, HandMoves DEF Send
  <2>4. late[hand.via] = 0
    BY <2>1, <2>2 DEF LateInv, Chosen
  <2>5. late' = IF hand.via \in rows \ enabled THEN [late EXCEPT ![hand.via] = @ + 1] ELSE late
    BY <1>7 DEF Send
  <2>6. ASSUME NEW c \in Providers PROVE ~Chosen(c)'
    BY <2>3 DEF Chosen
  <2> QED BY <2>1, <2>2, <2>4, <2>5, <2>6 DEF LateInv, TypeOK
<1>8. CASE Record \/ Crash
  BY <1>3, <1>8 DEF Record, Crash, Settle, history
<1>9. ASSUME NEW m \in Messages, ExpireLease(m) PROVE UNCHANGED <<late, hand>>
  BY <1>9 DEF ExpireLease, history
<1>10. ASSUME NEW s \in Subscribers, Subscribe(s) PROVE UNCHANGED <<late, hand>>
  BY <1>10 DEF Subscribe, history
<1>11. CASE NextMinute \/ Pause \/ Resume \/ (\E pin \in Pins : Deploy(pin)) \/ UNCHANGED vars
  BY <1>2, <1>11 DEF NextMinute, Pause, Resume, Deploy, vars, history
<1>12. CASE RegistryNext /\ UNCHANGED <<counts, job, hand, choice, history, paused, trouble>>
  BY <1>2, <1>12 DEF history
<1> QED
  BY <1>2, <1>4, <1>5, <1>6, <1>7, <1>8, <1>9, <1>10, <1>11, <1>12 DEF Next, Worker

\* A deleted transport is given at most one message.
THEOREM DeletionCloses == Spec => []DeletionLetsOneMailOut
<1>1. Init => LateInv
  BY DEF Init, LateInv
<1>2. LateInv => DeletionLetsOneMailOut
  BY DEF LateInv, DeletionLetsOneMailOut
<1> QED BY <1>1, <1>2, LateStep, TypeCorrect, PTL DEF Spec
=============================================================================
