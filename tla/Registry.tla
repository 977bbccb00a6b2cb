------------------------------ MODULE Registry ------------------------------
(***************************************************************************)
(* One project's registry: sender domains, transports and webhook          *)
(* endpoints.  Requests run side by side; each reads a record, or asks the *)
(* resolver, and writes later, and no write looks at what it read again.   *)
(* A record's enabled bit is a column of its own; deleting clears it.      *)
(***************************************************************************)
EXTENDS Naturals, Sequences

CONSTANTS
  Domains, Transports, Webhooks,  \* the records that may be made
  SenderDomain,                   \* the domain of a transport's From address
  Streams,                        \* what a transport may be made for
  Admins,                         \* requests that may run at the same time
  Maker,                          \* who made a webhook's first secret
  Provisioned,                    \* transports made before, on verified domains
  FirstStream,                    \* the stream each of them was made for
  Registered,                     \* domains made before and not yet verified
  Development,                    \* development mode: senders are taken on trust
  MaxRequests                     \* bound: requests to the registry

ASSUME RegistryAssumption ==
  /\ SenderDomain \in [Transports -> Domains]
  /\ Maker \notin Admins
  /\ Domains \intersect Transports = {} /\ Webhooks \intersect (Domains \union Transports) = {}
  /\ Provisioned \in Seq(Transports) /\ FirstStream \in [Transports -> Streams]
  /\ Registered \subseteq Domains /\ Development \in BOOLEAN
  /\ MaxRequests \in Nat

VARIABLES
  rows,       \* the records made
  enabled,    \* those whose enabled bit is set
  verified,   \* domains whose config says so
  stream,     \* the stream in each transport's config
  made,       \* transports, oldest first
  secret,     \* who made the secret in each webhook's config
  request,    \* what each request is at, with what it has read
  asked,      \* requests so far
  proved      \* history: domains the resolver found the record of

records == <<rows, enabled, verified, stream, made, secret>>
registryVars == <<records, request, asked, proved>>

Records == Domains \union Transports \union Webhooks
NoStream == "no stream"
Ready == [at |-> "ready"]
Requests ==
  {Ready}
    \union [at : {"rotate"}, id : Webhooks]
    \union [at : {"look up", "found", "not found"}, id : Domains]
    \union [at : {"insert"}, id : Transports, stream : Streams]

RegistryTypeOK ==
  /\ enabled \subseteq rows /\ rows \subseteq Records
  /\ verified \subseteq Domains /\ proved \subseteq Domains
  /\ stream \in [Transports -> Streams \union {NoStream}]
  /\ made \in Seq(Transports)
  /\ secret \in [Webhooks -> Admins \union {Maker}]
  /\ request \in [Admins -> Requests]
  /\ asked \in 0..MaxRequests

\* A project whose administrator has provisioned some transports.
RegistryInit ==
  LET done == {Provisioned[i] : i \in DOMAIN Provisioned}
      domains == {SenderDomain[t] : t \in done}
  IN
  /\ rows = done \union domains \union Registered /\ enabled = rows
  /\ verified = domains /\ proved = domains
  /\ made = Provisioned
  /\ stream = [t \in Transports |-> IF t \in done THEN FirstStream[t] ELSE NoStream]
  /\ secret = [w \in Webhooks |-> Maker]
  /\ request = [a \in Admins |-> Ready]
  /\ asked = 0

Ask == asked < MaxRequests /\ asked' = asked + 1
Begin(a, r) == request[a] = Ready /\ Ask /\ request' = [request EXCEPT ![a] = r]
End(a) == request' = [request EXCEPT ![a] = Ready]

\* create for a domain or a webhook: checks of the input, then one INSERT.
Create(r) ==
  /\ r \in (Domains \union Webhooks) \ rows /\ Ask
  /\ rows' = rows \union {r} /\ enabled' = enabled \union {r}
  /\ UNCHANGED <<verified, stream, made, secret, request, proved>>

IsVerified(d) == d \in enabled /\ d \in verified

\* create for a transport: the sender's domain is looked up, except in development
\* mode, then the host ...
BeginCreate(a, t, s) ==
  /\ t \notin rows
  /\ Development \/ IsVerified(SenderDomain[t])
  /\ Begin(a, [at |-> "insert", id |-> t, stream |-> s])
  /\ UNCHANGED <<records, proved>>

\* ... and the record is inserted, unless another request took its name.
Insert(a) ==
  /\ request[a].at = "insert" /\ End(a)
  /\ LET t == request[a].id IN
       IF t \in rows THEN UNCHANGED records
       ELSE /\ rows' = rows \union {t} /\ enabled' = enabled \union {t}
            /\ stream' = [stream EXCEPT ![t] = request[a].stream]
            /\ made' = Append(made, t)
            /\ UNCHANGED <<verified, secret>>
  /\ UNCHANGED <<asked, proved>>

\* Mutant of WriteBack: the record is saved as it was read, enabled.
WriteRecord(r) == enabled' = enabled \union {r}

\* The UPDATE of a config leaves the enabled bit alone.
WriteBack(r) == enabled' = enabled

\* rotate: the config is read with its secret ...
BeginRotate(a, w) ==
  /\ w \in enabled /\ Begin(a, [at |-> "rotate", id |-> w])
  /\ UNCHANGED <<records, proved>>

\* ... and written with the new one, also when the webhook was deleted since.
Rotate(a) ==
  /\ request[a].at = "rotate" /\ End(a)
  /\ secret' = [secret EXCEPT ![request[a].id] = a]
  /\ WriteBack(request[a].id)
  /\ UNCHANGED <<rows, verified, stream, made, asked, proved>>

\* checkDomain: the config is read, the resolver asked for up to ten seconds ...
BeginCheck(a, d) ==
  /\ d \in enabled /\ Begin(a, [at |-> "look up", id |-> d])
  /\ UNCHANGED <<records, proved>>

\* ... the zone is not ours, and a lookup that
\* fails counts as an answer without the record ...
LookUp(a) ==
  /\ request[a].at = "look up"
  /\ \E found \in BOOLEAN :
       LET d == request[a].id IN
       /\ request' = [request EXCEPT ![a].at = IF found THEN "found" ELSE "not found"]
       /\ proved' = IF found THEN proved \union {d} ELSE proved
  /\ UNCHANGED <<records, asked>>

\* ... and the whole config is written back with the answer.
WriteCheck(a) ==
  /\ request[a].at \in {"found", "not found"} /\ End(a)
  /\ LET d == request[a].id IN
       /\ verified' = IF request[a].at = "found" THEN verified \union {d} ELSE verified \ {d}
       /\ WriteBack(d)
  /\ UNCHANGED <<rows, stream, made, secret, asked, proved>>

Delete(r) ==
  /\ r \in rows /\ Ask
  /\ enabled' = enabled \ {r}
  /\ UNCHANGED <<rows, verified, stream, made, secret, request, proved>>

\* A request may end anywhere.
LoseRequest(a) ==
  /\ request[a] # Ready /\ End(a)
  /\ UNCHANGED <<records, asked, proved>>

RegistryNext ==
  \/ \E r \in Records : Create(r) \/ Delete(r)
  \/ \E a \in Admins :
       \/ \E t \in Transports, s \in Streams : BeginCreate(a, t, s)
       \/ \E w \in Webhooks : BeginRotate(a, w)
       \/ \E d \in Domains : BeginCheck(a, d)
       \/ Insert(a) \/ Rotate(a) \/ LookUp(a) \/ WriteCheck(a) \/ LoseRequest(a)

\* Outside development mode a transport exists only if the resolver once found the
\* ownership record of its sender's domain, whatever checks, deletions and other
\* requests overlap.
SenderWasProved ==
  ~Development => \A t \in Transports : t \in rows => SenderDomain[t] \in proved

\* A deleted record stays deleted: a rotation or a check that read it before
\* the deletion writes its config back without enabling it.
DeletedStaysDeleted == [][\A r \in rows \ enabled : r \notin enabled']_registryVars
=============================================================================
