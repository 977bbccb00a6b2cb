------------------------------ MODULE Sending -------------------------------
(***************************************************************************)
(* Which transport a message leaves through, and when: the registry's      *)
(* transports, the manifest's explicit choice, the choice kept with the    *)
(* delivery or with the confirmation job, and the window of the transport. *)
(* One worker handles one message at a time; the registry, deployments and *)
(* subscribe requests go on beside it.                                     *)
(***************************************************************************)
EXTENDS Limits, Registry, FiniteSets

CONSTANTS
  Deliveries,     \* messages of a released broadcast or of a sequence step
  Subscribers,    \* addresses, each with the confirmation message it may get
  Confirmed,      \* those that have confirmed before: no message is queued
  Pins,           \* what a manifest may name as project.transport
  StreamOf,       \* the stream of each message
  BucketsOf,      \* the buckets a subscribe request of an address falls into
  Installation,   \* the transport of the configuration
  None,
  Window,         \* the newest enabled transports a selection looks at
  MaxTrouble      \* bound: crashes, pauses, failing statements, transient answers

Messages == Deliveries \union Subscribers
Providers == Transports \union {Installation}

ASSUME SendingAssumption ==
  /\ MinuteBuckets = Providers /\ MinuteBuckets \intersect HourBuckets = {}
  /\ Installation \notin Records /\ None \notin Providers
  /\ Deliveries \intersect Subscribers = {}
  /\ BucketsOf \in [Subscribers -> SUBSET HourBuckets]
  /\ Confirmed \subseteq Subscribers /\ Pins \subseteq Transports \union {None}
  /\ StreamOf \in [Messages -> Streams] /\ Window \in Nat \ {0} /\ MaxTrouble \in Nat

VARIABLES
  job,        \* the state of each message's job
  kept,       \* deliveries.transport_id, or transport_id in the job's payload
  hand,       \* what the worker holds
  activePin,  \* project.transport of the active release
  releasePin, \* project.transport of the release the deliveries belong to
  paused,     \* a pause, of the installation, the project or the broadcast
  used,       \* history: transports each message was submitted through
  slipped,    \* history: messages whose kept choice could not be read or written
  minute,     \* history: submissions through a transport in this minute
  late,       \* history: submissions through a transport since it was deleted
  trouble     \* what is left of the bound

choice == <<kept, activePin, releasePin, slipped>>
history == <<used, minute, late>>
vars == <<counts, registryVars, job, hand, choice, history, paused, trouble>>

Free == [at |-> "free"]
Hands ==
  {Free} \union [at : {"chosen", "counted", "ready", "answered"},
                 message : Messages, via : Providers]

TypeOK ==
  /\ counts \in [Buckets -> Nat] /\ RegistryTypeOK
  /\ job \in [Messages -> {"none", "pending", "dispatching", "settled"}]
  /\ kept \in [Messages -> Providers \union {None}]
  /\ hand \in Hands
  /\ hand # Free => job[hand.message] = "dispatching"
  /\ {activePin, releasePin} \subseteq Pins
  /\ used \in [Messages -> SUBSET Providers] /\ slipped \subseteq Messages
  /\ minute \in [Providers -> Nat] /\ late \in [Providers -> Nat]
  /\ paused \in BOOLEAN /\ trouble \in 0..MaxTrouble

Init ==
  /\ LimitsInit /\ RegistryInit
  /\ job = [m \in Messages |-> IF m \in Deliveries THEN "pending"
                              ELSE IF m \in Confirmed THEN "settled" ELSE "none"]
  /\ kept = [m \in Messages |-> None] /\ hand = Free
  /\ activePin \in Pins /\ releasePin = activePin
  /\ used = [m \in Messages |-> {}] /\ slipped = {}
  /\ minute = [c \in Providers |-> 0] /\ late = [c \in Providers |-> 0]
  /\ paused = FALSE /\ trouble = MaxTrouble

Disturb == trouble > 0 /\ trouble' = trouble - 1

\* selectedTransport: the pinned one if it is enabled, else the newest of the
\* stream among the newest enabled, else the installation's for messages without a
\* stream.  The result has one member, or none when the code returns an error.
Looked == {i \in DOMAIN made :
             /\ made[i] \in enabled
             /\ Cardinality({j \in DOMAIN made : i <= j /\ made[j] \in enabled}) <= Window}
Candidates(s) == {i \in Looked : stream[made[i]] = s}
Newest(s) ==
  IF Candidates(s) # {} THEN {made[i] : i \in {k \in Candidates(s) : \A j \in Candidates(s) : j <= k}}
  ELSE IF s = "" THEN {Installation} ELSE {}

\* Mutant of Selected: the bit of a pinned transport is not looked at.
SelectedAny(pin, s) == IF pin = None THEN Newest(s) ELSE {pin}

Selected(pin, s) ==
  IF pin = None THEN Newest(s) ELSE {pin} \intersect (enabled \union {Installation})

ManifestPin(m) == IF m \in Deliveries THEN releasePin ELSE activePin

\* Mutant of PinOf: what the manifest says comes first.
ManifestFirst(m, read) == IF ManifestPin(m) # None THEN ManifestPin(m) ELSE read
PinOf(m, read) == IF read # None THEN read ELSE ManifestPin(m)

Settle(m, state) == hand' = Free /\ job' = [job EXCEPT ![m] = state]
Hold(m, c) ==
  /\ hand' = [at |-> "chosen", message |-> m, via |-> c]
  /\ job' = [job EXCEPT ![m] = "dispatching"]
Slip(m, lost) == slipped' = IF lost THEN slipped \union {m} ELSE slipped

\* A delivery's job is claimed.  While something is paused it is put back as it
\* was; another closed gate, or no transport to be had, settles it; else a transport
\* is selected.  The reads of its row and of its stream ignore their errors.
TakeDelivery(m) ==
  /\ m \in Deliveries /\ hand = Free /\ job[m] = "pending"
  /\ \/ paused /\ UNCHANGED <<hand, job, slipped>>
     \/ Settle(m, "settled") /\ UNCHANGED slipped
     \/ /\ ~paused
        /\ \E lost \in BOOLEAN, s \in {StreamOf[m], ""} :
             LET read == IF lost THEN None ELSE kept[m] IN
             /\ lost => kept[m] # None
             /\ Slip(m, lost)
             /\ \E c \in Selected(PinOf(m, read), s) : Hold(m, c)
  /\ UNCHANGED <<counts, registryVars, kept, activePin, releasePin, history, paused, trouble>>

\* A confirmation's job is claimed.  A pause settles it like any closed gate.  Its
\* first choice is written to its payload; that write, like the read of the active
\* manifest, ignores its error.
TakeConfirmation(m) ==
  /\ m \in Subscribers /\ hand = Free /\ job[m] = "pending"
  /\ \/ Settle(m, "settled") /\ UNCHANGED <<kept, slipped>>
     \/ /\ ~paused
        /\ \E lost \in BOOLEAN, pin \in {PinOf(m, kept[m]), kept[m]} :
             /\ lost => kept[m] = None
             /\ Slip(m, lost)
             /\ \E c \in Selected(pin, StreamOf[m]) :
                  /\ Hold(m, c)
                  /\ kept' = IF lost \/ kept[m] # None THEN kept ELSE [kept EXCEPT ![m] = c]
  /\ UNCHANGED <<counts, registryVars, activePin, releasePin, history, paused, trouble>>

\* One more in the transport's minute, or the job is put back; so it is when the
\* transaction fails.
TakeSlot ==
  /\ hand.at = "chosen"
  /\ \/ /\ Admit({hand.via}) /\ UNCHANGED <<job, trouble>>
        /\ hand' = [hand EXCEPT !.at = IF hand.message \in Deliveries THEN "counted" ELSE "ready"]
     \/ Refuse({hand.via}) /\ Settle(hand.message, "pending") /\ UNCHANGED trouble
     \/ UNCHANGED counts /\ Settle(hand.message, "pending") /\ Disturb
  /\ UNCHANGED <<registryVars, choice, history, paused>>

\* reserveDelivery: a first attempt inserts the row with the transport, a
\* retry leaves the row's transport alone; or the message is refused, its slot spent.
ReserveDelivery ==
  /\ hand.at = "counted"
  /\ LET m == hand.message IN
       \/ /\ kept' = [kept EXCEPT ![m] = IF @ = None THEN hand.via ELSE @]
          /\ hand' = [hand EXCEPT !.at = "ready"] /\ UNCHANGED job
       \/ Settle(m, "settled") /\ UNCHANGED kept
  /\ UNCHANGED <<counts, registryVars, activePin, releasePin, slipped, history, paused, trouble>>

Send ==
  /\ hand.at = "ready" /\ hand' = [hand EXCEPT !.at = "answered"]
  /\ LET c == hand.via IN
       /\ used' = [used EXCEPT ![hand.message] = @ \union {c}]
       /\ minute' = [minute EXCEPT ![c] = @ + 1]
       /\ late' = IF c \in rows \ enabled THEN [late EXCEPT ![c] = @ + 1] ELSE late
  /\ UNCHANGED <<counts, registryVars, job, choice, paused, trouble>>

\* Only a transient answer puts the job back.
Record ==
  /\ hand.at = "answered"
  /\ \/ Settle(hand.message, "settled") /\ UNCHANGED trouble
     \/ Settle(hand.message, "pending") /\ Disturb
  /\ UNCHANGED <<counts, registryVars, choice, history, paused>>

\* The Tick ends with the job in hand; its lease lapses later, in uncertainty.
Crash ==
  /\ hand # Free /\ Disturb /\ hand' = Free
  /\ UNCHANGED <<counts, registryVars, job, choice, history, paused>>

ExpireLease(m) ==
  /\ hand = Free /\ job[m] = "dispatching"
  /\ job' = [job EXCEPT ![m] = "settled"]
  /\ UNCHANGED <<counts, registryVars, hand, choice, history, paused, trouble>>

\* allowSubscribe for one address; an admitted request queues a confirmation,
\* unless the address is suppressed, confirmed or asked a moment ago.
Subscribe(s) ==
  /\ \/ Refuse(BucketsOf[s]) /\ UNCHANGED job
     \/ /\ Admit(BucketsOf[s])
        /\ job' \in {job, [job EXCEPT ![s] = IF @ = "none" THEN "pending" ELSE @]}
  /\ UNCHANGED <<registryVars, hand, choice, history, paused, trouble>>

Deploy(pin) ==
  /\ Ask /\ pin # activePin /\ activePin' = pin
  /\ UNCHANGED <<counts, records, request, proved>>
  /\ UNCHANGED <<job, kept, releasePin, slipped, hand, history, paused, trouble>>

NextMinute ==
  /\ TurnMinute /\ minute' = [c \in Providers |-> 0]
  /\ UNCHANGED <<registryVars, job, choice, hand, used, late, paused, trouble>>

\* An operator pauses, or the circuit breaker does, and an operator resumes.
Pause ==
  /\ ~paused /\ Disturb /\ paused' = TRUE
  /\ UNCHANGED <<counts, registryVars, job, choice, hand, history>>

Resume ==
  /\ paused /\ paused' = FALSE
  /\ UNCHANGED <<counts, registryVars, job, choice, hand, history, trouble>>

Worker ==
  \/ \E m \in Messages : TakeDelivery(m) \/ TakeConfirmation(m) \/ ExpireLease(m)
  \/ TakeSlot \/ ReserveDelivery \/ Send \/ Record

Next ==
  \/ RegistryNext /\ UNCHANGED <<counts, job, hand, choice, history, paused, trouble>>
  \/ Worker \/ Crash \/ Pause \/ Resume
  \/ \E s \in Subscribers : Subscribe(s)
  \/ \E pin \in Pins : Deploy(pin)
  \/ NextMinute

Spec == Init /\ [][Next]_vars

\* The worker ticks for ever and the clock goes on.
FairSpec == Spec /\ WF_vars(Worker) /\ WF_vars(NextMinute)

---------------------------------------------------------------------------
\* A message is only ever submitted through one transport, whatever is
\* created, deleted or deployed between its attempts, provided the kept choice
\* could be read and written ("retry never switches provider").
RetryKeepsProvider == \A m \in Messages \ slipped : \A c, d \in used[m] : c = d

\* In one minute a transport is given what its rate allows and at most one
\* message more: the one that was counted at the end of the minute before.
MinuteHolds == \A c \in Providers : minute[c] <= Maximum[c] + 1

\* A deleted transport is given at most the one message that had chosen it.
DeletionLetsOneMailOut == \A c \in Providers : late[c] <= 1

=============================================================================
