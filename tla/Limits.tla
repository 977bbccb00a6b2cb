------------------------------- MODULE Limits -------------------------------
(***************************************************************************)
(* The rate_limits table: one counter for each bucket in the window that   *)
(* is running.  A request names the buckets it falls into; a transaction   *)
(* counts it in each and commits only when none is over its maximum.       *)
(* Subscribing counts by the hour (allowSubscribe), sending by the minute  *)
(* (reserveSelectedTransport).  A window that is over is never read again; *)
(* the model looks at one hour, which the next one repeats.                *)
(***************************************************************************)
EXTENDS Integers

CONSTANTS
  HourBuckets,    \* the buckets of subscribe requests: project, source, address
  MinuteBuckets,  \* one for each transport
  Maximum         \* the most a bucket may count in its window

Buckets == HourBuckets \union MinuteBuckets

ASSUME MaximumAssumption == Maximum \in [Buckets -> Nat \ {0}]

VARIABLE counts

LimitsInit == counts = [b \in Buckets |-> 0]

\* The counters with one more in each of the buckets.
Counted(buckets) ==
  [b \in Buckets |-> IF b \in buckets THEN counts[b] + 1 ELSE counts[b]]

\* Mutant of Fits: looks at the counter before it counts.
FitsBefore(buckets) == \A b \in buckets : counts[b] <= Maximum[b]

Fits(buckets) == \A b \in buckets : Counted(buckets)[b] <= Maximum[b]

Admit(buckets) == Fits(buckets) /\ counts' = Counted(buckets)

\* One bucket over its maximum rolls back what was counted in the others.
Refuse(buckets) == ~Fits(buckets) /\ UNCHANGED counts


TurnMinute ==
  counts' = [b \in Buckets |-> IF b \in MinuteBuckets THEN 0 ELSE counts[b]]
=============================================================================
