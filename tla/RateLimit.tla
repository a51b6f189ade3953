------------------------------- MODULE RateLimit -------------------------------
(***************************************************************************)
(* The token bucket of the retrieval service (retrieval/ratelimit.py): one *)
(* bucket for each tenant, one lock, and a clock that a thread reads       *)
(* before it takes the lock.  Threads may therefore use the bucket in      *)
(* another order than that of their clock readings: `elapsed' is negative  *)
(* for a thread that was overtaken.                                        *)
(*                                                                         *)
(* Time and tokens are whole numbers: Rate is the number of tokens for one *)
(* tick of the clock.  Rounding of floats is not modelled.                 *)
(***************************************************************************)
EXTENDS Integers

CONSTANTS Tenants,   \* keys of buckets
          Threads,   \* request threads
          Rate,      \* tokens per tick
          Burst,     \* _DEFAULT_BURST_FACTOR: the capacity in ticks
          Noone      \* no tenant, no bucket

ASSUME RateAssumption ==
  /\ Rate \in Nat \ {0} /\ Burst \in Nat \ {0}
  /\ Noone \notin Tenants

VARIABLES
  time,      \* the monotonic clock
  bucket,    \* bucket[t]: tokens and last_refill_time, there once t was seen
  reading,   \* reading[i]: the tenant and the clock reading of a thread before the lock
  admitted,  \* history: requests of t that were let through
  first      \* history: the clock reading the bucket of t was made with

limiterVars == <<time, bucket, reading, admitted, first>>

Capacity == Rate * Burst
Smaller(a, b) == IF a < b THEN a ELSE b

Bucket == [there : BOOLEAN, tokens : Int, last : Nat]
NoBucket == [there |-> FALSE, tokens |-> 0, last |-> 0]
Reading == [of : Tenants \cup {Noone}, now : Nat]
Done == [of |-> Noone, now |-> 0]

LimiterTypeOK ==
  /\ time \in Nat
  /\ bucket \in [Tenants -> Bucket]
  /\ reading \in [Threads -> Reading]
  /\ admitted \in [Tenants -> Nat]
  /\ first \in [Tenants -> Nat]

LimiterInit ==
  /\ time = 0
  /\ bucket = [t \in Tenants |-> NoBucket]
  /\ reading = [i \in Threads |-> Done]
  /\ admitted = [t \in Tenants |-> 0]
  /\ first = [t \in Tenants |-> 0]

\* A tenant's first request finds a full bucket.
Opened(b, now) == IF b.there THEN b ELSE [there |-> TRUE, tokens |-> Capacity, last |-> now]

\* Mutant: a reading older than the last refill counts as elapsed time.
RefilledAbs(b, now) ==
  LET elapsed == IF now < b.last THEN b.last - now ELSE now - b.last
  IN  [b EXCEPT !.tokens = Smaller(Capacity, b.tokens + elapsed * Rate), !.last = now]

\* elapsed may be negative: tokens are then taken away, to be given back later.
Refilled(b, now) ==
  [b EXCEPT !.tokens = Smaller(Capacity, b.tokens + (now - b.last) * Rate), !.last = now]

\* The first half of acquire: the clock, outside the lock.
ReadClock(i, t) ==
  /\ reading[i] = Done
  /\ reading' = [reading EXCEPT ![i] = [of |-> t, now |-> time]]
  /\ UNCHANGED <<time, bucket, admitted, first>>

\* The second half, under the lock, with the answer of acquire.
Acquire(i, ok) ==
  LET t == reading[i].of
      now == reading[i].now
      b == Refilled(Opened(bucket[t], now), now)
  IN  /\ t # Noone
      /\ ok = (b.tokens >= 1)
      /\ bucket' = [bucket EXCEPT ![t] = IF ok THEN [b EXCEPT !.tokens = b.tokens - 1] ELSE b]
      /\ admitted' = [admitted EXCEPT ![t] = IF ok THEN @ + 1 ELSE @]
      /\ first' = [first EXCEPT ![t] = IF bucket[t].there THEN @ ELSE now]
      /\ reading' = [reading EXCEPT ![i] = Done]
      /\ UNCHANGED time

Tick ==
  /\ time' = time + 1
  /\ UNCHANGED <<bucket, reading, admitted, first>>

-----------------------------------------------------------------------------
\* In whatever order the threads get the lock, the requests of a tenant that were
\* let through never exceed one burst and the rate since its first request (11.3,
\* M-101): a thread that was overtaken gives no token twice.
AdmittedWithinRate ==
  \A t \in Tenants : admitted[t] <= Capacity + Rate * (time - first[t])
=============================================================================
