----------------------------- MODULE Access_proofs -----------------------------
(***************************************************************************)
(* Access for every number of keys, grants, threads and administrators:    *)
(* its type, the limiter's promise under everything else that happens, the *)
(* audit row of each read under a grant, and the instant from which a      *)
(* grant is over.                                                          *)
(***************************************************************************)
EXTENDS Access, TLAPS

\* The provers of a step that names none, in the order they are tried.
USE Z3T(60), ZenonT(20), SMTT(40)

-----------------------------------------------------------------------------
(***************************************************************************)
(* The limiter on its own (RateLimit), for every number of threads, every  *)
(* rate and every burst.  What a bucket has given and what it holds never  *)
(* exceed one burst and the rate from its first to its last reading; and   *)
(* however far an overtaken thread has set it back, the time since its     *)
(* last reading makes up for the debt.                                     *)
(***************************************************************************)

\* The limiter on its own: the steps a request makes with it, and the clock.
LimiterNext ==
  \/ \E i \in Threads, t \in Tenants : ReadClock(i, t)
  \/ \E i \in Threads, ok \in BOOLEAN : Acquire(i, ok)
  \/ Tick

LimiterSpec == LimiterInit /\ [][LimiterNext]_limiterVars

\* What the rate gives from one reading of the clock to another.
Span(to, since) == (to - since) * Rate

\* One bucket: nothing is given beyond the rate, and no debt is older than the clock.
Balanced(t) ==
  /\ first[t] <= time
  /\ ~bucket[t].there => admitted[t] = 0
  /\ bucket[t].there =>
       /\ bucket[t].last <= time
       /\ 0 <= bucket[t].tokens + Span(time, bucket[t].last)
       /\ admitted[t] + bucket[t].tokens <= Capacity + Span(bucket[t].last, first[t])

\* A thread's reading is not ahead of the clock.
Past == \A i \in Threads : reading[i].now <= time

LimiterInv == LimiterTypeOK /\ Past /\ \A t \in Tenants : Balanced(t)

-----------------------------------------------------------------------------
\* A span of the clock is a number of tokens.
LEMMA SpanInt == \A a, b \in Int : Span(a, b) \in Int
  BY RateAssumption DEF Span

\* A span that does not end before it begins takes nothing away.
LEMMA SpanNat == \A a, b \in Int : b <= a => 0 <= Span(a, b)
  <1>1. Rate \in Nat BY RateAssumption
  <1>2. ASSUME NEW a \in Int, NEW b \in Int, b <= a PROVE 0 <= Span(a, b)
    <2>1. a - b \in Nat BY <1>2
    <2> QED BY <1>1, <2>1 DEF Span
  <1> QED BY <1>2

\* Two spans add up.
LEMMA SpansAdd == \A a, b, c \in Int : Span(a, b) + Span(b, c) = Span(a, c)
  BY RateAssumption DEF Span

\* The capacity is a number of tokens.
LEMMA CapacityNat == Capacity \in Nat
  BY RateAssumption DEF Capacity

\* What a refill leaves in a bucket: a number, at most what the span earned.
LEMMA RefilledBounds ==
  ASSUME NEW b \in Bucket, NEW now \in Nat
  PROVE  /\ Refilled(b, now) \in Bucket
         /\ Refilled(b, now).there = b.there
         /\ Refilled(b, now).last = now
         /\ Refilled(b, now).tokens <= b.tokens + Span(now, b.last)
         /\ \/ Refilled(b, now).tokens = b.tokens + Span(now, b.last)
            \/ Refilled(b, now).tokens = Capacity
  <1> DEFINE sum == b.tokens + Span(now, b.last)
  <1>1. sum \in Int BY SpanInt DEF Bucket
  <1>2. Capacity \in Int BY CapacityNat
  <1>3. Smaller(Capacity, sum) \in Int /\ Smaller(Capacity, sum) <= sum
        /\ (Smaller(Capacity, sum) = sum \/ Smaller(Capacity, sum) = Capacity)
    <2> HIDE DEF sum
    <2> QED BY <1>1, <1>2 DEF Smaller
  <1>4. Refilled(b, now) = [b EXCEPT !.tokens = Smaller(Capacity, sum), !.last = now]
    BY DEF Refilled, Span
  <1> HIDE DEF sum
  <1>5. /\ Refilled(b, now) \in Bucket /\ Refilled(b, now).there = b.there
        /\ Refilled(b, now).last = now
        /\ Refilled(b, now).tokens = Smaller(Capacity, sum)
    BY <1>3, <1>4 DEF Bucket
  <1> QED BY <1>3, <1>5 DEF sum

-----------------------------------------------------------------------------
\* The clock's reading keeps every bucket as it was.
LEMMA ReadKeeps ==
  ASSUME LimiterInv, NEW i \in Threads, NEW t \in Tenants, ReadClock(i, t)
  PROVE  LimiterInv'
  <1> USE DEF LimiterInv, LimiterTypeOK, ReadClock
  <1>1. [of |-> t, now |-> time] \in Reading BY DEF Reading
  <1>2. LimiterTypeOK' BY <1>1
  <1>3. Past' BY DEF Past, Reading
  <1>4. \A u \in Tenants : Balanced(u)' BY DEF Balanced, Capacity
  <1> QED BY <1>2, <1>3, <1>4

\* The passing of time only makes up for debts.
LEMMA TickKeeps ==
  ASSUME LimiterInv, Tick
  PROVE  LimiterInv'
  <1> USE DEF LimiterInv, LimiterTypeOK, Tick
  <1>1. LimiterTypeOK' OBVIOUS
  <1>2. Past' BY DEF Past, Reading
  <1>3. ASSUME NEW u \in Tenants PROVE Balanced(u)'
    <2>1. bucket[u] \in Bucket /\ first[u] \in Nat OBVIOUS
    <2>2. bucket[u].last \in Int /\ bucket[u].tokens \in Int BY <2>1 DEF Bucket
    <2>3. Span(time', bucket[u].last) = Span(time', time) + Span(time, bucket[u].last)
      BY <2>2, SpansAdd
    <2>4. 0 <= Span(time', time) BY SpanNat
    <2>5. Span(time, bucket[u].last) \in Int /\ Span(time', time) \in Int
      BY <2>2, RateAssumption DEF Span
    <2>6. CASE ~bucket[u].there BY <2>1, <2>6 DEF Balanced
    <2>7. CASE bucket[u].there
      <3>1. bucket[u].last <= time' /\ first[u] <= time' BY <2>1, <2>2, <2>7 DEF Balanced
      <3>2. 0 <= bucket[u].tokens + Span(time', bucket[u].last)
        <4>1. 0 <= bucket[u].tokens + Span(time, bucket[u].last) BY <2>7 DEF Balanced
        <4> QED BY <2>2, <2>3, <2>4, <2>5, <4>1
      <3>3. admitted[u] + bucket[u].tokens <= Capacity + Span(bucket[u].last, first[u])
        BY <2>7 DEF Balanced
      <3> QED BY <2>7, <3>1, <3>2, <3>3 DEF Balanced, Capacity
    <2> QED BY <2>6, <2>7
  <1> QED BY <1>1, <1>2, <1>3

\* A request with any reading, in any order, leaves its bucket balanced.
LEMMA AcquireKeeps ==
  ASSUME LimiterInv, NEW i \in Threads, NEW ok \in BOOLEAN, Acquire(i, ok)
  PROVE  LimiterInv'
  <1> USE DEF LimiterInv, LimiterTypeOK
  <1>1. reading[i] \in Reading OBVIOUS
  <1>2. PICK t \in Tenants, now \in Nat : t = reading[i].of /\ now = reading[i].now
    BY <1>1 DEF Acquire, Reading
  <1> DEFINE o == Opened(bucket[t], now)
             b == Refilled(o, now)
             c == IF ok THEN [b EXCEPT !.tokens = b.tokens - 1] ELSE b
  <1>3. bucket[t] \in Bucket /\ admitted[t] \in Nat /\ first[t] \in Nat BY <1>2
  <1>4. o \in Bucket /\ o.there BY <1>2, <1>3, CapacityNat DEF Opened, Bucket
  <1>5. /\ b \in Bucket /\ b.there /\ b.last = now
        /\ b.tokens <= o.tokens + Span(now, o.last)
        /\ b.tokens = o.tokens + Span(now, o.last) \/ b.tokens = Capacity
    BY ZenonT(60), <1>2, <1>4, RefilledBounds
  <1>6. /\ ok = (b.tokens >= 1) /\ time' = time
        /\ bucket' = [bucket EXCEPT ![t] = c]
        /\ admitted' = [admitted EXCEPT ![t] = IF ok THEN @ + 1 ELSE @]
        /\ first' = [first EXCEPT ![t] = IF bucket[t].there THEN @ ELSE now]
        /\ reading' = [reading EXCEPT ![i] = Done]
    BY <1>2 DEF Acquire
  <1>7. now <= time BY <1>2 DEF Past
  <1>8. o.last <= time /\ first'[t] <= time
    <2>1. CASE bucket[t].there BY <1>2, <1>3, <1>6, <2>1 DEF Opened, Balanced
    <2>2. CASE ~bucket[t].there BY <1>2, <1>3, <1>6, <1>7, <2>2 DEF Opened, Balanced
    <2> QED BY <2>1, <2>2
  <1>9. /\ 0 <= o.tokens + Span(time, o.last)
        /\ admitted[t] + o.tokens <= Capacity + Span(o.last, first'[t])
    <2>1. CASE bucket[t].there BY <1>2, <1>3, <1>6, <2>1 DEF Opened, Balanced
    <2>2. CASE ~bucket[t].there
      <3>1. o.tokens = Capacity /\ o.last = now /\ admitted[t] = 0 /\ first'[t] = now
        BY <1>2, <1>3, <1>6, <2>2 DEF Opened, Balanced
      <3>2. 0 <= Span(time, now) BY <1>2, <1>7, SpanNat
      <3>3. Span(now, now) = 0 BY <1>2, RateAssumption DEF Span
      <3>4. Span(time, now) \in Int BY <1>2, RateAssumption DEF Span
      <3> QED BY <3>1, <3>2, <3>3, <3>4, CapacityNat
    <2> QED BY <2>1, <2>2
  <1>10. o.tokens \in Int /\ o.last \in Int /\ b.tokens \in Int BY <1>4, <1>5 DEF Bucket
  <1>11. first'[t] \in Nat BY <1>2, <1>3, <1>6
  <1>12. Span(time, now) + Span(now, o.last) = Span(time, o.last)
    BY <1>2, <1>10, SpansAdd
  <1>13. Span(now, o.last) + Span(o.last, first'[t]) = Span(now, first'[t])
    BY <1>2, <1>10, <1>11, SpansAdd
  <1>14. /\ Span(time, now) \in Nat /\ Span(now, o.last) \in Int
         /\ Span(o.last, first'[t]) \in Int
         /\ Span(time, o.last) \in Int /\ Span(now, first'[t]) \in Int
    <2>1. 0 <= Span(time, now) BY <1>2, <1>7, SpanNat
    <2> QED BY <2>1, <1>2, <1>10, <1>11, RateAssumption DEF Span
  <1> HIDE DEF o, b
  <1>15. 0 <= b.tokens + Span(time, now)
    BY <1>5, <1>9, <1>10, <1>12, <1>14, CapacityNat
  <1>16. admitted[t] + b.tokens <= Capacity + Span(now, first'[t])
    BY <1>3, <1>5, <1>9, <1>10, <1>13, <1>14, CapacityNat
  <1>17. /\ c \in Bucket /\ c.there /\ c.last = now
         /\ c.tokens = IF ok THEN b.tokens - 1 ELSE b.tokens
    BY <1>5, <1>10 DEF Bucket
  <1>18. c.tokens \in Int BY <1>17 DEF Bucket
  <1> HIDE DEF c
  <1>19. 0 <= c.tokens + Span(time, now)
    <2>1. CASE ok
      <3>1. 1 <= b.tokens /\ c.tokens = b.tokens - 1 BY <1>6, <1>10, <1>17, <2>1
      <3> QED BY <3>1, <1>10, <1>14
    <2>2. CASE ~ok BY <1>15, <1>17, <2>2
    <2> QED BY <2>1, <2>2
  <1>20. admitted'[t] + c.tokens <= Capacity + Span(now, first'[t])
    BY <1>2, <1>3, <1>6, <1>10, <1>14, <1>16, <1>17, <1>18, CapacityNat
  <1>21. Balanced(t)'
    <2>1. bucket'[t] = c BY <1>2, <1>6
    <2>2. Capacity' = Capacity BY DEF Capacity
    <2>3. first'[t] <= time' BY <1>6, <1>8
    <2>4. c.last <= time' /\ 0 <= c.tokens + Span(time', c.last) BY <1>6, <1>7, <1>17, <1>19
    <2>5. admitted'[t] + c.tokens <= Capacity' + Span(c.last, first'[t])
      BY <2>2, <1>17, <1>20
    <2> QED BY <2>1, <2>3, <2>4, <2>5, <1>17 DEF Balanced
  <1>22. ASSUME NEW u \in Tenants, u # t PROVE Balanced(u)'
    BY <1>2, <1>6, <1>22 DEF Balanced, Capacity
  <1>23. LimiterTypeOK'
    <2>1. Done \in Reading BY DEF Done, Reading
    <2> QED BY <2>1, <1>2, <1>3, <1>6, <1>17
  <1>24. Past'
    <2>1. Done.now <= time BY DEF Done
    <2> QED BY <2>1, <1>6 DEF Past
  <1>25. ASSUME NEW u \in Tenants PROVE Balanced(u)' BY <1>21, <1>22
  <1> QED BY <1>23, <1>24, <1>25

\* Nothing is given and nothing is owed at the start.
LEMMA InitHolds == LimiterInit => LimiterInv
  <1> SUFFICES ASSUME LimiterInit PROVE LimiterInv OBVIOUS
  <1> USE DEF LimiterInit
  <1>1. LimiterTypeOK BY DEF LimiterTypeOK, NoBucket, Bucket, Done, Reading
  <1>2. Past BY DEF Past, Done
  <1>3. ASSUME NEW t \in Tenants PROVE Balanced(t)
    <2>1. first[t] = 0 /\ time = 0 /\ admitted[t] = 0 /\ ~bucket[t].there BY DEF NoBucket
    <2> QED BY <2>1 DEF Balanced
  <1> QED BY <1>1, <1>2, <1>3 DEF LimiterInv

\* Every step of the limiter keeps the balance.
LEMMA StepKeeps == LimiterInv /\ [LimiterNext]_limiterVars => LimiterInv'
  <1> SUFFICES ASSUME LimiterInv, [LimiterNext]_limiterVars PROVE LimiterInv' OBVIOUS
  <1>1. ASSUME NEW i \in Threads, NEW t \in Tenants, ReadClock(i, t) PROVE LimiterInv'
    BY <1>1, ReadKeeps
  <1>2. ASSUME NEW i \in Threads, NEW ok \in BOOLEAN, Acquire(i, ok) PROVE LimiterInv'
    BY <1>2, AcquireKeeps
  <1>3. CASE Tick BY <1>3, TickKeeps
  <1>4. CASE UNCHANGED limiterVars
    BY <1>4 DEF limiterVars, LimiterInv, LimiterTypeOK, Past, Balanced, Capacity
  <1> QED BY <1>1, <1>2, <1>3, <1>4 DEF LimiterNext

\* From the balance: the promise of TokenBucketLimiter (M-101).
LEMMA BalanceAdmits == LimiterInv => AdmittedWithinRate
  <1> SUFFICES ASSUME LimiterInv, NEW t \in Tenants
               PROVE  admitted[t] <= Capacity + Rate * (time - first[t])
    BY DEF AdmittedWithinRate
  <1> USE DEF LimiterInv, LimiterTypeOK
  <1>1. bucket[t] \in Bucket /\ admitted[t] \in Nat /\ first[t] \in Nat /\ time \in Nat OBVIOUS
  <1>2. bucket[t].last \in Int /\ bucket[t].tokens \in Int BY <1>1 DEF Bucket
  <1>3. Rate * (time - first[t]) = Span(time, first[t]) BY <1>1, RateAssumption DEF Span
  <1>4. CASE ~bucket[t].there
    <2>1. 0 <= Span(time, first[t]) BY <1>1, SpanNat DEF Balanced
    <2>2. Span(time, first[t]) \in Int BY <1>1, RateAssumption DEF Span
    <2> QED BY <2>1, <2>2, <1>3, <1>4, CapacityNat DEF Balanced
  <1>5. CASE bucket[t].there
    <2>1. Span(time, bucket[t].last) + Span(bucket[t].last, first[t])
            = Span(time, first[t])
      BY <1>1, <1>2, SpansAdd
    <2>2. /\ Span(time, bucket[t].last) \in Int /\ Span(bucket[t].last, first[t]) \in Int
          /\ Span(time, first[t]) \in Int
      BY <1>1, <1>2, RateAssumption DEF Span
    <2>3. /\ 0 <= bucket[t].tokens + Span(time, bucket[t].last)
          /\ admitted[t] + bucket[t].tokens <= Capacity + Span(bucket[t].last, first[t])
      BY <1>5 DEF Balanced
    <2> QED BY <2>1, <2>2, <2>3, <1>1, <1>2, <1>3, CapacityNat
  <1> QED BY <1>4, <1>5

\* However the threads overtake each other, no tenant gets more than one burst and
\* the rate since its first request (TokenBucketLimiter.acquire).
THEOREM LimiterHolds == LimiterSpec => []AdmittedWithinRate
  <1>1. LimiterSpec => []LimiterInv
    BY InitHolds, StepKeeps, PTL DEF LimiterSpec
  <1> QED BY <1>1, BalanceAdmits, PTL

-----------------------------------------------------------------------------
(* Access.                                                                 *)

\* What a call loaded is what it will write: a key, unless it revokes a grant.
Loaded ==
  \A a \in Admins : adm[a].pc = "loaded" /\ adm[a].op # "revoke_grant" => adm[a].of \in Keys

\* The clock stays within its bound.
InTime == time <= MaxTime

\* An expiry row is about a grant that is there and whose time is over.
ExpiryIsTrue ==
  \A g \in Grants :
    [type |-> "break_glass_expiry", of |-> g] \in audit => grants[g].there /\ grants[g].until <= time

AccessInv == AccessTypeOK /\ LimiterInv /\ Loaded /\ InTime

-----------------------------------------------------------------------------
(* What the steps are built from.                                          *)

\* The rows that exist from the start are well formed.
LEMMA Rows ==
  /\ NoKey \in Key /\ RootKey \in Key /\ NoGrant \in Grant
  /\ NoCall \in Call /\ NoRequest \in Request
  <1>1. NoKey \in Key
    BY AccessAssumption DEF NoKey, Key, Roles, Scopes, Never
  <1>2. RootKey \in Key BY ZenonT(60), <1>1 DEF RootKey, Key, Roles, Scopes
  <1>3. NoGrant \in Grant BY AccessAssumption DEF NoGrant, Grant
  <1>4. NoCall \in Call BY AccessAssumption DEF NoCall, Call, Ops
  <1>5. NoRequest \in Request BY AccessAssumption DEF NoRequest, Request, Statuses
  <1> QED BY <1>1, <1>2, <1>3, <1>4, <1>5

\* A step of Access is a step of the limiter or leaves it alone.
LEMMA AccessMovesLimiter ==
  AccessTypeOK /\ [AccessNext]_allVars => [LimiterNext]_limiterVars
  <1> SUFFICES ASSUME AccessTypeOK, [AccessNext]_allVars PROVE [LimiterNext]_limiterVars
    OBVIOUS
  <1>1. ASSUME NEW i \in Threads, LimiterClock(i) PROVE LimiterNext
    <2>1. req[i].key \in Tenants BY DEF AccessTypeOK, Request, Keys
    <2>2. ReadClock(i, req[i].key) BY <1>1 DEF LimiterClock
    <2> QED BY <2>1, <2>2 DEF LimiterNext
  <1>2. ASSUME NEW i \in Threads, LimiterAcquire(i) PROVE LimiterNext
    BY <1>2 DEF LimiterAcquire, LimiterNext
  <1>3. ASSUME NEW i \in Threads, RequestStep(i) PROVE LimiterNext \/ UNCHANGED limiterVars
    BY ZenonT(60), <1>1, <1>2, <1>3 DEF RequestStep, Authenticate, AuthenticateTool, Asked, CheckQuery,
       SearchIndex, AuditRead
  <1>4. ASSUME NEW a \in Admins, AdminStep(a) PROVE UNCHANGED limiterVars
    BY <1>4 DEF AdminStep, RequireAdmin, IssueKey, LoadKey, RevokeKey, RotateKey, IssueGrant,
       LoadGrant, RevokeGrant
  <1>5. Sweep => UNCHANGED limiterVars BY DEF Sweep
  <1>6. Pass => LimiterNext BY DEF Pass, LimiterNext
  <1>7. UNCHANGED allVars => UNCHANGED limiterVars BY DEF allVars
  <1> QED BY <1>3, <1>4, <1>5, <1>6, <1>7 DEF AccessNext

\* An update of one row keeps a table of rows.
LEMMA RowUpdated ==
  ASSUME NEW S, NEW T, NEW f \in [S -> T], NEW x, NEW y, x \in S => y \in T
  PROVE  [f EXCEPT ![x] = y] \in [S -> T]
  OBVIOUS

\* A key that is issued or takes over from another is well formed.
LEMMA IssuedIsKey ==
  ASSUME NEW role \in Roles, NEW b \in Kbs, NEW e \in 0 .. MaxTime + 1
  PROVE  Issued(role, b, e) \in Key
  <1>1. NoKey \in Key BY Rows
  <1> QED BY <1>1 DEF Issued, Key

LEMMA RotatedIsKey ==
  ASSUME NEW k \in Keys, keys[k] \in Key, NEW e \in 0 .. MaxTime + 1
  PROVE  Rotated(k, e) \in Key
  BY DEF Rotated, Key

LEMMA RevokedIsKey ==
  ASSUME NEW r \in Key
  PROVE  [r EXCEPT !.revoked = TRUE] \in Key
  BY DEF Key

LEMMA RevokedIsGrant ==
  ASSUME NEW r \in Grant
  PROVE  [r EXCEPT !.revoked = TRUE] \in Grant
  BY DEF Grant

\* An answer ends the request.
LEMMA AnswerKeeps ==
  ASSUME AccessTypeOK, NEW i \in Threads, NEW s \in Statuses, Answer(i, s)
  PROVE  req' \in [Threads -> Request]
  <1>1. [NoRequest EXCEPT !.status = s] \in Request BY Rows DEF Request
  <1> QED BY <1>1, RowUpdated DEF Answer, AccessTypeOK

\* The call of an administrator ends.
LEMMA EndCallKeeps ==
  ASSUME AccessTypeOK, Loaded, NEW a \in Admins, EndCall(a)
  PROVE  adm' \in [Admins -> Call] /\ Loaded'
  <1>1. adm' \in [Admins -> Call] BY Rows DEF EndCall, AccessTypeOK
  <1>2. NoCall.pc = "idle" BY DEF NoCall
  <1> QED BY <1>1, <1>2 DEF EndCall, Loaded, AccessTypeOK

-----------------------------------------------------------------------------
(* The type, what calls loaded, and the clock.                             *)

\* AccessTypeOK without the part the limiter proves for itself.
OwnType ==
  /\ keys \in [Keys -> Key] /\ grants \in [Grants -> Grant]
  /\ audit \subseteq Entry /\ reads \in [Grants -> Nat] /\ answered \in [Grants -> Nat]
  /\ refused \subseteq Grants
  /\ req \in [Threads -> Request] /\ adm \in [Admins -> Call]

\* A step of an administrator.
LEMMA AdminKeeps ==
  ASSUME AccessInv, NEW a \in Admins, AdminStep(a)
  PROVE  OwnType' /\ Loaded' /\ InTime'
  <1> USE DEF AccessInv
  <1>0. /\ time \in 0 .. MaxTime /\ Never \in 0 .. MaxTime + 1 /\ time \in 0 .. MaxTime + 1
        /\ adm[a] \in Call /\ adm[a].by \in Keys
    BY AccessAssumption DEF AccessTypeOK, LimiterTypeOK, InTime, Never, Call
  <1>1. ASSUME NEW k \in Keys, RequireAdmin(a, k) PROVE OwnType' /\ Loaded' /\ InTime'
    <2>1. [NoCall EXCEPT !.pc = "admin", !.by = k] \in Call BY Rows DEF Call
    <2>2. adm' \in [Admins -> Call] BY <1>1, <2>1 DEF RequireAdmin, AccessTypeOK
    <2>3. Loaded'
      BY <1>1, <2>2 DEF RequireAdmin, Loaded, NoCall, AccessTypeOK
    <2> QED BY <1>1, <2>2, <2>3 DEF RequireAdmin, OwnType, AccessTypeOK, InTime, limiterVars
  <1>2. ASSUME NEW k \in Keys, NEW role \in Offered, NEW b \in Kbs, NEW e \in {time, Never},
               IssueKey(a, k, role, b, e)
        PROVE  OwnType' /\ Loaded' /\ InTime'
    <2>1. role \in Roles BY AccessAssumption DEF Roles
    <2>2. Issued(role, b, e) \in Key BY <1>0, <2>1, IssuedIsKey
    <2>3. keys' \in [Keys -> Key] BY <1>2, <2>2 DEF IssueKey, AccessTypeOK
    <2>4. audit' \subseteq Entry BY <1>2 DEF IssueKey, Entered, AccessTypeOK, Entry
    <2> QED BY <1>2, <2>3, <2>4, EndCallKeeps DEF IssueKey, OwnType, AccessTypeOK, InTime, limiterVars
  <1>3. ASSUME NEW k \in Keys, NEW op \in Ops, LoadKey(a, op, k)
        PROVE  OwnType' /\ Loaded' /\ InTime'
    <2>1. CASE EndCall(a)
      BY <1>3, <2>1, EndCallKeeps DEF LoadKey, OwnType, AccessTypeOK, InTime, limiterVars
    <2>2. CASE adm' = [adm EXCEPT ![a].pc = "loaded", ![a].op = op, ![a].of = k]
      <3>1. adm' = [adm EXCEPT ![a] = [adm[a] EXCEPT !.pc = "loaded", !.op = op, !.of = k]]
        BY <2>2 DEF AccessTypeOK
      <3>2. [adm[a] EXCEPT !.pc = "loaded", !.op = op, !.of = k] \in Call BY <1>0 DEF Call
      <3>3. adm' \in [Admins -> Call] BY <3>1, <3>2 DEF AccessTypeOK
      <3>4. [adm[a] EXCEPT !.pc = "loaded", !.op = op, !.of = k].of = k BY <1>0 DEF Call
      <3>5. Loaded' BY <3>1, <3>3, <3>4 DEF Loaded, AccessTypeOK
      <3> QED BY <1>3, <3>3, <3>5 DEF LoadKey, OwnType, AccessTypeOK, InTime, limiterVars
    <2> QED BY <1>3, <2>1, <2>2 DEF LoadKey
  <1>4. CASE RevokeKey(a)
    <2>1. adm[a].of \in Keys BY <1>4 DEF RevokeKey, Loaded
    <2>2. keys' = [keys EXCEPT ![adm[a].of] = [keys[adm[a].of] EXCEPT !.revoked = TRUE]]
      BY <1>4, <2>1 DEF RevokeKey, AccessTypeOK
    <2>3. keys' \in [Keys -> Key] BY <2>1, <2>2, RevokedIsKey DEF AccessTypeOK
    <2>4. audit' \subseteq Entry BY <1>4, <2>1 DEF RevokeKey, Entered, AccessTypeOK, Entry
    <2> QED BY <1>4, <2>3, <2>4, EndCallKeeps DEF RevokeKey, OwnType, AccessTypeOK, InTime, limiterVars
  <1>5. ASSUME NEW k \in Keys, NEW e \in {time, Never}, RotateKey(a, k, e)
        PROVE  OwnType' /\ Loaded' /\ InTime'
    <2> DEFINE old == adm[a].of
    <2>1. old \in Keys BY <1>5 DEF RotateKey, Loaded
    <2>2. /\ Rotated(old, e) \in Key /\ [keys[old] EXCEPT !.revoked = TRUE] \in Key
      BY <1>0, <2>1, RotatedIsKey, RevokedIsKey DEF AccessTypeOK
    <2>3. keys' = [[keys EXCEPT ![old] = [keys[old] EXCEPT !.revoked = TRUE]] EXCEPT ![k] = Rotated(old, e)]
      BY <1>5, <2>1 DEF RotateKey, AccessTypeOK
    <2>4. keys' \in [Keys -> Key] BY <2>1, <2>2, <2>3 DEF AccessTypeOK
    <2>5. audit' \subseteq Entry BY <1>5 DEF RotateKey, Entered, AccessTypeOK, Entry
    <2> QED BY <1>5, <2>4, <2>5, EndCallKeeps DEF RotateKey, OwnType, AccessTypeOK, InTime, limiterVars
  <1>6. ASSUME NEW g \in Grants, NEW b \in Kbs, IssueGrant(a, g, b)
        PROVE  OwnType' /\ Loaded' /\ InTime'
    <2>1. time + Window \in 0 .. MaxTime + Window BY <1>0, AccessAssumption
    <2>2. [there |-> TRUE, kb |-> b, admin |-> adm[a].by, since |-> time,
           until |-> time + Window, revoked |-> FALSE] \in Grant
      BY <1>0, <2>1 DEF Grant
    <2>3. grants' \in [Grants -> Grant] BY <1>6, <2>2 DEF IssueGrant, AccessTypeOK
    <2>4. audit' \subseteq Entry BY <1>6 DEF IssueGrant, Entered, AccessTypeOK, Entry
    <2> QED BY <1>6, <2>3, <2>4, EndCallKeeps DEF IssueGrant, OwnType, AccessTypeOK, InTime, limiterVars
  <1>7. ASSUME NEW g \in Grants, LoadGrant(a, g) PROVE OwnType' /\ Loaded' /\ InTime'
    <2>1. CASE EndCall(a)
      BY <1>7, <2>1, EndCallKeeps DEF LoadGrant, OwnType, AccessTypeOK, InTime, limiterVars
    <2>2. CASE adm' = [adm EXCEPT ![a].pc = "loaded", ![a].op = "revoke_grant", ![a].of = g]
      <3> DEFINE call == [adm[a] EXCEPT !.pc = "loaded", !.op = "revoke_grant", !.of = g]
      <3>1. adm' = [adm EXCEPT ![a] = call] BY <2>2 DEF AccessTypeOK
      <3>2. call \in Call BY <1>0 DEF Call, Ops
      <3>3. adm' \in [Admins -> Call] BY <3>1, <3>2 DEF AccessTypeOK
      <3>4. call.op = "revoke_grant" BY <1>0 DEF Call
      <3>5. Loaded' BY <3>1, <3>3, <3>4 DEF Loaded, AccessTypeOK
      <3> QED BY <1>7, <3>3, <3>5 DEF LoadGrant, OwnType, AccessTypeOK, InTime, limiterVars
    <2> QED BY <1>7, <2>1, <2>2 DEF LoadGrant
  <1>8. CASE RevokeGrant(a)
    <2> DEFINE g == adm[a].of
    <2>1. grants' \in [Grants -> Grant]
      <3>1. CASE g \in Grants
        <4>1. grants' = [grants EXCEPT ![g] = [grants[g] EXCEPT !.revoked = TRUE]]
          BY <1>8, <3>1 DEF RevokeGrant, AccessTypeOK
        <4> QED BY <3>1, <4>1, RevokedIsGrant DEF AccessTypeOK
      <3>2. CASE g \notin Grants BY <1>8, <3>2 DEF RevokeGrant, AccessTypeOK
      <3> QED BY <3>1, <3>2
    <2> QED BY <1>8, <2>1, EndCallKeeps DEF RevokeGrant, OwnType, AccessTypeOK, InTime, limiterVars
  <1> QED BY <1>1, <1>2, <1>3, <1>4, <1>5, <1>6, <1>7, <1>8 DEF AdminStep

\* A step of a request.
LEMMA RequestKeeps ==
  ASSUME AccessInv, NEW i \in Threads, RequestStep(i)
  PROVE  OwnType' /\ Loaded' /\ InTime'
  <1> USE DEF AccessInv
  <1>0. req[i] \in Request /\ req \in [Threads -> Request] BY DEF AccessTypeOK
  <1>1. ASSUME NEW r \in Request, Asked(i, r) PROVE OwnType' /\ Loaded' /\ InTime'
    BY <1>0, <1>1 DEF Asked, OwnType, AccessTypeOK, Loaded, InTime, limiterVars
  <1>2. ASSUME NEW k \in Keys, NEW b \in Kbs, NEW g \in Grants \cup {Noone},
               NEW strict \in BOOLEAN, Authenticate(i, k, b, g, strict)
        PROVE  OwnType' /\ Loaded' /\ InTime'
    <2>1. /\ [NoRequest EXCEPT !.status = "401"] \in Request
          /\ [NoRequest EXCEPT !.status = "403"] \in Request
      BY Rows DEF Request, Statuses
    <2>2. [NoRequest EXCEPT !.pc = "limit", !.key = k, !.kb = b, !.with = g, !.strict = strict]
            \in Request
      BY Rows DEF Request
    <2>3. CASE ~Usable(k) BY <1>1, <1>2, <2>1, <2>3 DEF Authenticate
    <2>4. CASE Usable(k) /\ ~Authorized(k, b) BY <1>1, <1>2, <2>1, <2>4 DEF Authenticate
    <2>5. CASE Usable(k) /\ Authorized(k, b) BY <1>1, <1>2, <2>2, <2>5 DEF Authenticate
    <2> QED BY <2>3, <2>4, <2>5
  <1>3. ASSUME NEW k \in Keys, NEW b \in Kbs, AuthenticateTool(i, k, b)
        PROVE  OwnType' /\ Loaded' /\ InTime'
    <2>1. [NoRequest EXCEPT !.status = "error"] \in Request BY Rows DEF Request, Statuses
    <2>2. [NoRequest EXCEPT !.pc = "check", !.key = k, !.kb = b] \in Request BY Rows DEF Request
    <2>3. CASE Usable(k) /\ Authorized(k, b) BY <1>1, <1>3, <2>2, <2>3 DEF AuthenticateTool
    <2>4. CASE ~(Usable(k) /\ Authorized(k, b)) BY <1>1, <1>3, <2>1, <2>4 DEF AuthenticateTool
    <2> QED BY <2>3, <2>4
  <1>4. CASE LimiterClock(i)
    BY <1>4 DEF LimiterClock, ReadClock, accessVars, OwnType, AccessTypeOK, Loaded, InTime
  <1>5. CASE LimiterAcquire(i)
    <2>1. time' = time BY <1>5 DEF LimiterAcquire, Acquire
    <2>2. "429" \in Statuses /\ [req[i] EXCEPT !.pc = "check"] \in Request
      BY <1>0 DEF Statuses, Request
    <2>3. req' \in [Threads -> Request]
      <3>1. CASE Answer(i, "429") BY <2>2, <3>1, AnswerKeeps
      <3>2. CASE req' = [req EXCEPT ![i].pc = "check"]
        BY <1>0, <2>2, <3>2
      <3> QED BY <1>5, <3>1, <3>2 DEF LimiterAcquire
    <2> QED BY <1>5, <2>1, <2>3 DEF LimiterAcquire, OwnType, AccessTypeOK, Loaded, InTime
  <1>6. CASE CheckQuery(i)
    <2>1. "PERMISSION_DENIED" \in Statuses /\ [req[i] EXCEPT !.pc = "search"] \in Request
      BY <1>0 DEF Statuses, Request
    <2>2. req' \in [Threads -> Request]
      <3>1. CASE Answer(i, "PERMISSION_DENIED") BY <2>1, <3>1, AnswerKeeps
      <3>2. CASE req' = [req EXCEPT ![i].pc = "search"] BY <1>0, <2>1, <3>2
      <3>3. CASE req' = [req EXCEPT ![i].pc = "search", ![i].under = req[i].with]
        <4>1. [req[i] EXCEPT !.pc = "search", !.under = req[i].with] \in Request
          BY <1>0 DEF Request
        <4>2. req' = [req EXCEPT ![i] = [req[i] EXCEPT !.pc = "search", !.under = req[i].with]]
          BY <1>0, <3>3
        <4> QED BY <1>0, <4>1, <4>2
      <3> QED BY <1>6, <3>1, <3>2, <3>3 DEF CheckQuery
    <2>3. refused' \subseteq Grants BY <1>6 DEF CheckQuery, AccessTypeOK
    <2> QED BY <1>6, <2>2, <2>3 DEF CheckQuery, OwnType, AccessTypeOK, Loaded, InTime, limiterVars
  <1>7. CASE SearchIndex(i)
    <2>1. /\ {"no_matches", "filtered_to_zero", "PAYLOAD_CORRUPT", "matches"} \subseteq Statuses
          /\ [req[i] EXCEPT !.pc = "audit"] \in Request
      BY <1>0 DEF Statuses, Request
    <2>2. CASE req' = [req EXCEPT ![i].pc = "audit"]
      <3>1. req' \in [Threads -> Request] BY <1>0, <2>1, <2>2
      <3> QED BY <1>7, <3>1 DEF SearchIndex, OwnType, AccessTypeOK, Loaded, InTime, limiterVars
    <2>3. ASSUME NEW s \in Statuses, Answer(i, s) PROVE OwnType' /\ Loaded' /\ InTime'
      BY <1>7, <2>3, AnswerKeeps DEF SearchIndex, OwnType, AccessTypeOK, Loaded, InTime, limiterVars
    <2> QED BY <1>7, <2>1, <2>2, <2>3 DEF SearchIndex
  <1>8. ASSUME NEW written \in BOOLEAN, AuditRead(i, written) PROVE OwnType' /\ Loaded' /\ InTime'
    <2>1. {"matches", "CONTROL_PLANE_UNAVAILABLE"} \subseteq Statuses BY DEF Statuses
    <2>2. req' \in [Threads -> Request] BY <1>8, <2>1, AnswerKeeps DEF AuditRead
    <2>3. answered' \in [Grants -> Nat] /\ reads' \in [Grants -> Nat]
      BY <1>8 DEF AuditRead, AccessTypeOK
    <2> QED BY <1>8, <2>2, <2>3 DEF AuditRead, OwnType, AccessTypeOK, Loaded, InTime, limiterVars
  <1> QED BY <1>2, <1>3, <1>4, <1>5, <1>6, <1>7, <1>8 DEF RequestStep

\* The invariant holds at the start and every step keeps it.
LEMMA InvAtStart == AccessInit => AccessInv
  <1> SUFFICES ASSUME AccessInit PROVE AccessInv OBVIOUS
  <1>1. LimiterInv BY InitHolds DEF AccessInit
  <1>2. keys \in [Keys -> Key] BY Rows, PresetAssumption DEF AccessInit
  <1>3. Loaded BY DEF AccessInit, Loaded, NoCall
  <1>4. InTime BY AccessAssumption DEF AccessInit, LimiterInit, InTime
  <1> QED BY <1>1, <1>2, <1>3, <1>4, Rows DEF AccessInit, AccessInv, AccessTypeOK, LimiterInv

LEMMA InvKept == AccessInv /\ [AccessNext]_allVars => AccessInv'
  <1> SUFFICES ASSUME AccessInv, [AccessNext]_allVars PROVE AccessInv' OBVIOUS
  <1>1. LimiterInv' BY AccessMovesLimiter, StepKeeps DEF AccessInv
  <1>2. OwnType' /\ Loaded' /\ InTime'
    <2>1. ASSUME NEW a \in Admins, AdminStep(a) PROVE OwnType' /\ Loaded' /\ InTime'
      BY <2>1, AdminKeeps
    <2>2. ASSUME NEW i \in Threads, RequestStep(i) PROVE OwnType' /\ Loaded' /\ InTime'
      BY <2>2, RequestKeeps
    <2>3. CASE Sweep
      <3>1. audit' \subseteq Entry
        BY <2>3 DEF Sweep, Due, Entry, AccessInv, AccessTypeOK
      <3> QED BY <2>3, <3>1 DEF Sweep, AccessInv, OwnType, AccessTypeOK, Loaded, InTime, limiterVars
    <2>4. CASE Pass
      <3>1. time' <= MaxTime
        BY <2>4, AccessAssumption DEF Pass, Tick, AccessInv, LimiterInv, LimiterTypeOK
      <3> QED BY <2>4, <3>1 DEF Pass, accessVars, AccessInv, OwnType, AccessTypeOK, Loaded, InTime
    <2>5. CASE UNCHANGED allVars
      BY <2>5 DEF allVars, limiterVars, accessVars, AccessInv, OwnType, AccessTypeOK, Loaded, InTime
    <2> QED BY <2>1, <2>2, <2>3, <2>4, <2>5 DEF AccessNext
  <1> QED BY <1>1, <1>2 DEF AccessInv, OwnType, AccessTypeOK, LimiterInv

-----------------------------------------------------------------------------
(* The theorems.                                                           *)

\* Keys, grants, audit rows and requests are well formed whatever the routes, the
\* limiter and the clock do in between.
THEOREM AccessTypeCorrect == AccessSpec => []AccessTypeOK
  <1>1. AccessSpec => []AccessInv BY InvAtStart, InvKept, PTL DEF AccessSpec
  <1>2. AccessInv => AccessTypeOK BY DEF AccessInv
  <1> QED BY <1>1, <1>2, PTL

\* The limiter's promise (M-101) holds for requests that pass keys, grants and the
\* audit log between two uses of it: Access implements the limiter.
THEOREM AccessAdmits == AccessSpec => LimiterSpec /\ []AdmittedWithinRate
  <1>1. AccessSpec => []AccessInv BY InvAtStart, InvKept, PTL DEF AccessSpec
  <1>2. AccessInit => LimiterInit BY DEF AccessInit
  <1>3. AccessInv => AccessTypeOK BY DEF AccessInv
  <1>4. AccessSpec => LimiterSpec
    BY <1>1, <1>2, <1>3, AccessMovesLimiter, PTL DEF AccessSpec, LimiterSpec
  <1> QED BY <1>4, LimiterHolds

-----------------------------------------------------------------------------
\* What one step does to the two counts of a grant.
LEMMA ReadsKeepUp ==
  CommitsOnExit /\ AccessTypeOK /\ ReadsAreAudited /\ [AccessNext]_allVars => ReadsAreAudited'
  <1> SUFFICES ASSUME CommitsOnExit, AccessTypeOK, ReadsAreAudited, [AccessNext]_allVars
               PROVE  ReadsAreAudited'
    OBVIOUS
  <1>1. ASSUME NEW i \in Threads, NEW written \in BOOLEAN, AuditRead(i, written)
        PROVE  ReadsAreAudited'
    <2> SUFFICES ASSUME NEW g \in Grants PROVE answered'[g] <= reads'[g] BY DEF ReadsAreAudited
    <2>1. answered[g] <= reads[g] /\ answered[g] \in Nat /\ reads[g] \in Nat
      BY DEF ReadsAreAudited, AccessTypeOK
    <2>2. CASE written /\ g = req[i].under
      BY <1>1, <2>1, <2>2 DEF AuditRead, AccessTypeOK
    <2>3. CASE ~written \/ g # req[i].under
      BY <1>1, <2>1, <2>3 DEF AuditRead, AccessTypeOK
    <2> QED BY <2>2, <2>3
  <1>2. ASSUME UNCHANGED <<answered, reads>> PROVE ReadsAreAudited'
    BY <1>2 DEF ReadsAreAudited
  <1>3. ASSUME NEW i \in Threads, RequestStep(i) PROVE ReadsAreAudited'
    BY ZenonT(60), <1>1, <1>2, <1>3 DEF RequestStep, Authenticate, AuthenticateTool, Asked, LimiterClock,
       LimiterAcquire, CheckQuery, SearchIndex, accessVars
  <1>4. ASSUME NEW a \in Admins, AdminStep(a) PROVE ReadsAreAudited'
    BY <1>2, <1>4 DEF AdminStep, RequireAdmin, IssueKey, LoadKey, RevokeKey, RotateKey,
       IssueGrant, LoadGrant, RevokeGrant
  <1>5. CASE Sweep BY <1>2, <1>5 DEF Sweep
  <1>6. CASE Pass BY <1>2, <1>6 DEF Pass, accessVars
  <1>7. CASE UNCHANGED allVars BY <1>2, <1>7 DEF allVars, accessVars
  <1> QED BY <1>3, <1>4, <1>5, <1>6, <1>7 DEF AccessNext

\* No content leaves under a grant without its audit row (M-003), provided whoever
\* opened the session of the service commits it.
THEOREM AnswersAreAudited ==
  ASSUME CommitsOnExit
  PROVE  AccessSpec => []ReadsAreAudited
  <1>1. AccessInit => ReadsAreAudited BY DEF AccessInit, ReadsAreAudited
  <1>2. AccessSpec => []AccessTypeOK BY AccessTypeCorrect
  <1>3. AccessTypeOK /\ ReadsAreAudited /\ [AccessNext]_allVars => ReadsAreAudited'
    BY ReadsKeepUp, CommitsOnExit
  <1> QED BY <1>1, <1>2, <1>3, PTL DEF AccessSpec

-----------------------------------------------------------------------------
\* A grant is given once and its end is not moved: what the log says of it stays true.
LEMMA ExpiryStaysTrue ==
  AccessInv /\ ExpiryIsTrue /\ [AccessNext]_allVars => ExpiryIsTrue'
  <1> SUFFICES ASSUME AccessInv, ExpiryIsTrue, [AccessNext]_allVars PROVE ExpiryIsTrue' OBVIOUS
  <1>0. /\ time \in Nat /\ grants \in [Grants -> Grant]
        /\ \A g \in Grants : grants[g].until \in Nat
    BY AccessAssumption DEF AccessInv, AccessTypeOK, LimiterTypeOK, Grant
  <1>1. ASSUME UNCHANGED <<grants, time>>,
               \A g \in Grants : [type |-> "break_glass_expiry", of |-> g] \in audit'
                 => [type |-> "break_glass_expiry", of |-> g] \in audit
        PROVE  ExpiryIsTrue'
    BY <1>1 DEF ExpiryIsTrue
  <1>2. ASSUME NEW type \in {"key_issued", "key_revoked", "break_glass_grant"}, NEW of,
               audit' = Entered(type, of), UNCHANGED <<grants, time>>
        PROVE  ExpiryIsTrue'
    BY <1>1, <1>2 DEF Entered
  <1>3. ASSUME NEW a \in Admins, NEW g \in Grants, NEW b \in Kbs, IssueGrant(a, g, b)
        PROVE  ExpiryIsTrue'
    <2> SUFFICES ASSUME NEW h \in Grants, [type |-> "break_glass_expiry", of |-> h] \in audit'
                 PROVE  grants'[h].there /\ grants'[h].until <= time'
      BY DEF ExpiryIsTrue
    <2>1. [type |-> "break_glass_expiry", of |-> h] \in audit BY <1>3 DEF IssueGrant, Entered
    <2>2. grants[h].there /\ grants[h].until <= time BY <2>1 DEF ExpiryIsTrue
    <2>3. h # g /\ grants'[h] = grants[h] BY <1>0, <1>3, <2>2 DEF IssueGrant
    <2> QED BY <1>3, <2>2, <2>3 DEF IssueGrant, limiterVars
  <1>4. ASSUME NEW a \in Admins, RevokeGrant(a) PROVE ExpiryIsTrue'
    <2>1. audit' = audit /\ time' = time BY <1>4 DEF RevokeGrant, limiterVars
    <2>2. ASSUME NEW h \in Grants
          PROVE  grants'[h].there = grants[h].there /\ grants'[h].until = grants[h].until
      BY <1>0, <1>4 DEF RevokeGrant, Grant
    <2> QED BY <2>1, <2>2 DEF ExpiryIsTrue
  <1>5. ASSUME NEW a \in Admins, AdminStep(a) PROVE ExpiryIsTrue'
    <2>1. ASSUME NEW k \in Keys, NEW role \in Offered, NEW b \in Kbs, NEW e \in {time, Never},
                 IssueKey(a, k, role, b, e)
          PROVE  ExpiryIsTrue'
      BY <1>2, <2>1 DEF IssueKey, limiterVars
    <2>2. CASE RevokeKey(a) BY <1>2, <2>2 DEF RevokeKey, limiterVars
    <2>3. ASSUME NEW k \in Keys, NEW e \in {time, Never}, RotateKey(a, k, e) PROVE ExpiryIsTrue'
      BY <1>2, <2>3 DEF RotateKey, limiterVars
    <2>4. ASSUME NEW k \in Keys, RequireAdmin(a, k) PROVE ExpiryIsTrue'
      BY <1>1, <2>4 DEF RequireAdmin, limiterVars
    <2>5. ASSUME NEW k \in Keys, NEW op \in Ops, LoadKey(a, op, k) PROVE ExpiryIsTrue'
      BY <1>1, <2>5 DEF LoadKey, limiterVars
    <2>6. ASSUME NEW g \in Grants, LoadGrant(a, g) PROVE ExpiryIsTrue'
      BY <1>1, <2>6 DEF LoadGrant, limiterVars
    <2> QED BY <1>3, <1>4, <1>5, <2>1, <2>2, <2>3, <2>4, <2>5, <2>6 DEF AdminStep
  <1>6. ASSUME NEW i \in Threads, RequestStep(i) PROVE ExpiryIsTrue'
    BY ZenonT(60), <1>1, <1>6 DEF RequestStep, Authenticate, AuthenticateTool, Asked, LimiterClock, ReadClock,
       LimiterAcquire, Acquire, CheckQuery, SearchIndex, AuditRead, accessVars, limiterVars
  <1>7. CASE Sweep
    <2> SUFFICES ASSUME NEW h \in Grants, [type |-> "break_glass_expiry", of |-> h] \in audit'
                 PROVE  grants[h].there /\ grants[h].until <= time
      BY <1>7 DEF ExpiryIsTrue, Sweep, limiterVars
    <2>1. CASE [type |-> "break_glass_expiry", of |-> h] \in audit BY <2>1 DEF ExpiryIsTrue
    <2>2. CASE h \in Due BY <2>2 DEF Due
    <2> QED BY <1>7, <2>1, <2>2 DEF Sweep
  <1>8. CASE Pass
    <2>1. audit' = audit /\ grants' = grants /\ time' = time + 1 BY <1>8 DEF Pass, Tick, accessVars
    <2> QED BY <1>0, <2>1 DEF ExpiryIsTrue
  <1>9. CASE UNCHANGED allVars BY <1>1, <1>9 DEF allVars, limiterVars, accessVars
  <1> QED BY <1>5, <1>6, <1>7, <1>8, <1>9 DEF AccessNext

\* No step lets a request through under a grant that the log calls expired.
LEMMA NoneAfterExpiry ==
  AccessInv /\ ExpiryIsTrue /\ [AccessNext]_allVars
  => \A i \in Threads :
       req'[i].under # Noone /\ req'[i].under # req[i].under
       => [type |-> "break_glass_expiry", of |-> req'[i].under] \notin audit
  <1> SUFFICES ASSUME AccessInv, ExpiryIsTrue, [AccessNext]_allVars, NEW i \in Threads,
                      req'[i].under # Noone, req'[i].under # req[i].under
               PROVE  [type |-> "break_glass_expiry", of |-> req'[i].under] \notin audit
    OBVIOUS
  <1>0. req \in [Threads -> Request] /\ NoRequest \in Request /\ NoRequest.under = Noone
    BY Rows DEF AccessInv, AccessTypeOK, NoRequest
  <1>1. ASSUME NEW j \in Threads, CheckQuery(j) PROVE req'[i].under \in ActiveGrantFor(req[i].kb, req[i].key)
    BY <1>0, <1>1 DEF CheckQuery, Answer, Request
  <1>2. ASSUME NEW j \in Threads, RequestStep(j), ~CheckQuery(j) PROVE FALSE
    <2>0. req[j] \in Request BY <1>0
    <2>1. ASSUME NEW r, req' = [req EXCEPT ![j] = r], r.under \in {Noone, req[j].under}
          PROVE  FALSE
      BY <1>0, <2>1
    <2>2. ASSUME NEW s, Answer(j, s) PROVE FALSE
      <3>1. [NoRequest EXCEPT !.status = s].under = Noone BY DEF NoRequest
      <3> QED BY <2>1, <2>2, <3>1 DEF Answer
    <2>3. ASSUME NEW k \in Keys, NEW b \in Kbs, NEW g \in Grants \cup {Noone},
                 NEW strict \in BOOLEAN, Authenticate(j, k, b, g, strict)
          PROVE  FALSE
      <3>1. /\ [NoRequest EXCEPT !.status = "401"].under = Noone
            /\ [NoRequest EXCEPT !.status = "403"].under = Noone
            /\ [NoRequest EXCEPT !.pc = "limit", !.key = k, !.kb = b,
                                 !.with = g, !.strict = strict].under = Noone
        BY DEF NoRequest
      <3>2. CASE ~Usable(k) BY <2>1, <2>3, <3>1, <3>2 DEF Authenticate, Asked
      <3>3. CASE Usable(k) /\ ~Authorized(k, b) BY <2>1, <2>3, <3>1, <3>3 DEF Authenticate, Asked
      <3>4. CASE Usable(k) /\ Authorized(k, b) BY <2>1, <2>3, <3>1, <3>4 DEF Authenticate, Asked
      <3> QED BY <3>2, <3>3, <3>4
    <2>4. ASSUME NEW k \in Keys, NEW b \in Kbs, AuthenticateTool(j, k, b) PROVE FALSE
      <3>1. /\ [NoRequest EXCEPT !.status = "error"].under = Noone
            /\ [NoRequest EXCEPT !.pc = "check", !.key = k, !.kb = b].under = Noone
        BY DEF NoRequest
      <3>2. CASE Usable(k) /\ Authorized(k, b) BY <2>1, <2>4, <3>1, <3>2 DEF AuthenticateTool, Asked
      <3>3. CASE ~(Usable(k) /\ Authorized(k, b)) BY <2>1, <2>4, <3>1, <3>3 DEF AuthenticateTool, Asked
      <3> QED BY <3>2, <3>3
    <2>5. ~LimiterClock(j) BY DEF LimiterClock, accessVars
    <2>6. ASSUME NEW pc, req' = [req EXCEPT ![j].pc = pc] PROVE FALSE
      <3>1. [req[j] EXCEPT !.pc = pc].under = req[j].under BY <2>0 DEF Request
      <3>2. req' = [req EXCEPT ![j] = [req[j] EXCEPT !.pc = pc]] BY <1>0, <2>6
      <3> QED BY <2>1, <3>1, <3>2
    <2>7. ~LimiterAcquire(j) BY <2>2, <2>6 DEF LimiterAcquire
    <2>8. ~SearchIndex(j) BY <2>2, <2>6 DEF SearchIndex
    <2>9. ASSUME NEW written \in BOOLEAN, AuditRead(j, written) PROVE FALSE
      BY <2>2, <2>9 DEF AuditRead
    <2> QED BY <1>2, <2>3, <2>4, <2>5, <2>7, <2>8, <2>9 DEF RequestStep
  <1>3. PICK j \in Threads : CheckQuery(j)
    BY ZenonT(60), <1>2 DEF AccessNext, AdminStep, RequireAdmin, IssueKey, LoadKey, RevokeKey, RotateKey,
       IssueGrant, LoadGrant, RevokeGrant, Sweep, Pass, allVars, accessVars
  <1>4. InForce(req'[i].under) /\ req'[i].under \in Grants BY <1>1, <1>3 DEF ActiveGrantFor
  <1>5. /\ time \in Nat /\ \A g \in Grants : grants[g].until \in Nat
    BY AccessAssumption DEF AccessInv, AccessTypeOK, LimiterTypeOK, Grant
  <1> QED BY <1>4, <1>5 DEF InForce, ExpiryIsTrue

\* Once the log says that a grant expired, nobody is let through with it (M-002): the
\* sweep and the check draw the line at the same instant, and no grant is renewed.
THEOREM ExpiredGrantIsOver == AccessSpec => ExpiredIsOver
  <1>1. AccessSpec => []AccessInv BY InvAtStart, InvKept, PTL DEF AccessSpec
  <1>2. AccessInit => ExpiryIsTrue BY DEF AccessInit, ExpiryIsTrue
  <1>3. AccessSpec => []ExpiryIsTrue
    BY <1>1, <1>2, ExpiryStaysTrue, PTL DEF AccessSpec
  <1> QED BY <1>1, <1>3, NoneAfterExpiry, PTL DEF AccessSpec, ExpiredIsOver
=============================================================================
