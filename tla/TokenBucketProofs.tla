------------------------- MODULE TokenBucketProofs -------------------------
(***************************************************************************)
(* The rate limit holds for every capacity, cost, rate and preemption      *)
(* bound.  The inductive invariant is BucketTypeOK /\ WindowBudget.        *)
(***************************************************************************)
EXTENDS TokenBucket, TLAPS

BucketInv == BucketTypeOK /\ WindowBudget

\* The level after a refill is within the bucket, and gains at most what the
\* elapsed time refills (line 239).
LEMMA LevelBounds ==
  ASSUME NEW held \in 0..Capacity, NEW since \in Nat, NEW at \in Nat,
         since <= at
  PROVE  /\ Level(held, since, at) \in 0..Capacity
         /\ Level(held, since, at) <= held + Rate * at - Rate * since
<1>1. Rate * at \in Nat /\ Rate * since \in Nat
  BY BucketAssumption DEF BucketAssumption
<1>2. (at - since) * Rate = Rate * at - Rate * since
  BY BucketAssumption DEF BucketAssumption
<1>3. (at - since) * Rate \in Nat
  BY BucketAssumption DEF BucketAssumption
<1>. QED BY <1>1, <1>2, <1>3, BucketAssumption DEF BucketAssumption, Level

\* Every step keeps the types, the order of the instants, and the bound on
\* how stale the refill of a pending call is.
LEMMA BucketTypeStep == BucketTypeOK /\ [BucketNext]_bucketVars => BucketTypeOK'
<1>. SUFFICES ASSUME BucketTypeOK, [BucketNext]_bucketVars
              PROVE  BucketTypeOK'
  OBVIOUS
<1>. USE BucketAssumption DEF BucketAssumption, BucketTypeOK
<1>1. ASSUME NEW n \in last..now, Refill(n)
      PROVE  BucketTypeOK'
  <2>1. Level(tokens, last, n) \in 0..Capacity
    BY <1>1, LevelBounds
  <2>. QED BY <1>1, <2>1 DEF Refill, Stamp
<1>2. CASE Grant
  <2>1. tokens' \in 0..Capacity /\ granted' \in Nat
    BY <1>2 DEF Grant
  <2>2. calling' = FALSE /\ UNCHANGED <<last, now, opened>>
    BY <1>2 DEF Grant
  <2>. QED BY <2>1, <2>2
<1>3. CASE Refuse
  BY <1>3 DEF Refuse
<1>4. CASE Tick
  BY <1>4 DEF Tick
<1>5. CASE OpenWindow
  BY <1>5 DEF OpenWindow
<1>6. CASE UNCHANGED bucketVars
  BY <1>6 DEF bucketVars
<1>. QED BY <1>1, <1>2, <1>3, <1>4, <1>5, <1>6 DEF BucketNext

\* The budget survives every step: a refill moves credit from the future
\* into the bucket, a grant moves it from the bucket to the grants.
LEMMA WindowBudgetStep ==
  BucketTypeOK /\ WindowBudget /\ [BucketNext]_bucketVars => WindowBudget'
<1>. SUFFICES ASSUME BucketTypeOK, WindowBudget, [BucketNext]_bucketVars
              PROVE  WindowBudget'
  OBVIOUS
<1>. USE BucketAssumption DEF BucketAssumption, BucketTypeOK
<1>1. ASSUME NEW n \in last..now, Refill(n)
      PROVE  WindowBudget'
  <2>1. /\ Level(tokens, last, n) \in 0..Capacity
        /\ Level(tokens, last, n) <= tokens + Rate * n - Rate * last
    BY <1>1, LevelBounds
  <2>2. tokens' = Level(tokens, last, n) /\ last' = n
        /\ opened' = opened /\ granted' = granted
    BY <1>1 DEF Refill, Stamp
  <2>3. CASE granted = 0
    <3>1. n - opened + MaxStall \in Nat
      BY <1>1 DEF Refill
    <3>2. Rate * (n - opened + MaxStall) \in Nat
      BY <3>1
    <3>3. granted * Cost = 0
      BY <2>3
    <3>. QED BY <2>1, <2>2, <3>2, <3>3 DEF WindowBudget
  <2>4. CASE granted > 0
    <3>1. granted * Cost + tokens <= Capacity + Rate * (last - opened + MaxStall)
      BY <2>4 DEF WindowBudget
    <3>2. Rate * (last - opened + MaxStall) + Rate * n - Rate * last
            = Rate * (n - opened + MaxStall)
      OBVIOUS
    <3>3. granted * Cost \in Nat /\ Rate * n \in Nat /\ Rate * last \in Nat
          /\ Rate * (last - opened + MaxStall) \in Int
          /\ Rate * (n - opened + MaxStall) \in Int
      OBVIOUS
    <3>. QED BY <2>1, <2>2, <3>1, <3>2, <3>3 DEF WindowBudget
  <2>. QED BY <2>3, <2>4
<1>2. CASE Grant
  <2>1. granted * Cost + tokens <= Capacity + Rate * (last - opened + MaxStall)
    BY <1>2 DEF Grant, WindowBudget
  <2>2. (granted + 1) * Cost = granted * Cost + Cost
    OBVIOUS
  <2>3. granted * Cost \in Nat /\ Rate * (last - opened + MaxStall) \in Int
    OBVIOUS
  <2>. QED BY <1>2, <2>1, <2>2, <2>3 DEF Grant, WindowBudget
<1>3. CASE Refuse
  BY <1>3 DEF Refuse, WindowBudget
<1>4. CASE Tick
  BY <1>4 DEF Tick, WindowBudget
<1>5. CASE OpenWindow
  <2>1. granted' * Cost = 0 /\ opened' = now /\ UNCHANGED <<tokens, last, calling>>
    BY <1>5 DEF OpenWindow
  <2>2. CASE calling
    <3>1. last - now + MaxStall \in Nat
      BY <2>2
    <3>2. Rate * (last - now + MaxStall) \in Nat
      BY <3>1
    <3>. QED BY <2>1, <3>2 DEF WindowBudget
  <2>3. CASE ~calling
    BY <1>5, <2>3 DEF OpenWindow, WindowBudget
  <2>. QED BY <2>2, <2>3
<1>6. CASE UNCHANGED bucketVars
  BY <1>6 DEF bucketVars, WindowBudget
<1>. QED BY <1>1, <1>2, <1>3, <1>4, <1>5, <1>6 DEF BucketNext

\* The budget at the last refill bounds the grants now, since the clock is
\* never behind the refill instant.
LEMMA BudgetGivesBound == BucketTypeOK /\ WindowBudget => WindowBound
<1>. SUFFICES ASSUME BucketTypeOK, WindowBudget
              PROVE  WindowBound
  OBVIOUS
<1>. USE BucketAssumption DEF BucketAssumption, BucketTypeOK
<1>1. now - last \in Nat /\ now - opened + MaxStall \in Nat
  OBVIOUS
<1>2. Rate * (now - last) \in Nat /\ Rate * (now - opened + MaxStall) \in Nat
  BY <1>1
<1>3. Rate * (last - opened + MaxStall) + Rate * (now - last)
        = Rate * (now - opened + MaxStall)
  OBVIOUS
<1>4. granted * Cost \in Nat /\ Rate * (last - opened + MaxStall) \in Int
  OBVIOUS
<1>5. CASE granted = 0
  <2>1. granted * Cost = 0
    BY <1>5
  <2>. QED BY <2>1, <1>2 DEF WindowBound
<1>6. CASE granted > 0
  BY <1>2, <1>3, <1>4, <1>6 DEF WindowBudget, WindowBound
<1>. QED BY <1>5, <1>6

\* __init__ (lines 222-233) establishes the invariant.
LEMMA BucketInitInv == BucketInit => BucketInv
<1>. SUFFICES ASSUME BucketInit PROVE BucketInv
  OBVIOUS
<1>1. tokens \in 0..Capacity
  BY BucketAssumption DEF BucketAssumption, BucketInit
<1>2. last = 0 /\ now = 0 /\ opened = 0 /\ granted = 0
      /\ ~calling /\ calling \in BOOLEAN
  BY DEF BucketInit
<1>3. BucketTypeOK
  BY <1>1, <1>2 DEF BucketTypeOK
<1>4. WindowBudget
  BY <1>2 DEF WindowBudget
<1>. QED BY <1>3, <1>4 DEF BucketInv

\* The bucket's variables keep their types and their order in time, in every
\* reachable state (the class invariant of TokenBucket, lines 221-251).
THEOREM BucketTypeCorrect == BucketSpec => []BucketTypeOK
<1>1. BucketInit => BucketTypeOK
  BY BucketInitInv DEF BucketInv
<1>. QED BY <1>1, BucketTypeStep, PTL DEF BucketSpec

\* No window of time sees more grants than one bucket plus its refill and
\* one preemption's worth (try_consume, lines 242-247).
THEOREM RateLimit == BucketSpec => []WindowBound
<1>1. BucketInit => BucketInv
  BY BucketInitInv
<1>2. BucketInv /\ [BucketNext]_bucketVars => BucketInv'
  BY BucketTypeStep, WindowBudgetStep DEF BucketInv
<1>3. BucketInv => WindowBound
  BY BudgetGivesBound DEF BucketInv
<1>. QED BY <1>1, <1>2, <1>3, PTL DEF BucketSpec
=============================================================================
