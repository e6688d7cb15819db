---------------------------- MODULE TokenBucket ----------------------------
(***************************************************************************)
(* The token bucket of scripts/demo_policy.py (class TokenBucket, lines    *)
(* 221-251) as its callers may rely on it.  Tokens are counted in integer  *)
(* units: the code's capacity 2, cost 1 and 0.1 tokens per second are      *)
(* Capacity = 20, Cost = 10 and Rate = 1 per second; the rounding of the   *)
(* code's floats is abstracted away.                                       *)
(*                                                                         *)
(* try_consume is a refill followed by a separate test-and-subtract, and   *)
(* _refill itself reads the clock before it stores the level.  The thread  *)
(* may be preempted between any two of these, for at most MaxStall, so a   *)
(* refill is for some recent instant and a grant uses a recent refill.     *)
(***************************************************************************)
EXTENDS Integers

CONSTANTS Capacity,   \* units the bucket holds when full (RATE_CAPACITY)
          Cost,       \* units one grant takes (RATE_COST)
          Rate,       \* units gained per unit of time (RATE_REFILL_PER_SEC)
          MaxStall,   \* longest preemption between the clock read and the grant
          MaxTime     \* bound of the model: the clock stops here

ASSUME BucketAssumption ==
  /\ Capacity \in Nat
  /\ Cost \in Nat
  /\ Rate \in Nat
  /\ MaxStall \in Nat
  /\ MaxTime \in Nat

VARIABLES tokens,     \* self._tokens
          last,       \* self._last, the instant the level was computed for
          now,        \* the monotonic clock
          calling,    \* a try_consume has refilled and not yet tested
          opened,     \* history: the instant the observed window opened
          granted     \* history: grants since then

bucketVars == <<tokens, last, now, calling, opened, granted>>

-----------------------------------------------------------------------------
\* Faulty variant: a refill that forgets the capacity.
UncappedLevel(held, since, at) == held + (at - since) * Rate

\* min(self.capacity, self._tokens + elapsed * self.refill_per_sec)
Level(held, since, at) ==
  LET full == held + (at - since) * Rate
  IN IF full < Capacity THEN full ELSE Capacity

\* Faulty variant: the refill forgets `self._last = now`.
StaleStamp(n) == last

\* What _refill stores in self._last: the instant it read, not the current one.
Stamp(n) == n

\* _refill, as the first half of a try_consume that read the clock at n.
Refill(n) ==
  /\ ~calling
  /\ n >= last
  /\ n <= now
  /\ n + MaxStall >= now
  /\ tokens' = Level(tokens, last, n)
  /\ last' = Stamp(n)
  /\ calling' = TRUE
  /\ UNCHANGED <<now, opened, granted>>

\* `if self._tokens >= cost: self._tokens -= cost; return True`
Grant ==
  /\ calling
  /\ tokens >= Cost
  /\ tokens' = tokens - Cost
  /\ granted' = granted + 1
  /\ calling' = FALSE
  /\ UNCHANGED <<last, now, opened>>

\* `return False`
Refuse ==
  /\ calling
  /\ tokens < Cost
  /\ calling' = FALSE
  /\ UNCHANGED <<tokens, last, now, opened, granted>>

Tick ==
  /\ now < MaxTime
  /\ calling => now < last + MaxStall
  /\ now' = now + 1
  /\ UNCHANGED <<tokens, last, calling, opened, granted>>

\* History only: an observer starts counting at any instant.
OpenWindow ==
  /\ opened' = now
  /\ granted' = 0
  /\ UNCHANGED <<tokens, last, now, calling>>

\* __init__ fills the bucket.
BucketInit ==
  /\ tokens = Capacity
  /\ last = 0
  /\ now = 0
  /\ calling = FALSE
  /\ opened = 0
  /\ granted = 0

BucketNext ==
  \/ \E n \in last..now : Refill(n)
  \/ Grant
  \/ Refuse
  \/ Tick
  \/ OpenWindow

BucketSpec == BucketInit /\ [][BucketNext]_bucketVars

-----------------------------------------------------------------------------
BucketTypeOK ==
  /\ tokens \in 0..Capacity
  /\ last \in Nat
  /\ now \in Nat
  /\ calling \in BOOLEAN
  /\ opened \in Nat
  /\ granted \in Nat
  /\ last <= now
  /\ opened <= now
  /\ calling => now <= last + MaxStall

(***************************************************************************)
(* The rate limit proper, about EVERY window of time and not only the one  *)
(* that starts with the process: from any instant on, the grants never     *)
(* exceed one full bucket plus what the elapsed time refills plus one      *)
(* preemption's worth of credit, which does not accumulate from call to    *)
(* call although refills are lazy, capped, and computed for instants       *)
(* already past (_refill and try_consume, lines 235-246).                  *)
(***************************************************************************)
WindowBound ==
  granted * Cost <= Capacity + Rate * (now - opened + MaxStall)

(***************************************************************************)
(* Why it holds: once a call of the window has refilled, what was granted  *)
(* and what is left in the bucket come out of one budget that grows with   *)
(* the refill instant, never with the clock.                               *)
(***************************************************************************)
WindowBudget ==
  (calling \/ granted > 0) =>
    granted * Cost + tokens <= Capacity + Rate * (last - opened + MaxStall)
=============================================================================
