----------------------------- MODULE RateLimiter -----------------------------
(***************************************************************************)
(* aptos_framework::rate_limiter: a token bucket that is refilled when it   *)
(* is asked, from the time that has passed.  A limiter is a value that some *)
(* resource holds; the operators give the value after a call, and a call    *)
(* that aborts is outside their guards.                                     *)
(***************************************************************************)
EXTENDS Timestamp

CONSTANT MAX_U64   \* bound of the machine's integers, small in the instances

ASSUME RateLimiterConstants == MAX_U64 \in Nat

(* A bucket starts full.  Neither the capacity nor the interval is checked. *)
initialize(capacity, refill_interval) ==
  [capacity |-> capacity, current_amount |-> capacity, refill_interval |-> refill_interval,
   last_refill_timestamp |-> now_seconds, fractional_accumulated |-> 0]

accumulated_amount(limiter) ==
  (now_seconds - limiter.last_refill_timestamp) * limiter.capacity
    + limiter.fractional_accumulated

new_tokens(limiter) == accumulated_amount(limiter) \div limiter.refill_interval

(* Sums and products that do not fit abort, and so does an interval of 0.   *)
refill_returns(limiter) ==
  /\ accumulated_amount(limiter) <= MAX_U64
  /\ limiter.refill_interval # 0
  /\ limiter.current_amount + new_tokens(limiter) <= MAX_U64

\* Fault: the rest of the division is forgotten.
refill_rounding_down(limiter) ==
  [limiter EXCEPT
     !.current_amount =
       IF limiter.current_amount + new_tokens(limiter) >= limiter.capacity
       THEN limiter.capacity ELSE limiter.current_amount + new_tokens(limiter),
     !.fractional_accumulated = 0,
     !.last_refill_timestamp = now_seconds]

refill(limiter) ==
  LET full == limiter.current_amount + new_tokens(limiter) >= limiter.capacity
  IN  [limiter EXCEPT
         !.current_amount =
           IF full THEN limiter.capacity ELSE limiter.current_amount + new_tokens(limiter),
         !.fractional_accumulated =
           IF full THEN 0 ELSE accumulated_amount(limiter) % limiter.refill_interval,
         !.last_refill_timestamp = now_seconds]

(* request, when it grants the tokens *)
request_granted(limiter, tokens) ==
  refill_returns(limiter) /\ refill(limiter).current_amount >= tokens

request(limiter, tokens) ==
  [refill(limiter) EXCEPT !.current_amount = @ - tokens]
=============================================================================
