------------------------------ MODULE Timestamp ------------------------------
(***************************************************************************)
(* aptos_framework::timestamp: the wall clock agreed by consensus, kept in  *)
(* microseconds and read in seconds.  Several blocks can fall in the same   *)
(* second, and every transaction of a block reads the same time.            *)
(***************************************************************************)
EXTENDS Integers

CONSTANTS
  MICRO_CONVERSION_FACTOR,  \* microseconds in a second
  Timestamps                \* the block timestamps that can be proposed

ASSUME ConversionFactorAssumption == MICRO_CONVERSION_FACTOR \in Nat \ {0}
ASSUME TimestampsAssumption == Timestamps \subseteq Nat

VARIABLE microseconds       \* CurrentTimeMicroseconds.microseconds

\* The times that can be read in seconds; the clock starts at 0.
Seconds == {t \div MICRO_CONVERSION_FACTOR : t \in Timestamps \cup {0}}

InitTime == microseconds = 0

(* A block prologue.  A NIL block (proposer @vm_reserved) must repeat the   *)
(* current time: it leaves the state as it is and is a stuttering step.     *)
update_global_time ==
  \E timestamp \in Timestamps :
    /\ microseconds < timestamp
    /\ microseconds' = timestamp

\* Fault: microseconds taken for seconds.
now_unconverted == microseconds

now_seconds == microseconds \div MICRO_CONVERSION_FACTOR
=============================================================================
