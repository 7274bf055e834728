---------------------------- MODULE NativeSession ----------------------------
(***************************************************************************)
(* What the extensions of the natives share: a session of the Move VM runs  *)
(* one transaction and gives each extension (NativeTableContext,            *)
(* NativeAggregatorContext, ...) the hash of the transaction when it is     *)
(* created.  At the end the extensions give up their changes, or are        *)
(* dropped when anything has failed.                                        *)
(***************************************************************************)
EXTENDS Integers, Sequences, FiniteSets

CONSTANT TxnHash     \* the hashes of the sessions, each of which runs once

VARIABLES
  used,     \* the hashes of the sessions so far
  txn,      \* the txn_hash of the extensions
  status    \* "idle", or a session that is "running" or has "failed"

sessionVars == <<used, txn, status>>

SessionInit == used = {} /\ txn \in TxnHash /\ status = "idle"

\* A session with a hash of its own gets its extensions.
open_session(hash) ==
  /\ status = "idle" /\ hash \notin used
  /\ txn' = hash /\ used' = used \cup {hash} /\ status' = "running"

\* A native or Move code aborts, or the gas is out: nothing more is called.
fail == status' = "failed" /\ UNCHANGED <<used, txn>>

close_session == status' = "idle" /\ UNCHANGED <<used, txn>>

SessionTypeOK ==
  /\ used \subseteq TxnHash /\ txn \in TxnHash
  /\ status \in {"idle", "running", "failed"}
=============================================================================
