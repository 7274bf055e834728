------------------------------- MODULE MCClock -------------------------------
(***************************************************************************)
(* Protocols that hang on the clock of the chain, for TLC: the validation   *)
(* requests of agents (AgentValidation), and the keys that accounts delegate*)
(* with a limit, a rate and a time (AccountDelegation).  A behaviour is     *)
(* about one of them, chosen at the start.                                  *)
(***************************************************************************)
EXTENDS MCAgentValidation, AccountDelegation

VARIABLE kind

\* One key of one account and what it may spend; keys and handles of two
\* accounts that sign together; keys with limiters.
DelegationKinds == {"spending", "agents", "limiters"}

MCInit ==
  /\ kind \in {"validation"} \cup DelegationKinds
  /\ Init
  /\ DelegationInit

\* Five microseconds for the requests, four full seconds for the limiters.
MCClockTimestamps == 1 .. 5 \cup {6, 8}

\* A limiter that refills slowly, one that does so at once, one that cannot.
MCLimiters ==
  {NoLimiter} \cup {[capacity |-> c[1], refill_interval |-> c[2]] : c \in {<<2, 3>>, <<1, 1>>, <<1, 0>>}}

Alone == running => \A s \in tx.signers : s.account = a1
Unlimiting == \A d \in DOMAIN delegations : delegations[d].rate_limiter = NoLimiter

Scope ==
  CASE kind = "validation" -> microseconds <= 5
    [] kind = "spending"   -> Alone /\ Unlimiting /\ microseconds \in {0, 2} /\ generated <= 2
    [] kind = "agents"     -> Unlimiting /\ microseconds = 0
    [] kind = "limiters"   -> Alone /\ microseconds % 2 = 0 /\ generated <= 1

Delegate ==
  \/ Begin \/ Commit \/ Fail \/ BlockPrologue
  \/ kind = "spending" /\ Call
  \/ kind = "agents" /\ NextEpoch
  \/ kind = "agents" /\ running /\ (DelegationCall \/ HandleCall \/ RevokeCall)
  \/ kind = "limiters" /\ running /\ (DelegationCall \/ GasCall)

MCvars == <<kind, pending, completed, delegationVars>>

MCNext ==
  /\ UNCHANGED kind
  /\ \/ /\ kind = "validation"
        /\ Next
        /\ UNCHANGED <<permissionVars, delegations, tx, budget, accepted>>
     \/ /\ kind \in DelegationKinds
        /\ Delegate
        /\ UNCHANGED <<pending, completed>>
  /\ Scope'

MCSpec == MCInit /\ [][MCNext]_MCvars
=============================================================================
