--------------------------- MODULE ReputationLedger ---------------------------
(***************************************************************************)
(* What the reputation layer promises its readers: a ledger of entries, one *)
(* for each reputation NFT.  The core of an entry - whose feedback about    *)
(* whom, the score, the time, the index, and who holds the NFT - is fixed   *)
(* when it is issued.  Its state can only move forward: it is revoked at    *)
(* most once and for good, and its responses grow one by one to a limit.    *)
(***************************************************************************)
EXTENDS MoveTable

CONSTANTS
  Entries,        \* names of entries
  Cores,          \* what an entry can say
  MaxResponses    \* the most responses to an entry

VARIABLE ledger   \* entry -> [core, revoked, responses]

Init == ledger = new

Issue(entry, core) ==
  /\ ~contains(ledger, entry)
  /\ ledger' = add(ledger, entry, [core |-> core, revoked |-> FALSE, responses |-> 0])

Revoke(entry) ==
  /\ contains(ledger, entry)
  /\ ~ledger[entry].revoked
  /\ ledger' = [ledger EXCEPT ![entry].revoked = TRUE]

Respond(entry) ==
  /\ contains(ledger, entry)
  /\ ledger[entry].responses < MaxResponses
  /\ ledger' = [ledger EXCEPT ![entry].responses = @ + 1]

Next ==
  \E entry \in Entries :
    \/ \E core \in Cores : Issue(entry, core)
    \/ Revoke(entry)
    \/ Respond(entry)

Spec == Init /\ [][Next]_ledger
=============================================================================
