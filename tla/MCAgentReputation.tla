-------------------------- MODULE MCAgentReputation --------------------------
(***************************************************************************)
(* Two small instances of AgentReputation in one run of TLC.  The instance  *)
(* is chosen at the start and limits the steps: "quotas" is about grants    *)
(* and issues and has no responses, "responses" is about what happens to    *)
(* the NFTs of one short authorisation.                                     *)
(***************************************************************************)
EXTENDS AgentReputation, FiniteSets, TLC

CONSTANTS owner, client, agent1, n1, n2, n3, r1, r2, r3

MCAccounts == {owner, client}
MCReputations == {n1, n2, n3}
MCResponses == {r1, r2, r3}
MCObjects == {agent1} \cup MCReputations \cup MCResponses

\* Accounts differ: the deployer is one of them.  Unique addresses do not.
AddressSymmetry == Permutations(MCReputations) \cup Permutations(MCResponses)

MCExpiries == {1, 2}
\* The largest score that is accepted and the smallest that is not.
MCScores == {100, 101}
MCUris == {"", "file"}

VARIABLE instance

Quotas ==
  /\ responses = new /\ issuers = {} /\ admin = Deployer
  /\ \A a \in DOMAIN agents : agents[a].domain = {}

Responses ==
  /\ Cardinality(DOMAIN reputations) <= 2
  /\ \A a \in DOMAIN agents :
       /\ agents[a].owner = owner
       /\ epochs[a][client].number <= 1 /\ epochs[a][owner].number = 0
       /\ \A c \in DOMAIN feedback_auths[a] : feedback_auths[a][c].expiry = 1

MCInit == Init /\ instance \in {"quotas", "responses"}

MCNext ==
  /\ Next
  /\ instance = "quotas" => Quotas'
  /\ instance = "responses" => Responses'
  /\ UNCHANGED instance

MCSpec == MCInit /\ [][MCNext]_<<vars, instance>>
=============================================================================
