--------------------------- MODULE AgentReputation ---------------------------
(***************************************************************************)
(* aaf::agent_reputation on top of aaf::agent: reputation NFTs that clients *)
(* issue about agents, within the quotas that agent owners grant them, and  *)
(* the responses that anyone appends to an NFT.                             *)
(*                                                                         *)
(* Every action is one committed transaction of the two modules; what       *)
(* accounts do with the objects behind agents, NFTs and responses is in     *)
(* AgentFramework.  URIs and hashes are left out of the records.            *)
(***************************************************************************)
EXTENDS Agent

CONSTANTS
  ReputationAddresses,   \* unique addresses for reputation NFTs
  ResponseAddresses,     \* unique addresses for response records
  FileUris,              \* feedback URIs that issuers pass
  Scores,                \* scores that issuers pass
  Candidates,            \* addresses that get issuer capabilities, or governance
  MAX_RESPONSES,         \* most responses to an NFT
  Deployer               \* the account that deploys the modules, @aaf

ASSUME ReputationAddressesAssumption ==
  /\ ReputationAddresses \cup ResponseAddresses \subseteq ObjectAddresses
  /\ AgentAddresses \cap (ReputationAddresses \cup ResponseAddresses) = {}
  /\ ReputationAddresses \cap ResponseAddresses = {}
ASSUME ScoresAssumption == Scores \subseteq Nat
ASSUME MaxResponsesAssumption == MAX_RESPONSES \in Nat
ASSUME CandidatesAssumption == Candidates \subseteq Addresses
ASSUME DeployerAssumption == Deployer \in Accounts

VARIABLES
  reputations,     \* ReputationNFT, by address
  responses,       \* ResponseRecord, by address
  issuers,         \* keys of IssuerCapabilityStore.issuers
  admin,           \* GovernanceConfig.admin
  epoch_of         \* history: NFT -> the epoch of the authorisation it used

reputationVars == <<reputations, responses, issuers, admin, epoch_of>>
vars == <<microseconds, objectVars, agentVars, reputationVars>>

AcceptedScores == {score \in Scores : score <= 100}

FeedbackIndices == UNION {1 .. index_limit : index_limit \in IndexLimits}

ReputationNFT == [agent : AgentAddresses, issuer : Accounts, score : AcceptedScores,
                  issued_at : Seconds, feedback_index : FeedbackIndices,
                  revoked : BOOLEAN, response_count : 0 .. MAX_RESPONSES]

ResponseRecord == [reputation : ReputationAddresses, responder : Accounts,
                   timestamp : Seconds, index : Nat]

(* init_internal, when the modules are deployed                             *)
Init ==
  /\ InitTime
  /\ InitObjects
  /\ InitAgents
  /\ reputations = new
  /\ responses = new
  /\ issuers = {}
  /\ admin = Deployer
  /\ epoch_of = new

-----------------------------------------------------------------------------
\* Fault: the NFT is not made untransferable.
issue_transferable(issuer, agent, score, file_uri, gated, reputation) ==
  /\ score <= 100
  /\ file_uri # EmptyUri
  /\ gated => issuer \in issuers
  /\ verify_and_consume_feedback_auth(agent, issuer)
  /\ reputation \in ReputationAddresses \ DOMAIN objects
  /\ objects' = with_object(reputation, issuer)
  /\ reputations' = add(reputations, reputation,
       [agent |-> agent, issuer |-> issuer, score |-> score,
        issued_at |-> now_seconds,
        feedback_index |-> feedback_auths[agent][issuer].last_index + 1,
        revoked |-> FALSE, response_count |-> 0])
  /\ epoch_of' = add(epoch_of, reputation, epochs[agent][issuer].number)
  /\ UNCHANGED <<microseconds, untransferable, tombstones, agents, epochs,
                 responses, issuers, admin>>

(* issue_reputation_internal and its entry function.  The NFT is an object  *)
(* of the issuer, untransferable from the start; gated asks for an issuer   *)
(* capability on top of the agent's authorisation.                          *)
issue_reputation(issuer, agent, score, file_uri, gated, reputation) ==
  /\ score <= 100
  /\ file_uri # EmptyUri
  /\ gated => issuer \in issuers
  /\ verify_and_consume_feedback_auth(agent, issuer)
  /\ reputation \in ReputationAddresses \ DOMAIN objects
  /\ objects' = add(objects, reputation,
                    [owner |-> issuer, allow_ungated_transfer |-> FALSE])
  /\ untransferable' = untransferable \cup {reputation}
  /\ reputations' = add(reputations, reputation,
       [agent |-> agent, issuer |-> issuer, score |-> score,
        issued_at |-> now_seconds,
        feedback_index |-> feedback_auths[agent][issuer].last_index + 1,
        revoked |-> FALSE, response_count |-> 0])
  /\ epoch_of' = add(epoch_of, reputation, epochs[agent][issuer].number)
  /\ UNCHANGED <<microseconds, tombstones, agents, epochs, responses, issuers, admin>>

revoke_reputation(issuer, reputation) ==
  /\ contains(reputations, reputation)
  /\ reputations[reputation].issuer = issuer
  /\ ~reputations[reputation].revoked
  /\ reputations' = [reputations EXCEPT ![reputation].revoked = TRUE]
  /\ UNCHANGED <<microseconds, objectVars, agentVars,
                 responses, issuers, admin, epoch_of>>

\* Fault: no limit on the responses.
append_unlimited(responder, reputation, response) ==
  /\ contains(reputations, reputation)
  /\ response \in ResponseAddresses \ DOMAIN objects
  /\ objects' = with_object(response, responder)
  /\ responses' = add(responses, response,
       [reputation |-> reputation, responder |-> responder,
        timestamp |-> now_seconds,
        index |-> reputations[reputation].response_count])
  /\ reputations' = [reputations EXCEPT ![reputation].response_count = @ + 1]
  /\ UNCHANGED <<microseconds, untransferable, tombstones, agentVars,
                 issuers, admin, epoch_of>>

\* Fault: the index is read after the counter has been updated.
append_counted_first(responder, reputation, response) ==
  /\ contains(reputations, reputation)
  /\ reputations[reputation].response_count < MAX_RESPONSES
  /\ response \in ResponseAddresses \ DOMAIN objects
  /\ objects' = with_object(response, responder)
  /\ responses' = add(responses, response,
       [reputation |-> reputation, responder |-> responder,
        timestamp |-> now_seconds,
        index |-> reputations[reputation].response_count + 1])
  /\ reputations' = [reputations EXCEPT ![reputation].response_count = @ + 1]
  /\ UNCHANGED <<microseconds, untransferable, tombstones, agentVars,
                 issuers, admin, epoch_of>>

(* append_response.  The response is an object of the responder.            *)
append_response(responder, reputation, response) ==
  /\ contains(reputations, reputation)
  /\ reputations[reputation].response_count < MAX_RESPONSES
  /\ response \in ResponseAddresses \ DOMAIN objects
  /\ objects' = with_object(response, responder)
  /\ responses' = add(responses, response,
       [reputation |-> reputation, responder |-> responder,
        timestamp |-> now_seconds,
        index |-> reputations[reputation].response_count])
  /\ reputations' = [reputations EXCEPT ![reputation].response_count = @ + 1]
  /\ UNCHANGED <<microseconds, untransferable, tombstones, agentVars,
                 issuers, admin, epoch_of>>

grant_issuer_capability(signer, issuer) ==
  /\ signer = admin
  /\ issuer \notin issuers
  /\ issuers' = issuers \cup {issuer}
  /\ UNCHANGED <<microseconds, objectVars, agentVars,
                 reputations, responses, admin, epoch_of>>

(* revoke_issuer_capability; no abort without a capability                  *)
revoke_issuer_capability(signer, issuer) ==
  /\ signer = admin
  /\ issuers' = issuers \ {issuer}
  /\ UNCHANGED <<microseconds, objectVars, agentVars,
                 reputations, responses, admin, epoch_of>>

(* transfer_governance; the new admin is not asked                          *)
transfer_governance(signer, new_admin) ==
  /\ signer = admin
  /\ admin' = new_admin
  /\ UNCHANGED <<microseconds, objectVars, agentVars,
                 reputations, responses, issuers, epoch_of>>

-----------------------------------------------------------------------------
AgentStep ==
  /\ \E owner \in Accounts, agent \in AgentAddresses :
       \/ \E uri \in MetadataUris, domain \in Option(Domains) :
            create_agent(owner, agent, uri, domain)
       \/ \E client \in Clients, index_limit \in IndexLimits, expiry \in Expiries :
            grant_feedback_auth(owner, agent, client, index_limit, expiry)
       \/ \E client \in Clients : revoke_feedback_auth(owner, agent, client)
       \/ \E uri \in Option(MetadataUris), domain \in Option(Domains) :
            update_agent(owner, agent, uri, domain)
       \/ \E new_owner \in NewOwners : transfer_owner(owner, agent, new_owner)
  /\ UNCHANGED <<microseconds, reputationVars>>

ReputationStep ==
  \E signer \in Accounts :
    \/ \E agent \in AgentAddresses, score \in Scores, uri \in FileUris,
          gated \in BOOLEAN, reputation \in ReputationAddresses :
         issue_reputation(signer, agent, score, uri, gated, reputation)
    \/ \E reputation \in ReputationAddresses : revoke_reputation(signer, reputation)
    \/ \E reputation \in ReputationAddresses, response \in ResponseAddresses :
         append_response(signer, reputation, response)
    \/ \E address \in Candidates :
         \/ grant_issuer_capability(signer, address)
         \/ revoke_issuer_capability(signer, address)
         \/ transfer_governance(signer, address)

NextBlock ==
  /\ update_global_time
  /\ UNCHANGED <<objectVars, agentVars, reputationVars>>

Next == AgentStep \/ ReputationStep \/ NextBlock

Spec == Init /\ [][Next]_vars

-----------------------------------------------------------------------------
(* The values of the state: the resources of the three modules, the NFTs'   *)
(* counters within their bounds, and a history for every NFT.               *)
TypeOK ==
  /\ microseconds \in Timestamps \cup {0}
  /\ ObjectsTypeOK
  /\ AgentsTypeOK
  /\ IsTable(reputations, ReputationAddresses, ReputationNFT)
  /\ IsTable(responses, ResponseAddresses, ResponseRecord)
  /\ issuers \subseteq Addresses
  /\ admin \in Addresses
  /\ epoch_of \in [DOMAIN reputations -> Nat]

\* The NFTs that client issued under its number-th authorisation by agent.
Spent(agent, client, number) ==
  {n \in DOMAIN reputations :
     /\ reputations[n].agent = agent
     /\ reputations[n].issuer = client
     /\ epoch_of[n] = number}

\* The NFTs of S have the feedback indices 1 to last, one each.
Numbered(S, last) ==
  /\ {reputations[n].feedback_index : n \in S} = 1 .. last
  /\ \A m, n \in S : reputations[m].feedback_index = reputations[n].feedback_index => m = n

(* The authorisation in the agent's table accounts for the NFTs that were   *)
(* issued under it: they carry the indices 1 to last_index, each once, with *)
(* no gap, whatever the owner has granted again, lowered or raised since.   *)
(* The two modules keep the counter and the NFTs apart, so only the order   *)
(* of the calls in issue_reputation_internal relates them.                  *)
QuotaLedger ==
  \A agent \in DOMAIN agents : \A client \in DOMAIN feedback_auths[agent] :
    Numbered(Spent(agent, client, epochs[agent][client].number),
             feedback_auths[agent][client].last_index)

(* Under one authorisation a client never issues more than the largest      *)
(* limit that it was ever granted: a lower limit stops it, and raising the  *)
(* limit again gives back no index.                                         *)
RateLimited ==
  \A agent \in DOMAIN agents : \A client \in DOMAIN feedback_auths[agent] :
    /\ feedback_auths[agent][client].index_limit <= epochs[agent][client].high
    /\ feedback_auths[agent][client].last_index <= epochs[agent][client].high

ResponsesTo(reputation) ==
  {r \in DOMAIN responses : responses[r].reputation = reputation}

(* The responses to an NFT are numbered from 0 without gap or repetition,   *)
(* its response_count is their number, and every response is to an NFT that *)
(* exists.                                                                  *)
ResponsesNumbered ==
  /\ \A r \in DOMAIN responses : contains(reputations, responses[r].reputation)
  /\ \A n \in DOMAIN reputations :
       /\ {responses[r].index : r \in ResponsesTo(n)} = 0 .. reputations[n].response_count - 1
       /\ \A q, r \in ResponsesTo(n) : responses[q].index = responses[r].index => q = r

(* What the comment of feedback_index says: a monotonic index for each      *)
(* issuer and agent.                                                        *)
FeedbackIndexMonotonic ==
  [][\A n \in DOMAIN reputations' \ DOMAIN reputations, m \in DOMAIN reputations :
       /\ reputations[m].agent = reputations'[n].agent
       /\ reputations[m].issuer = reputations'[n].issuer
       => reputations[m].feedback_index < reputations'[n].feedback_index]_vars

(* What the AIP says of feedback that is not gated: it is permissionless,   *)
(* so an account that has no valid authorisation can issue an NFT.          *)
OpenFeedbackPermissionless ==
  \A issuer \in Accounts, agent \in DOMAIN agents :
    \A reputation \in ReputationAddresses \ DOMAIN objects :
      ENABLED issue_reputation(issuer, agent, 100, "file", FALSE, reputation)
=============================================================================
