------------------------- MODULE AgentFrameworkProofs -------------------------
(***************************************************************************)
(* Theorems about agent_reputation by itself and about the composition, for *)
(* every value of the constants: what is proved of agent_reputation survives*)
(* whatever accounts do with the objects behind it, and the NFTs are a      *)
(* ReputationLedger.                                                       *)
(***************************************************************************)
EXTENDS AgentFramework, MoveTableTheorems, ObjectCoreTheorems, FiniteSetTheorems

-----------------------------------------------------------------------------
(* The clock and the types of the records.                                 *)

\* Rounding down to seconds gives natural numbers.
LEMMA SecondsAreNaturals ==
  /\ Seconds \subseteq Nat
  /\ \A t \in Timestamps \cup {0} : t \div MICRO_CONVERSION_FACTOR \in Seconds
<1>1. ASSUME NEW t \in Nat
      PROVE  t \div MICRO_CONVERSION_FACTOR \in Nat
  BY ConversionFactorAssumption
<1> QED
  BY <1>1, TimestampsAssumption DEF Seconds

\* The clock read in seconds is one of the instants in seconds.
LEMMA NowIsASecond == TypeOK => now_seconds \in Seconds
  BY SecondsAreNaturals DEF TypeOK, now_seconds

\* A valid authorisation has an index left, which an NFT can carry.
LEMMA NextIndexIsAnIndex ==
  ASSUME TypeOK, NEW agent, NEW client, has_valid_feedback_auth(agent, client)
  PROVE  /\ agent \in AgentAddresses
         /\ agent \in DOMAIN feedback_auths
         /\ client \in DOMAIN feedback_auths[agent]
         /\ feedback_auths[agent][client] \in FeedbackAuth
         /\ feedback_auths[agent][client].last_index \in Nat
         /\ feedback_auths[agent][client].last_index + 1 \in FeedbackIndices
<1>1. /\ agent \in DOMAIN agents
      /\ client \in DOMAIN feedback_auths[agent]
      /\ feedback_auths[agent][client].last_index < feedback_auths[agent][client].index_limit
  BY DEF has_valid_feedback_auth, contains
<1>2. /\ agent \in AgentAddresses
      /\ agent \in DOMAIN feedback_auths
      /\ feedback_auths[agent][client] \in FeedbackAuth
  BY <1>1 DEF TypeOK, AgentsTypeOK, IsTable
<1>3. /\ feedback_auths[agent][client].last_index \in Nat
      /\ feedback_auths[agent][client].index_limit \in IndexLimits
      /\ feedback_auths[agent][client].index_limit \in Nat
  BY <1>2, GrantsAssumption DEF FeedbackAuth
<1>4. ASSUME NEW last \in Nat, NEW limit \in Nat, last < limit
      PROVE  last + 1 \in 1 .. limit
  BY <1>4
<1>5. feedback_auths[agent][client].last_index + 1
        \in 1 .. feedback_auths[agent][client].index_limit
  BY <1>1, <1>3, <1>4
<1> QED
  BY <1>1, <1>2, <1>3, <1>5 DEF FeedbackIndices

-----------------------------------------------------------------------------
(* Type correctness.                                                       *)

\* Publishing the modules leaves empty, well-typed tables (init_internal).
LEMMA TypeOKInitially == Init => TypeOK
<1> SUFFICES ASSUME Init PROVE TypeOK
  OBVIOUS
<1>1. ObjectsTypeOK
  BY NewTable DEF Init, InitObjects, ObjectsTypeOK
<1>2. AgentsTypeOK
  BY NewTable DEF Init, InitAgents, AgentsTypeOK, Epoch, new
<1>3. epoch_of \in [DOMAIN reputations -> Nat]
  BY DEF Init, new
<1>4. microseconds \in Timestamps \cup {0} /\ issuers \subseteq Addresses /\ admin \in Addresses
  BY DeployerAssumption DEF Init, InitTime, Addresses
<1> QED
  BY <1>1, <1>2, <1>3, <1>4, NewTable DEF Init, TypeOK

\* create_agent stores one fresh, well-typed agent.
LEMMA CreateAgentKeepsTypeOK ==
  ASSUME TypeOK, NEW creator \in Accounts, NEW agent \in AgentAddresses,
         NEW uri \in MetadataUris, NEW domain \in Option(Domains),
         create_agent(creator, agent, uri, domain),
         UNCHANGED <<microseconds, reputationVars>>
  PROVE  TypeOK'
<1> DEFINE core   == [owner |-> creator, allow_ungated_transfer |-> FALSE]
           record == [owner |-> creator, metadata_uri |-> uri, domain |-> domain]
<1>1. /\ objects' = add(objects, agent, core)
      /\ agents' = add(agents, agent, record)
      /\ feedback_auths' = add(feedback_auths, agent, new)
      /\ UNCHANGED <<untransferable, tombstones, epochs>>
      /\ record \in Agent /\ core \in Core
  BY DEF create_agent, Agent, Core, Addresses
<1>2. ObjectsTypeOK'
  <2>1. IsTable(objects, ObjectAddresses, Core)
    BY DEF TypeOK, ObjectsTypeOK
  <2>2. /\ IsTable(objects', ObjectAddresses, Core)
        /\ DOMAIN objects' = DOMAIN objects \cup {agent}
    BY <1>1, <2>1, AddToTable, AgentAddressesAssumption
  <2> QED
    BY <1>1, <2>2 DEF TypeOK, ObjectsTypeOK
<1>3. AgentsTypeOK'
  <2>1. IsTable(agents', AgentAddresses, Agent) /\ DOMAIN agents' = DOMAIN agents \cup {agent}
    <3>1. IsTable(agents, AgentAddresses, Agent)
      BY DEF TypeOK, AgentsTypeOK
    <3> QED
      BY <1>1, <3>1, AddToTable
  <2>2. feedback_auths' = [a \in DOMAIN agents' |-> feedback_auths'[a]]
    BY <1>1, <2>1 DEF TypeOK, AgentsTypeOK, add
  <2>3. \A a \in DOMAIN agents' : IsTable(feedback_auths'[a], Addresses, FeedbackAuth)
    BY <1>1, <2>1, NewTable DEF TypeOK, AgentsTypeOK, add
  <2> QED
    BY <1>1, <2>1, <2>2, <2>3 DEF TypeOK, AgentsTypeOK
<1> QED
  BY <1>2, <1>3 DEF TypeOK, reputationVars

\* A new value of one agent's table of authorisations.
LEMMA NewAuthsKeepTypeOK ==
  ASSUME TypeOK, NEW agent \in DOMAIN agents, NEW table,
         IsTable(table, Addresses, FeedbackAuth),
         feedback_auths' = [feedback_auths EXCEPT ![agent] = table],
         agents' = agents, epochs' \in [AgentAddresses -> [Addresses -> Epoch]]
  PROVE  AgentsTypeOK'
  BY DEF TypeOK, AgentsTypeOK

\* Both branches of grant_feedback_auth keep the stored authorizations
\* well-typed: the index and the limit stay natural numbers.
LEMMA GrantKeepsTypeOK ==
  ASSUME TypeOK, NEW owner \in Accounts, NEW agent \in AgentAddresses,
         NEW client \in Clients, NEW index_limit \in IndexLimits,
         NEW expiry \in Expiries,
         grant_feedback_auth(owner, agent, client, index_limit, expiry),
         UNCHANGED <<microseconds, reputationVars>>
  PROVE  TypeOK'
<1>1. /\ agent \in DOMAIN agents
      /\ IsTable(feedback_auths[agent], Addresses, FeedbackAuth)
      /\ epochs \in [AgentAddresses -> [Addresses -> Epoch]]
      /\ client \in Addresses
      /\ index_limit \in Nat
      /\ UNCHANGED <<objectVars, agents>>
  BY PartiesAssumption, GrantsAssumption
  DEF grant_feedback_auth, owned, contains, TypeOK, AgentsTypeOK
<1>2. ASSUME grant_first(agent, client, index_limit, expiry)
      PROVE  AgentsTypeOK'
  <2> DEFINE auth  == [index_limit |-> index_limit, expiry |-> expiry, last_index |-> 0]
             table == add(feedback_auths[agent], client, auth)
  <2>1. feedback_auths' = [feedback_auths EXCEPT ![agent] = table]
    BY <1>2 DEF grant_first
  <2>2. IsTable(table, Addresses, FeedbackAuth)
    BY <1>1, AddToTable DEF FeedbackAuth
  <2>3. epochs' \in [AgentAddresses -> [Addresses -> Epoch]]
    BY <1>1, <1>2 DEF grant_first, Epoch
  <2> QED
    BY <1>1, <2>1, <2>2, <2>3, NewAuthsKeepTypeOK
<1>3. ASSUME grant_again(agent, client, index_limit, expiry)
      PROVE  AgentsTypeOK'
  <2> DEFINE auth  == [index_limit |-> index_limit, expiry |-> expiry,
                       last_index |-> feedback_auths[agent][client].last_index]
             table == write(feedback_auths[agent], client, auth)
  <2>1. client \in DOMAIN feedback_auths[agent]
    BY <1>3 DEF grant_again, contains
  <2>2. feedback_auths[agent][client] \in FeedbackAuth
    BY <1>1, <2>1 DEF IsTable
  <2>3. auth \in FeedbackAuth
    BY <2>2 DEF FeedbackAuth
  <2>4. feedback_auths' = [feedback_auths EXCEPT ![agent] = table]
    BY <1>1, <1>3, <2>1 DEF grant_again, write, TypeOK, AgentsTypeOK, IsTable
  <2>5. IsTable(table, Addresses, FeedbackAuth)
    BY <1>1, <2>1, <2>3, WriteToTable
  <2>6. epochs' \in [AgentAddresses -> [Addresses -> Epoch]]
    BY <1>1, <1>3 DEF grant_again, Epoch
  <2> QED
    BY <1>1, <2>4, <2>5, <2>6, NewAuthsKeepTypeOK
<1>4. AgentsTypeOK'
  BY <1>2, <1>3 DEF grant_feedback_auth
<1> QED
  BY <1>1, <1>4 DEF TypeOK, ObjectsTypeOK, objectVars, reputationVars

\* revoke_feedback_auth only removes a key.
LEMMA RevokeAuthKeepsTypeOK ==
  ASSUME TypeOK, NEW owner \in Accounts, NEW agent \in AgentAddresses,
         NEW client \in Clients,
         revoke_feedback_auth(owner, agent, client),
         UNCHANGED <<microseconds, reputationVars>>
  PROVE  TypeOK'
<1> DEFINE table == remove(feedback_auths[agent], client)
<1>1. /\ agent \in DOMAIN agents
      /\ feedback_auths' = [feedback_auths EXCEPT ![agent] = table]
      /\ UNCHANGED <<objectVars, agents, epochs>>
  BY DEF revoke_feedback_auth, owned, contains
<1>2. /\ IsTable(feedback_auths[agent], Addresses, FeedbackAuth)
      /\ epochs \in [AgentAddresses -> [Addresses -> Epoch]]
  BY <1>1 DEF TypeOK, AgentsTypeOK
<1>3. IsTable(table, Addresses, FeedbackAuth)
  BY <1>2, RemoveFromTable
<1>4. AgentsTypeOK'
  BY <1>1, <1>2, <1>3, NewAuthsKeepTypeOK
<1> QED
  BY <1>1, <1>4 DEF TypeOK, ObjectsTypeOK, objectVars, reputationVars

\* Replacing one agent's record by a well-typed one keeps the table typed.
LEMMA NewRecordKeepsTypeOK ==
  ASSUME TypeOK, NEW agent \in DOMAIN agents, NEW record \in Agent,
         agents' = [agents EXCEPT ![agent] = record],
         UNCHANGED <<microseconds, objectVars, feedback_auths, epochs, reputationVars>>
  PROVE  TypeOK'
<1>1. IsTable(agents', AgentAddresses, Agent) /\ DOMAIN agents' = DOMAIN agents
  BY DEF TypeOK, AgentsTypeOK, IsTable
<1>2. AgentsTypeOK'
  BY <1>1 DEF TypeOK, AgentsTypeOK
<1> QED
  BY <1>2 DEF TypeOK, ObjectsTypeOK, objectVars, reputationVars

\* update_agent replaces the two optional fields it was given.
LEMMA UpdateAgentKeepsTypeOK ==
  ASSUME TypeOK, NEW owner \in Accounts, NEW agent \in AgentAddresses,
         NEW uri \in Option(MetadataUris), NEW domain \in Option(Domains),
         update_agent(owner, agent, uri, domain),
         UNCHANGED <<microseconds, reputationVars>>
  PROVE  TypeOK'
<1> DEFINE record == [owner        |-> agents[agent].owner,
                      metadata_uri |-> IF uri = {} THEN agents[agent].metadata_uri
                                       ELSE CHOOSE u \in uri : TRUE,
                      domain       |-> IF domain = {} THEN agents[agent].domain
                                       ELSE domain]
<1>1. /\ agent \in DOMAIN agents
      /\ EmptyUri \notin uri
      /\ UNCHANGED <<objectVars, feedback_auths, epochs>>
  BY DEF update_agent, owned, contains
<1>2. agents[agent] \in Agent /\ IsTable(agents, AgentAddresses, Agent)
  BY <1>1 DEF TypeOK, AgentsTypeOK, IsTable
<1>3. uri # {} => (CHOOSE u \in uri : TRUE) \in MetadataUris \ {EmptyUri}
  BY <1>1 DEF Option
<1>4. record \in Agent
  BY <1>2, <1>3 DEF Agent
<1>5. agents' = [agents EXCEPT ![agent] = record]
  BY DEF update_agent
<1> QED
  BY <1>1, <1>4, <1>5, NewRecordKeepsTypeOK

\* transfer_owner replaces the owner field by an account.
LEMMA TransferOwnerKeepsTypeOK ==
  ASSUME TypeOK, NEW owner \in Accounts, NEW agent \in AgentAddresses,
         NEW new_owner \in NewOwners,
         transfer_owner(owner, agent, new_owner),
         UNCHANGED <<microseconds, reputationVars>>
  PROVE  TypeOK'
<1> DEFINE record == [agents[agent] EXCEPT !.owner = new_owner]
<1>1. /\ agent \in DOMAIN agents
      /\ agents' = [agents EXCEPT ![agent] = record]
      /\ UNCHANGED <<objectVars, feedback_auths, epochs>>
  BY DEF transfer_owner, owned, contains
<1>2. agents[agent] \in Agent
  BY <1>1 DEF TypeOK, AgentsTypeOK, IsTable
<1>3. record \in Agent
  BY <1>2, PartiesAssumption DEF Agent
<1> QED
  BY <1>1, <1>3, NewRecordKeepsTypeOK

\* issue_reputation stores one fresh NFT and at most one consumed index.
LEMMA IssueKeepsTypeOK ==
  ASSUME TypeOK, NEW issuer \in Accounts, NEW agent \in AgentAddresses,
         NEW score \in Scores, NEW uri \in FileUris, NEW gated \in BOOLEAN,
         NEW reputation \in ReputationAddresses,
         issue_reputation(issuer, agent, score, uri, gated, reputation)
  PROVE  TypeOK'
<1> DEFINE core  == [owner |-> issuer, allow_ungated_transfer |-> FALSE]
           index == feedback_auths[agent][issuer].last_index + 1
           nft   == [agent |-> agent, issuer |-> issuer, score |-> score,
                     issued_at |-> now_seconds, feedback_index |-> index,
                     revoked |-> FALSE, response_count |-> 0]
           auth  == [feedback_auths[agent][issuer] EXCEPT !.last_index = @ + 1]
           table == write(feedback_auths[agent], issuer, auth)
<1>1. /\ score <= 100
      /\ has_valid_feedback_auth(agent, issuer)
      /\ objects' = add(objects, reputation, core)
      /\ untransferable' = untransferable \cup {reputation}
      /\ feedback_auths' = [feedback_auths EXCEPT ![agent] = table]
      /\ reputations' = add(reputations, reputation, nft)
      /\ epoch_of' = add(epoch_of, reputation, epochs[agent][issuer].number)
      /\ UNCHANGED <<microseconds, tombstones, agents, epochs, responses, issuers, admin>>
  BY DEF issue_reputation, verify_and_consume_feedback_auth, write
<1>2. /\ agent \in DOMAIN agents
      /\ IsTable(feedback_auths[agent], Addresses, FeedbackAuth)
      /\ issuer \in DOMAIN feedback_auths[agent]
      /\ feedback_auths[agent][issuer] \in FeedbackAuth
      /\ epochs \in [AgentAddresses -> [Addresses -> Epoch]]
  BY <1>1 DEF TypeOK, AgentsTypeOK, has_valid_feedback_auth, contains, IsTable
<1>3. index \in FeedbackIndices /\ feedback_auths[agent][issuer].last_index \in Nat
  BY <1>1, NextIndexIsAnIndex
<1>4. ObjectsTypeOK'
  <2>1. core \in Core /\ reputation \in ObjectAddresses
    BY ReputationAddressesAssumption DEF Core, Addresses
  <2>2. IsTable(objects, ObjectAddresses, Core)
    BY DEF TypeOK, ObjectsTypeOK
  <2>3. /\ IsTable(objects', ObjectAddresses, Core)
        /\ DOMAIN objects' = DOMAIN objects \cup {reputation}
    <3>1. objects' = add(objects, reputation, core)
      BY <1>1
    <3> HIDE DEF core
    <3>2. /\ IsTable(add(objects, reputation, core), ObjectAddresses, Core)
          /\ DOMAIN add(objects, reputation, core) = DOMAIN objects \cup {reputation}
      BY <2>1, <2>2, AddToTable
    <3> QED
      BY <3>1, <3>2
  <2>4. ObjectsTypeOK
    BY DEF TypeOK
  <2> QED
    BY <1>1, <2>3, <2>4 DEF ObjectsTypeOK
<1>5. AgentsTypeOK'
  <2>1. auth \in FeedbackAuth
    BY <1>2, <1>3 DEF FeedbackAuth
  <2>2. IsTable(table, Addresses, FeedbackAuth)
    BY <1>2, <2>1, WriteToTable
  <2> QED
    BY <1>1, <1>2, <2>2, NewAuthsKeepTypeOK
<1>6. /\ IsTable(reputations', ReputationAddresses, ReputationNFT)
      /\ DOMAIN reputations' = DOMAIN reputations \cup {reputation}
  <2>1. nft \in ReputationNFT
    BY <1>1, <1>3, NowIsASecond, MaxResponsesAssumption
    DEF ReputationNFT, AcceptedScores
  <2>2. IsTable(reputations, ReputationAddresses, ReputationNFT)
    BY DEF TypeOK
  <2> HIDE DEF nft
  <2> QED
    BY <1>1, <2>1, <2>2, AddToTable
<1>7. epoch_of' \in [DOMAIN reputations' -> Nat]
  <2>1. epochs[agent][issuer].number \in Nat
    BY <1>2 DEF Epoch, Addresses
  <2> QED
    BY <1>1, <1>6, <2>1 DEF TypeOK, add
<1> QED
  BY <1>1, <1>4, <1>5, <1>6, <1>7 DEF TypeOK

\* A new value of one NFT.
LEMMA NewNFTKeepsTables ==
  ASSUME TypeOK, NEW n \in DOMAIN reputations, NEW nft \in ReputationNFT,
         reputations' = [reputations EXCEPT ![n] = nft], epoch_of' = epoch_of
  PROVE  /\ IsTable(reputations', ReputationAddresses, ReputationNFT)
         /\ epoch_of' \in [DOMAIN reputations' -> Nat]
  BY DEF TypeOK, IsTable

\* revoke_reputation only sets the revoked flag.
LEMMA RevokeReputationKeepsTypeOK ==
  ASSUME TypeOK, NEW issuer \in Accounts, NEW reputation \in ReputationAddresses,
         revoke_reputation(issuer, reputation)
  PROVE  TypeOK'
<1> DEFINE nft == [reputations[reputation] EXCEPT !.revoked = TRUE]
<1>1. /\ reputation \in DOMAIN reputations
      /\ reputations' = [reputations EXCEPT ![reputation] = nft]
      /\ UNCHANGED <<microseconds, objectVars, agentVars,
                     responses, issuers, admin, epoch_of>>
  BY DEF revoke_reputation, contains
<1>2. nft \in ReputationNFT
  BY <1>1 DEF TypeOK, IsTable, ReputationNFT
<1>3. /\ IsTable(reputations', ReputationAddresses, ReputationNFT)
      /\ epoch_of' \in [DOMAIN reputations' -> Nat]
  BY <1>1, <1>2, NewNFTKeepsTables
<1> QED
  BY <1>1, <1>3 DEF TypeOK, ObjectsTypeOK, AgentsTypeOK, objectVars, agentVars

\* append_response keeps the counter within MAX_RESPONSES because it is
\* tested before it is incremented.
LEMMA AppendResponseKeepsTypeOK ==
  ASSUME TypeOK, NEW responder \in Accounts, NEW reputation \in ReputationAddresses,
         NEW response \in ResponseAddresses,
         append_response(responder, reputation, response)
  PROVE  TypeOK'
<1> DEFINE core   == [owner |-> responder, allow_ungated_transfer |-> TRUE]
           record == [reputation |-> reputation, responder |-> responder,
                      timestamp |-> now_seconds,
                      index |-> reputations[reputation].response_count]
           nft    == [reputations[reputation] EXCEPT !.response_count = @ + 1]
<1>1. /\ reputation \in DOMAIN reputations
      /\ reputations[reputation].response_count < MAX_RESPONSES
      /\ objects' = add(objects, response, core)
      /\ responses' = add(responses, response, record)
      /\ reputations' = [reputations EXCEPT ![reputation] = nft]
      /\ UNCHANGED <<microseconds, untransferable, tombstones, agentVars,
                     issuers, admin, epoch_of>>
  BY DEF append_response, contains, with_object
<1>2. reputations[reputation] \in ReputationNFT
  BY <1>1 DEF TypeOK, IsTable
<1>3. /\ reputations[reputation].response_count \in Nat
      /\ reputations[reputation].response_count + 1 \in 0 .. MAX_RESPONSES
  BY <1>1, <1>2, MaxResponsesAssumption DEF ReputationNFT
<1>4. nft \in ReputationNFT
  BY <1>2, <1>3 DEF ReputationNFT
<1>5. /\ IsTable(reputations', ReputationAddresses, ReputationNFT)
      /\ epoch_of' \in [DOMAIN reputations' -> Nat]
  BY <1>1, <1>4, NewNFTKeepsTables
<1>6. ObjectsTypeOK'
  <2>1. core \in Core /\ response \in ObjectAddresses
    BY ReputationAddressesAssumption DEF Core, Addresses
  <2>2. IsTable(objects, ObjectAddresses, Core)
    BY DEF TypeOK, ObjectsTypeOK
  <2>3. /\ IsTable(objects', ObjectAddresses, Core)
        /\ DOMAIN objects' = DOMAIN objects \cup {response}
    BY <1>1, <2>1, <2>2, AddToTable
  <2>4. ObjectsTypeOK
    BY DEF TypeOK
  <2> QED
    BY <1>1, <2>3, <2>4 DEF ObjectsTypeOK
<1>7. IsTable(responses', ResponseAddresses, ResponseRecord)
  <2>1. record \in ResponseRecord
    BY <1>3, NowIsASecond DEF ResponseRecord
  <2>2. IsTable(responses, ResponseAddresses, ResponseRecord)
    BY DEF TypeOK
  <2> QED
    BY <1>1, <2>1, <2>2, AddToTable
<1> QED
  BY <1>1, <1>5, <1>6, <1>7 DEF TypeOK, AgentsTypeOK, agentVars

\* The capability list and the governance address keep their types.
LEMMA GovernanceKeepsTypeOK ==
  ASSUME TypeOK, NEW signer \in Accounts, NEW address \in Candidates,
         \/ grant_issuer_capability(signer, address)
         \/ revoke_issuer_capability(signer, address)
         \/ transfer_governance(signer, address)
  PROVE  TypeOK'
<1>1. /\ issuers' \subseteq Addresses /\ admin' \in Addresses
      /\ UNCHANGED <<microseconds, objectVars, agentVars,
                     reputations, responses, epoch_of>>
  BY CandidatesAssumption
  DEF TypeOK, grant_issuer_capability, revoke_issuer_capability, transfer_governance
<1> QED
  BY <1>1 DEF TypeOK, ObjectsTypeOK, AgentsTypeOK, objectVars, agentVars

\* A new block changes only the clock, a stuttering step nothing.
LEMMA ClockAndStutteringKeepTypeOK ==
  ASSUME TypeOK, NextBlock \/ UNCHANGED vars
  PROVE  TypeOK'
<1>1. /\ microseconds' \in Timestamps \cup {0}
      /\ UNCHANGED <<objectVars, agentVars, reputationVars>>
  BY DEF NextBlock, update_global_time, vars, TypeOK
<1> QED
  BY <1>1 DEF TypeOK, ObjectsTypeOK, AgentsTypeOK, objectVars, agentVars, reputationVars

\* TypeOK is inductive: one case per entry function.
LEMMA StepKeepsTypeOK == TypeOK /\ [Next]_vars => TypeOK'
<1> SUFFICES ASSUME TypeOK, [Next]_vars PROVE TypeOK'
  OBVIOUS
<1>1. CASE AgentStep
  BY <1>1, CreateAgentKeepsTypeOK, GrantKeepsTypeOK, RevokeAuthKeepsTypeOK,
     UpdateAgentKeepsTypeOK, TransferOwnerKeepsTypeOK DEF AgentStep
<1>2. CASE ReputationStep
  BY <1>2, IssueKeepsTypeOK, RevokeReputationKeepsTypeOK, AppendResponseKeepsTypeOK,
     GovernanceKeepsTypeOK DEF ReputationStep
<1> QED
  BY <1>1, <1>2, ClockAndStutteringKeepTypeOK DEF Next

(* Every reachable state of agents, NFTs and responses is well typed.       *)
THEOREM TypeCorrect == Spec => []TypeOK
<1> QED
  BY TypeOKInitially, StepKeepsTypeOK, PTL DEF Spec

-----------------------------------------------------------------------------
(* Quotas.                                                                 *)

(* The strengthening that makes QuotaLedger inductive: no NFT was issued    *)
(* under an authorisation that is still to come.                            *)
EpochsInThePast ==
  \A n \in DOMAIN reputations :
    epoch_of[n] <= epochs[reputations[n].agent][reputations[n].issuer].number

\* With no agent and no grant, the ledger properties hold vacuously.
LEMMA EpochsInitially == Init => EpochsInThePast /\ QuotaLedger /\ RateLimited
  BY DEF Init, InitAgents, EpochsInThePast, QuotaLedger, RateLimited, new

\* The histories of a step that issues no NFT only move forward.
LEMMA EpochsMoveForward ==
  ASSUME TypeOK, EpochsInThePast,
         DOMAIN reputations' = DOMAIN reputations,
         \A n \in DOMAIN reputations : /\ reputations'[n].agent = reputations[n].agent
                                      /\ reputations'[n].issuer = reputations[n].issuer,
         epoch_of' = epoch_of,
         epochs' \in [AgentAddresses -> [Addresses -> Epoch]],
         \A a \in AgentAddresses, c \in Addresses :
           epochs[a][c].number <= epochs'[a][c].number
  PROVE  EpochsInThePast'
<1> SUFFICES ASSUME NEW n \in DOMAIN reputations
             PROVE  epoch_of[n] <= epochs'[reputations[n].agent][reputations[n].issuer].number
  BY DEF EpochsInThePast
<1> DEFINE a == reputations[n].agent
           c == reputations[n].issuer
<1>1. a \in AgentAddresses /\ c \in Addresses
  BY DEF TypeOK, IsTable, ReputationNFT, Addresses
<1>2. epoch_of[n] \in Nat /\ epochs[a][c].number \in Nat /\ epochs'[a][c].number \in Nat
  BY <1>1 DEF TypeOK, AgentsTypeOK, Epoch
<1>3. epoch_of[n] <= epochs[a][c].number /\ epochs[a][c].number <= epochs'[a][c].number
  BY <1>1 DEF EpochsInThePast
<1> QED
  BY <1>2, <1>3

\* Spent and Numbered with the state they look at as parameters.
SpentIn(nfts, history, a, c, k) ==
  {n \in DOMAIN nfts : nfts[n].agent = a /\ nfts[n].issuer = c /\ history[n] = k}

NumberedIn(nfts, S, last) ==
  /\ {nfts[n].feedback_index : n \in S} = 1 .. last
  /\ \A m, n \in S : nfts[m].feedback_index = nfts[n].feedback_index => m = n

Accounted(nfts, history, a, c, k, last) ==
  NumberedIn(nfts, SpentIn(nfts, history, a, c, k), last)

\* A form of QuotaLedger with the cardinality of the issued NFTs of one
\* epoch replaced by facts the provers can use.
LEMMA QuotaLedgerUnfolded ==
  /\ QuotaLedger <=>
       \A a \in DOMAIN agents : \A c \in DOMAIN feedback_auths[a] :
         Accounted(reputations, epoch_of, a, c, epochs[a][c].number,
                   feedback_auths[a][c].last_index)
  /\ QuotaLedger' <=>
       \A a \in DOMAIN agents' : \A c \in DOMAIN feedback_auths'[a] :
         Accounted(reputations', epoch_of', a, c, epochs'[a][c].number,
                   feedback_auths'[a][c].last_index)
  BY DEF QuotaLedger, Numbered, Spent, Accounted, NumberedIn, SpentIn

\* Nothing has been issued under an authorisation that is still to come.
LEMMA FreshIsAccounted ==
  ASSUME TypeOK, EpochsInThePast, NEW a \in AgentAddresses, NEW c \in Addresses,
         NEW k, k = epochs[a][c].number + 1
  PROVE  Accounted(reputations, epoch_of, a, c, k, 0)
<1>1. epochs[a][c].number \in Nat
  BY DEF TypeOK, AgentsTypeOK, Epoch
<1>2. ASSUME NEW n \in DOMAIN reputations, reputations[n].agent = a,
             reputations[n].issuer = c
      PROVE  epoch_of[n] # k
  <2>1. epoch_of[n] \in Nat /\ epoch_of[n] <= epochs[a][c].number
    BY <1>2 DEF TypeOK, EpochsInThePast
  <2> QED
    BY <1>1, <2>1
<1>3. SpentIn(reputations, epoch_of, a, c, k) = {}
  BY <1>2 DEF SpentIn
<1> QED
  BY <1>3 DEF Accounted, NumberedIn

\* The next NFT under an authorisation takes the next index.
LEMMA IssuedIsAccounted ==
  ASSUME NEW nfts, NEW history, DOMAIN history = DOMAIN nfts,
         NEW a, NEW c, NEW k, NEW last \in Nat,
         Accounted(nfts, history, a, c, k, last),
         NEW n, n \notin DOMAIN nfts, NEW nft,
         nft.agent = a, nft.issuer = c, nft.feedback_index = last + 1
  PROVE  Accounted(add(nfts, n, nft), add(history, n, k), a, c, k, last + 1)
<1> DEFINE nfts2 == add(nfts, n, nft)
           history2 == add(history, n, k)
           S  == SpentIn(nfts, history, a, c, k)
           S2 == SpentIn(nfts2, history2, a, c, k)
<1>1. /\ DOMAIN nfts2 = DOMAIN nfts \cup {n} /\ nfts2[n] = nft
      /\ \A m \in DOMAIN nfts : nfts2[m] = nfts[m]
  BY DEF add
<1>2. history2[n] = k /\ \A m \in DOMAIN nfts : history2[m] = history[m]
  BY DEF add
<1> HIDE DEF nfts2, history2
<1>3. S2 = S \cup {n}
  <2>1. n \in S2
    BY <1>1, <1>2 DEF SpentIn
  <2>2. \A m \in DOMAIN nfts : m \in S2 <=> m \in S
    BY <1>1, <1>2 DEF SpentIn
  <2>3. S2 \subseteq DOMAIN nfts \cup {n} /\ S \subseteq DOMAIN nfts
    BY <1>1 DEF SpentIn
  <2> QED
    BY <2>1, <2>2, <2>3
<1>4. S \subseteq DOMAIN nfts
  BY DEF SpentIn
<1>5. /\ {nfts[m].feedback_index : m \in S} = 1 .. last
      /\ \A l, m \in S : nfts[l].feedback_index = nfts[m].feedback_index => l = m
  BY DEF Accounted, NumberedIn
<1> HIDE DEF S, S2
<1>6. /\ nfts2[n].feedback_index = last + 1
      /\ \A m \in S : /\ nfts2[m].feedback_index = nfts[m].feedback_index
                      /\ nfts2[m].feedback_index \in 1 .. last
  BY <1>1, <1>4, <1>5
<1>7. {nfts2[m].feedback_index : m \in S2} = 1 .. last + 1
  <2>1. {nfts2[m].feedback_index : m \in S2} = {nfts[m].feedback_index : m \in S} \cup {last + 1}
    BY <1>3, <1>6
  <2>2. (1 .. last) \cup {last + 1} = 1 .. last + 1
    OBVIOUS
  <2> QED
    BY <1>5, <2>1, <2>2
<1>8. ASSUME NEW l \in S2, NEW m \in S2,
             nfts2[l].feedback_index = nfts2[m].feedback_index
      PROVE  l = m
  <2>1. CASE l \in S /\ m \in S
    BY <1>5, <1>6, <1>8, <2>1
  <2>2. last + 1 \notin 1 .. last
    OBVIOUS
  <2> QED
    BY <1>3, <1>6, <1>8, <2>1, <2>2
<1> QED
  BY <1>7, <1>8 DEF Accounted, NumberedIn, S2, nfts2, history2

\* An NFT of another issuer, agent or authorisation changes nothing here.
LEMMA OtherIssuesAreIrrelevant ==
  ASSUME NEW nfts, NEW history, DOMAIN history = DOMAIN nfts,
         NEW a, NEW c, NEW k, NEW last,
         Accounted(nfts, history, a, c, k, last),
         NEW n, n \notin DOMAIN nfts, NEW nft, NEW number,
         nft.agent # a \/ nft.issuer # c
  PROVE  Accounted(add(nfts, n, nft), add(history, n, number), a, c, k, last)
<1> DEFINE nfts2 == add(nfts, n, nft)
           history2 == add(history, n, number)
           S == SpentIn(nfts, history, a, c, k)
<1>1. /\ DOMAIN nfts2 = DOMAIN nfts \cup {n} /\ nfts2[n] = nft
      /\ \A m \in DOMAIN nfts : nfts2[m] = nfts[m] /\ history2[m] = history[m]
  BY DEF add
<1> HIDE DEF nfts2, history2
<1>2. SpentIn(nfts2, history2, a, c, k) = S
  BY <1>1 DEF SpentIn
<1>3. \A m \in S : nfts2[m].feedback_index = nfts[m].feedback_index
  BY <1>1 DEF SpentIn
<1> HIDE DEF S
<1>4. NumberedIn(nfts, S, last)
  BY DEF Accounted, S
<1>5. NumberedIn(nfts2, S, last)
  <2>1. {nfts2[m].feedback_index : m \in S} = {nfts[m].feedback_index : m \in S}
    BY <1>3
  <2> QED
    BY <1>3, <1>4, <2>1 DEF NumberedIn
<1> QED
  BY <1>2, <1>5 DEF Accounted, nfts2, history2

\* NFTs that keep agent, issuer and index account for the same.
LEMMA SameNftsAreAccounted ==
  ASSUME NEW nfts, NEW nfts2, NEW history, NEW a, NEW c, NEW k, NEW last,
         DOMAIN nfts2 = DOMAIN nfts,
         \A n \in DOMAIN nfts : /\ nfts2[n].agent = nfts[n].agent
                                /\ nfts2[n].issuer = nfts[n].issuer
                                /\ nfts2[n].feedback_index = nfts[n].feedback_index,
         Accounted(nfts, history, a, c, k, last)
  PROVE  Accounted(nfts2, history, a, c, k, last)
<1> DEFINE S == SpentIn(nfts, history, a, c, k)
<1>1. SpentIn(nfts2, history, a, c, k) = S
  BY DEF SpentIn
<1>2. S \subseteq DOMAIN nfts
  BY DEF SpentIn
<1> HIDE DEF S
<1>3. NumberedIn(nfts, S, last)
  BY DEF Accounted, S
<1>4. {nfts2[n].feedback_index : n \in S} = {nfts[n].feedback_index : n \in S}
  BY <1>2
<1> QED
  BY <1>1, <1>2, <1>3, <1>4 DEF Accounted, NumberedIn

\* An NFT's address is the address of an object, so no address is used twice.
NftsAreObjects == DOMAIN reputations \subseteq DOMAIN objects

QuotaInv == TypeOK /\ NftsAreObjects /\ EpochsInThePast /\ QuotaLedger /\ RateLimited

\* What a step does to an authorisation, when it issues no NFT under it.
Carried(a, c) ==
  /\ a \in DOMAIN agents /\ c \in DOMAIN feedback_auths[a]
  /\ epochs'[a][c].number = epochs[a][c].number
  /\ feedback_auths'[a][c].last_index = feedback_auths[a][c].last_index

Fresh(a, c) ==
  /\ epochs'[a][c].number = epochs[a][c].number + 1
  /\ feedback_auths'[a][c].last_index = 0

\* A step that issues no NFT, and authorises afresh or carries on.
LEMMA QuietStep ==
  ASSUME QuotaInv, TypeOK',
         DOMAIN reputations' = DOMAIN reputations,
         \A n \in DOMAIN reputations :
           /\ reputations'[n].agent = reputations[n].agent
           /\ reputations'[n].issuer = reputations[n].issuer
           /\ reputations'[n].feedback_index = reputations[n].feedback_index,
         epoch_of' = epoch_of,
         \A a \in AgentAddresses, c \in Addresses :
           epochs[a][c].number <= epochs'[a][c].number,
         \A a \in DOMAIN agents' : \A c \in DOMAIN feedback_auths'[a] :
           Carried(a, c) \/ Fresh(a, c)
  PROVE  EpochsInThePast' /\ QuotaLedger'
<1>1. EpochsInThePast'
  BY EpochsMoveForward DEF QuotaInv, TypeOK, AgentsTypeOK
<1>2. ASSUME NEW a \in DOMAIN agents', NEW c \in DOMAIN feedback_auths'[a]
      PROVE  Accounted(reputations', epoch_of', a, c, epochs'[a][c].number,
                       feedback_auths'[a][c].last_index)
  <2>1. a \in AgentAddresses /\ c \in Addresses
    BY <1>2 DEF TypeOK, AgentsTypeOK, IsTable
  <2>2. Accounted(reputations, epoch_of, a, c, epochs'[a][c].number,
                  feedback_auths'[a][c].last_index)
    <3>1. CASE Carried(a, c)
      BY <3>1, QuotaLedgerUnfolded DEF QuotaInv, Carried
    <3>2. CASE Fresh(a, c)
      BY <2>1, <3>2, FreshIsAccounted DEF QuotaInv, Fresh
    <3> QED
      BY <1>2, <3>1, <3>2
  <2> QED
    BY <2>2, SameNftsAreAccounted
<1> QED
  BY <1>1, <1>2, QuotaLedgerUnfolded

\* The steps that leave the authorisations alone and issue no NFT.
LEMMA UntouchedAuths ==
  ASSUME QuotaInv, TypeOK',
         DOMAIN reputations' = DOMAIN reputations,
         \A n \in DOMAIN reputations :
           /\ reputations'[n].agent = reputations[n].agent
           /\ reputations'[n].issuer = reputations[n].issuer
           /\ reputations'[n].feedback_index = reputations[n].feedback_index,
         DOMAIN agents' = DOMAIN agents,
         DOMAIN objects \subseteq DOMAIN objects',
         UNCHANGED <<feedback_auths, epochs, epoch_of>>
  PROVE  QuotaInv'
<1>1. \A a \in AgentAddresses, c \in Addresses : epochs[a][c].number <= epochs'[a][c].number
  BY DEF QuotaInv, TypeOK, AgentsTypeOK, Epoch
<1>2. \A a \in DOMAIN agents' : \A c \in DOMAIN feedback_auths'[a] : Carried(a, c)
  BY DEF Carried
<1>3. EpochsInThePast' /\ QuotaLedger'
  BY <1>1, <1>2, QuietStep
<1>4. RateLimited'
  BY DEF QuotaInv, RateLimited
<1> QED
  BY <1>3, <1>4 DEF QuotaInv, NftsAreObjects

\* A fresh agent has no authorization and no NFT refers to it.
LEMMA CreateAgentKeepsQuotas ==
  ASSUME QuotaInv, TypeOK', NEW creator, NEW agent, NEW uri, NEW domain,
         create_agent(creator, agent, uri, domain),
         UNCHANGED <<microseconds, reputationVars>>
  PROVE  QuotaInv'
<1>1. /\ DOMAIN agents' = DOMAIN agents \cup {agent}
      /\ feedback_auths' = add(feedback_auths, agent, new)
      /\ DOMAIN objects' = DOMAIN objects \cup {agent}
      /\ UNCHANGED <<epochs, reputations, epoch_of>>
  BY DEF create_agent, add, reputationVars
<1>2. DOMAIN feedback_auths'[agent] = {}
  BY <1>1 DEF add, new
<1>3. ASSUME NEW a \in DOMAIN agents', NEW c \in DOMAIN feedback_auths'[a]
      PROVE  /\ a \in DOMAIN agents
             /\ feedback_auths'[a] = feedback_auths[a]
  <2>1. a # agent /\ a \in DOMAIN agents
    BY <1>1, <1>2, <1>3
  <2>2. a \in DOMAIN feedback_auths
    BY <2>1 DEF QuotaInv, TypeOK, AgentsTypeOK
  <2> QED
    BY <1>1, <2>1, <2>2 DEF add
<1>4. EpochsInThePast' /\ QuotaLedger'
  <2>1. \A a \in AgentAddresses, c \in Addresses : epochs[a][c].number <= epochs'[a][c].number
    BY <1>1 DEF QuotaInv, TypeOK, AgentsTypeOK, Epoch
  <2>2. \A a \in DOMAIN agents' : \A c \in DOMAIN feedback_auths'[a] : Carried(a, c)
    BY <1>1, <1>3 DEF Carried
  <2> QED
    BY <1>1, <2>1, <2>2, QuietStep
<1>5. RateLimited'
  BY <1>1, <1>3 DEF QuotaInv, RateLimited
<1> QED
  BY <1>1, <1>4, <1>5 DEF QuotaInv, NftsAreObjects

\* A grant leaves the other authorisations as they are.
OnlyAuthorises(agent, client) ==
  /\ agent \in DOMAIN agents /\ agent \in AgentAddresses /\ client \in Addresses
  /\ DOMAIN agents' = DOMAIN agents /\ UNCHANGED objects
  /\ \A a \in DOMAIN agents : a # agent => feedback_auths'[a] = feedback_auths[a]
  /\ DOMAIN feedback_auths'[agent] = DOMAIN feedback_auths[agent] \cup {client}
  /\ \A c \in DOMAIN feedback_auths[agent] :
       c # client => feedback_auths'[agent][c] = feedback_auths[agent][c]
  /\ \A a \in AgentAddresses, c \in Addresses :
       a # agent \/ c # client => epochs'[a][c] = epochs[a][c]

\* What a grant may change: one authorization, whose last index it keeps
\* (grant_again) or starts at zero in a new epoch (grant_first).
LEMMA GrantsOnlyAuthorise ==
  ASSUME QuotaInv, NEW owner, NEW agent, NEW client \in Clients,
         NEW index_limit \in IndexLimits, NEW expiry,
         grant_feedback_auth(owner, agent, client, index_limit, expiry)
  PROVE  /\ OnlyAuthorises(agent, client)
         /\ feedback_auths'[agent][client].index_limit = index_limit
<1>1. /\ agent \in DOMAIN agents /\ agent \in AgentAddresses /\ agent \in DOMAIN feedback_auths
      /\ client \in Addresses /\ UNCHANGED <<agents, objects>>
  BY PartiesAssumption
  DEF grant_feedback_auth, owned, contains, QuotaInv, TypeOK, AgentsTypeOK, IsTable, objectVars
<1>2. epochs \in [AgentAddresses -> [Addresses -> Epoch]]
  BY DEF QuotaInv, TypeOK, AgentsTypeOK
<1>3. CASE grant_first(agent, client, index_limit, expiry)
  BY <1>1, <1>2, <1>3 DEF grant_first, add, OnlyAuthorises
<1>4. CASE grant_again(agent, client, index_limit, expiry)
  <2> DEFINE auth == [index_limit |-> index_limit, expiry |-> expiry,
                      last_index |-> feedback_auths[agent][client].last_index]
  <2>1. /\ client \in DOMAIN feedback_auths[agent]
        /\ feedback_auths' = [feedback_auths EXCEPT ![agent][client] = auth]
    BY <1>4 DEF grant_again, contains
  <2>2. auth.index_limit = index_limit
    OBVIOUS
  <2> HIDE DEF auth
  <2>3. /\ \A a \in DOMAIN agents : a # agent => feedback_auths'[a] = feedback_auths[a]
        /\ DOMAIN feedback_auths'[agent] = DOMAIN feedback_auths[agent] \cup {client}
        /\ feedback_auths'[agent][client].index_limit = index_limit
        /\ \A c \in DOMAIN feedback_auths[agent] :
             c # client => feedback_auths'[agent][c] = feedback_auths[agent][c]
    <3>1. DOMAIN feedback_auths = DOMAIN agents
      BY DEF QuotaInv, TypeOK, AgentsTypeOK
    <3> QED
      BY <1>1, <2>1, <2>2, <3>1
  <2>4. \A a \in AgentAddresses, c \in Addresses :
          a # agent \/ c # client => epochs'[a][c] = epochs[a][c]
    BY <1>1, <1>2, <1>4 DEF grant_again
  <2> QED
    BY <1>1, <2>3, <2>4 DEF OnlyAuthorises
<1> QED
  BY <1>3, <1>4 DEF grant_feedback_auth

\* What the grant does to the authorisation that it is for.
LEMMA GrantedAuth ==
  ASSUME QuotaInv, NEW owner, NEW agent, NEW client \in Clients,
         NEW index_limit \in IndexLimits, NEW expiry,
         grant_feedback_auth(owner, agent, client, index_limit, expiry)
  PROVE  /\ Carried(agent, client) \/ Fresh(agent, client)
         /\ epochs[agent][client].number <= epochs'[agent][client].number
         /\ index_limit <= epochs'[agent][client].high
         /\ feedback_auths'[agent][client].last_index <= epochs'[agent][client].high
<1>1. /\ agent \in DOMAIN agents /\ agent \in AgentAddresses /\ agent \in DOMAIN feedback_auths
      /\ client \in Addresses /\ index_limit \in Nat
  BY PartiesAssumption, GrantsAssumption
  DEF grant_feedback_auth, owned, contains, QuotaInv, TypeOK, AgentsTypeOK, IsTable
<1>2. /\ epochs \in [AgentAddresses -> [Addresses -> Epoch]]
      /\ epochs[agent][client].number \in Nat /\ epochs[agent][client].high \in Nat
  BY <1>1 DEF QuotaInv, TypeOK, AgentsTypeOK, Epoch
<1>3. CASE grant_first(agent, client, index_limit, expiry)
  <2>1. /\ epochs'[agent][client] =
             [number |-> epochs[agent][client].number + 1, high |-> index_limit]
        /\ feedback_auths'[agent][client].last_index = 0
    BY <1>1, <1>2, <1>3 DEF grant_first, add
  <2> QED
    BY <1>1, <1>2, <2>1 DEF Fresh
<1>4. CASE grant_again(agent, client, index_limit, expiry)
  <2>1. client \in DOMAIN feedback_auths[agent]
    BY <1>4 DEF grant_again, contains
  <2>2. /\ epochs'[agent][client].number = epochs[agent][client].number
        /\ epochs'[agent][client].high = IF index_limit > epochs[agent][client].high
                                         THEN index_limit ELSE epochs[agent][client].high
        /\ feedback_auths'[agent][client].last_index = feedback_auths[agent][client].last_index
    BY <1>1, <1>2, <1>4, <2>1 DEF grant_again
  <2>3. /\ feedback_auths[agent][client].last_index <= epochs[agent][client].high
        /\ feedback_auths[agent][client].last_index \in Nat
    BY <1>1, <2>1 DEF QuotaInv, RateLimited, TypeOK, AgentsTypeOK, IsTable, FeedbackAuth
  <2> QED
    BY <1>1, <1>2, <2>1, <2>2, <2>3 DEF Carried
<1> QED
  BY <1>3, <1>4 DEF grant_feedback_auth

\* A grant issues nothing and never lowers last_index within an epoch.
LEMMA GrantKeepsQuotas ==
  ASSUME QuotaInv, TypeOK', NEW owner, NEW agent, NEW client \in Clients,
         NEW index_limit \in IndexLimits, NEW expiry,
         grant_feedback_auth(owner, agent, client, index_limit, expiry),
         UNCHANGED <<microseconds, reputationVars>>
  PROVE  QuotaInv'
<1>1. UNCHANGED <<reputations, epoch_of>>
  BY DEF reputationVars
<1>2. \A a \in AgentAddresses, c \in Addresses : epochs[a][c].number \in Nat
  BY DEF QuotaInv, TypeOK, AgentsTypeOK, Epoch
<1>3. /\ OnlyAuthorises(agent, client)
      /\ feedback_auths'[agent][client].index_limit = index_limit
  BY GrantsOnlyAuthorise
<1>4. /\ Carried(agent, client) \/ Fresh(agent, client)
      /\ epochs[agent][client].number <= epochs'[agent][client].number
      /\ index_limit <= epochs'[agent][client].high
      /\ feedback_auths'[agent][client].last_index <= epochs'[agent][client].high
  BY GrantedAuth
<1>5. ASSUME NEW a \in DOMAIN agents', NEW c \in DOMAIN feedback_auths'[a],
             ~(a = agent /\ c = client)
      PROVE  /\ a \in DOMAIN agents /\ c \in DOMAIN feedback_auths[a]
             /\ feedback_auths'[a][c] = feedback_auths[a][c]
             /\ epochs'[a][c] = epochs[a][c]
  <2>1. a \in AgentAddresses /\ c \in Addresses
    BY <1>5 DEF TypeOK, AgentsTypeOK, IsTable
  <2> QED
    BY <1>3, <1>5, <2>1 DEF OnlyAuthorises
<1>6. EpochsInThePast' /\ QuotaLedger'
  <2>1. ASSUME NEW a \in AgentAddresses, NEW c \in Addresses
        PROVE  epochs[a][c].number <= epochs'[a][c].number
    <3>1. CASE a = agent /\ c = client
      BY <1>4, <3>1
    <3>2. CASE ~(a = agent /\ c = client)
      <4>1. epochs'[a][c] = epochs[a][c]
        BY <1>3, <3>2 DEF OnlyAuthorises
      <4> QED
        BY <1>2, <4>1
    <3> QED
      BY <3>1, <3>2
  <2>2. \A a \in DOMAIN agents' : \A c \in DOMAIN feedback_auths'[a] : Carried(a, c) \/ Fresh(a, c)
    BY <1>4, <1>5 DEF Carried
  <2> QED
    BY <1>1, <2>1, <2>2, QuietStep
<1>7. ASSUME NEW a \in DOMAIN agents', NEW c \in DOMAIN feedback_auths'[a]
      PROVE  /\ feedback_auths'[a][c].index_limit <= epochs'[a][c].high
             /\ feedback_auths'[a][c].last_index <= epochs'[a][c].high
  <2>1. CASE a = agent /\ c = client
    BY <1>3, <1>4, <2>1
  <2>2. CASE ~(a = agent /\ c = client)
    <3>1. /\ a \in DOMAIN agents /\ c \in DOMAIN feedback_auths[a]
          /\ feedback_auths'[a][c] = feedback_auths[a][c]
          /\ epochs'[a][c] = epochs[a][c]
      BY <1>5, <2>2
    <3> QED
      BY <3>1 DEF QuotaInv, RateLimited
  <2> QED
    BY <2>1, <2>2
<1>8. NftsAreObjects'
  BY <1>1, <1>3 DEF QuotaInv, NftsAreObjects, OnlyAuthorises
<1> QED
  BY <1>6, <1>7, <1>8 DEF QuotaInv, RateLimited

\* A revocation removes the authorization and leaves the NFTs it paid for.
LEMMA RevokeAuthKeepsQuotas ==
  ASSUME QuotaInv, TypeOK', NEW owner, NEW agent, NEW client,
         revoke_feedback_auth(owner, agent, client),
         UNCHANGED <<microseconds, reputationVars>>
  PROVE  QuotaInv'
<1>1. /\ feedback_auths' = [feedback_auths EXCEPT ![agent] = remove(@, client)]
      /\ UNCHANGED <<objects, agents, epochs, reputations, epoch_of>>
  BY DEF revoke_feedback_auth, reputationVars, objectVars
<1>2. ASSUME NEW a \in DOMAIN agents', NEW c \in DOMAIN feedback_auths'[a]
      PROVE  /\ c \in DOMAIN feedback_auths[a]
             /\ feedback_auths'[a][c] = feedback_auths[a][c]
  <2>1. a \in DOMAIN feedback_auths
    BY <1>1, <1>2 DEF QuotaInv, TypeOK, AgentsTypeOK
  <2> QED
    BY <1>1, <1>2, <2>1 DEF remove
<1>3. \A a \in AgentAddresses, c \in Addresses : epochs[a][c].number <= epochs'[a][c].number
  BY <1>1 DEF QuotaInv, TypeOK, AgentsTypeOK, Epoch
<1>4. EpochsInThePast' /\ QuotaLedger'
  <2>1. \A a \in DOMAIN agents' : \A c \in DOMAIN feedback_auths'[a] : Carried(a, c)
    BY <1>1, <1>2 DEF Carried
  <2> QED
    BY <1>1, <1>3, <2>1, QuietStep
<1>5. RateLimited'
  BY <1>1, <1>2 DEF QuotaInv, RateLimited
<1> QED
  BY <1>1, <1>4, <1>5 DEF QuotaInv, NftsAreObjects

\* A gated issue consumes exactly the index the new NFT carries.
LEMMA IssueKeepsQuotas ==
  ASSUME QuotaInv, TypeOK', NEW issuer \in Accounts, NEW agent \in AgentAddresses,
         NEW score, NEW uri, NEW gated, NEW reputation,
         issue_reputation(issuer, agent, score, uri, gated, reputation)
  PROVE  QuotaInv'
<1> DEFINE last == feedback_auths[agent][issuer].last_index
           number == epochs[agent][issuer].number
           nft == [agent |-> agent, issuer |-> issuer, score |-> score,
                   issued_at |-> now_seconds, feedback_index |-> last + 1,
                   revoked |-> FALSE, response_count |-> 0]
<1>1. /\ reputations' = add(reputations, reputation, nft)
      /\ epoch_of' = add(epoch_of, reputation, number)
      /\ feedback_auths' = [feedback_auths EXCEPT ![agent][issuer].last_index = @ + 1]
      /\ UNCHANGED <<agents, epochs>>
      /\ DOMAIN objects' = DOMAIN objects \cup {reputation}
      /\ reputation \notin DOMAIN reputations
  BY DEF issue_reputation, verify_and_consume_feedback_auth, add, QuotaInv, NftsAreObjects
<1>2. /\ has_valid_feedback_auth(agent, issuer)
      /\ agent \in DOMAIN feedback_auths /\ issuer \in DOMAIN feedback_auths[agent]
      /\ feedback_auths[agent][issuer] \in FeedbackAuth /\ last \in Nat
  BY NextIndexIsAnIndex
  DEF issue_reputation, verify_and_consume_feedback_auth, QuotaInv
<1>3. /\ DOMAIN feedback_auths' = DOMAIN feedback_auths
      /\ \A a \in DOMAIN feedback_auths : a # agent => feedback_auths'[a] = feedback_auths[a]
      /\ DOMAIN feedback_auths'[agent] = DOMAIN feedback_auths[agent]
      /\ \A c \in DOMAIN feedback_auths[agent] :
           c # issuer => feedback_auths'[agent][c] = feedback_auths[agent][c]
      /\ feedback_auths'[agent][issuer].last_index = last + 1
      /\ feedback_auths'[agent][issuer].index_limit = feedback_auths[agent][issuer].index_limit
  BY <1>1, <1>2 DEF FeedbackAuth
<1>4. /\ nft.agent = agent /\ nft.issuer = issuer /\ nft.feedback_index = last + 1
      /\ DOMAIN epoch_of = DOMAIN reputations
      /\ DOMAIN feedback_auths = DOMAIN agents
  BY DEF QuotaInv, TypeOK, AgentsTypeOK
<1> HIDE DEF nft
<1>5. EpochsInThePast'
  <2> SUFFICES ASSUME NEW n \in DOMAIN reputations'
               PROVE  epoch_of'[n] <= epochs[reputations'[n].agent][reputations'[n].issuer].number
    BY <1>1 DEF EpochsInThePast
  <2>1. number \in Nat
    BY DEF QuotaInv, TypeOK, AgentsTypeOK, Epoch, Addresses
  <2>2. CASE n = reputation
    <3>1. reputations'[n] = nft /\ epoch_of'[n] = number
      BY <1>1, <2>2 DEF add
    <3> QED
      BY <1>4, <2>1, <3>1
  <2>3. CASE n # reputation
    <3>1. /\ n \in DOMAIN reputations
          /\ reputations'[n] = reputations[n] /\ epoch_of'[n] = epoch_of[n]
      BY <1>1, <1>4, <2>3 DEF add
    <3> QED
      BY <3>1 DEF QuotaInv, EpochsInThePast
  <2> QED
    BY <2>2, <2>3
<1>6. ASSUME NEW a \in DOMAIN agents', NEW c \in DOMAIN feedback_auths'[a]
      PROVE  Accounted(reputations', epoch_of', a, c, epochs'[a][c].number,
                       feedback_auths'[a][c].last_index)
  <2>1. /\ a \in DOMAIN agents /\ c \in DOMAIN feedback_auths[a]
        /\ epochs'[a][c].number = epochs[a][c].number
    BY <1>1, <1>3, <1>4, <1>6
  <2>2. Accounted(reputations, epoch_of, a, c, epochs[a][c].number, feedback_auths[a][c].last_index)
    BY <2>1, QuotaLedgerUnfolded DEF QuotaInv
  <2>3. CASE a = agent /\ c = issuer
    <3>1. Accounted(add(reputations, reputation, nft), add(epoch_of, reputation, number),
                    agent, issuer, number, last + 1)
      BY <1>1, <1>2, <1>4, <2>2, <2>3, IssuedIsAccounted
    <3> QED
      BY <1>1, <1>3, <2>1, <2>3, <3>1
  <2>4. CASE ~(a = agent /\ c = issuer)
    <3>1. feedback_auths'[a][c] = feedback_auths[a][c]
      BY <1>3, <1>4, <2>1, <2>4
    <3> QED
      BY <1>1, <1>4, <2>1, <2>2, <2>4, <3>1, OtherIssuesAreIrrelevant
  <2> QED
    BY <2>3, <2>4
<1>7. QuotaLedger'
  BY <1>6, QuotaLedgerUnfolded
<1>8. RateLimited'
  <2> SUFFICES ASSUME NEW a \in DOMAIN agents, NEW c \in DOMAIN feedback_auths[a]
               PROVE  /\ feedback_auths'[a][c].index_limit <= epochs[a][c].high
                      /\ feedback_auths'[a][c].last_index <= epochs[a][c].high
    BY <1>1, <1>3, <1>4 DEF RateLimited
  <2>1. /\ feedback_auths[a][c].index_limit <= epochs[a][c].high
        /\ feedback_auths[a][c].last_index <= epochs[a][c].high
    BY DEF QuotaInv, RateLimited
  <2>2. CASE a = agent /\ c = issuer
    <3>1. /\ last < feedback_auths[agent][issuer].index_limit
          /\ feedback_auths[agent][issuer].index_limit \in Nat
          /\ epochs[agent][issuer].high \in Nat
      BY <1>2, GrantsAssumption
      DEF has_valid_feedback_auth, FeedbackAuth, QuotaInv, TypeOK, AgentsTypeOK, Epoch, Addresses
    <3> QED
      BY <1>2, <1>3, <2>1, <2>2, <3>1
  <2>3. CASE ~(a = agent /\ c = issuer)
    BY <1>3, <1>4, <2>1, <2>3
  <2> QED
    BY <2>2, <2>3
<1> QED
  BY <1>1, <1>5, <1>7, <1>8 DEF QuotaInv, NftsAreObjects, add

\* The remaining operations touch neither authorizations nor NFT indices.
LEMMA OtherStepsKeepQuotas ==
  ASSUME QuotaInv, TypeOK',
         \/ /\ \E owner \in Accounts, agent \in AgentAddresses, uri \in Option(MetadataUris),
                  domain \in Option(Domains) : update_agent(owner, agent, uri, domain)
            /\ UNCHANGED <<microseconds, reputationVars>>
         \/ /\ \E owner \in Accounts, agent \in AgentAddresses, new_owner \in NewOwners :
                 transfer_owner(owner, agent, new_owner)
            /\ UNCHANGED <<microseconds, reputationVars>>
         \/ \E issuer \in Accounts, n \in ReputationAddresses : revoke_reputation(issuer, n)
         \/ \E responder \in Accounts, n \in ReputationAddresses, r \in ResponseAddresses :
              append_response(responder, n, r)
         \/ \E signer \in Accounts, address \in Candidates :
              \/ grant_issuer_capability(signer, address)
              \/ revoke_issuer_capability(signer, address)
              \/ transfer_governance(signer, address)
         \/ NextBlock
         \/ UNCHANGED vars
  PROVE  QuotaInv'
<1>1. /\ DOMAIN reputations' = DOMAIN reputations
      /\ \A n \in DOMAIN reputations :
           /\ reputations'[n].agent = reputations[n].agent
           /\ reputations'[n].issuer = reputations[n].issuer
           /\ reputations'[n].feedback_index = reputations[n].feedback_index
  <2>1. CASE \E issuer \in Accounts, n \in ReputationAddresses : revoke_reputation(issuer, n)
    BY <2>1 DEF revoke_reputation, QuotaInv, TypeOK, IsTable, ReputationNFT
  <2>2. CASE \E responder \in Accounts, n \in ReputationAddresses, r \in ResponseAddresses :
               append_response(responder, n, r)
    BY <2>2 DEF append_response, QuotaInv, TypeOK, IsTable, ReputationNFT
  <2> QED
    BY <2>1, <2>2 DEF grant_issuer_capability, revoke_issuer_capability,
       transfer_governance, NextBlock, vars, reputationVars
<1>2. DOMAIN agents' = DOMAIN agents
  BY DEF update_agent, transfer_owner, revoke_reputation, append_response, agentVars,
     grant_issuer_capability, revoke_issuer_capability, transfer_governance, NextBlock, vars
<1>3. DOMAIN objects \subseteq DOMAIN objects'
  BY DEF update_agent, transfer_owner, revoke_reputation, append_response, objectVars,
     with_object, add,
     grant_issuer_capability, revoke_issuer_capability, transfer_governance, NextBlock, vars
<1>4. UNCHANGED <<feedback_auths, epochs, epoch_of>>
  BY DEF update_agent, transfer_owner, revoke_reputation, append_response, agentVars,
     reputationVars,
     grant_issuer_capability, revoke_issuer_capability, transfer_governance, NextBlock, vars
<1> QED
  BY <1>1, <1>2, <1>3, <1>4, UntouchedAuths

\* The strengthened invariant holds when the modules are published.
LEMMA QuotasInitially == Init => QuotaInv
  BY TypeOKInitially, EpochsInitially DEF QuotaInv, NftsAreObjects, Init, InitObjects, new

\* QuotaInv is inductive: one case per entry function.
LEMMA StepKeepsQuotas == QuotaInv /\ [Next]_vars => QuotaInv'
<1> SUFFICES ASSUME QuotaInv, [Next]_vars PROVE QuotaInv'
  OBVIOUS
<1>1. TypeOK'
  BY StepKeepsTypeOK DEF QuotaInv
<1>2. CASE AgentStep
  BY <1>1, <1>2, CreateAgentKeepsQuotas, GrantKeepsQuotas, RevokeAuthKeepsQuotas,
     OtherStepsKeepQuotas DEF AgentStep
<1>3. CASE ReputationStep
  BY <1>1, <1>3, IssueKeepsQuotas, OtherStepsKeepQuotas DEF ReputationStep
<1> QED
  BY <1>1, <1>2, <1>3, OtherStepsKeepQuotas DEF Next

(* The authorisation of a client accounts for the NFTs issued under it, for *)
(* every number of agents, clients and quotas: issue_reputation_internal    *)
(* takes each index once, without gaps, whatever agent owners do between.   *)
THEOREM QuotasAreLedgered == Spec => []QuotaLedger
<1>1. QuotaInv => QuotaLedger
  BY DEF QuotaInv
<1> QED
  BY <1>1, QuotasInitially, StepKeepsQuotas, PTL DEF Spec

(* Under one authorisation a client never issues more NFTs than the largest *)
(* limit that grant_feedback_auth ever gave it.                             *)
THEOREM RateIsLimited == Spec => []RateLimited
<1>1. QuotaInv => RateLimited
  BY DEF QuotaInv
<1> QED
  BY <1>1, QuotasInitially, StepKeepsQuotas, PTL DEF Spec

-----------------------------------------------------------------------------
(* Responses.                                                              *)

\* The addresses of responses are addresses of objects too.
ResponsesAreObjects == DOMAIN responses \subseteq DOMAIN objects

ResponsesInv == TypeOK /\ NftsAreObjects /\ ResponsesAreObjects /\ ResponsesNumbered

\* The responses of table to NFT n, and what ResponsesNumbered says of them.
ResponsesIn(table, n) == {r \in DOMAIN table : table[r].reputation = n}

NumberedFromZero(table, n, count) ==
  /\ {table[r].index : r \in ResponsesIn(table, n)} = 0 .. count - 1
  /\ \A q, r \in ResponsesIn(table, n) : table[q].index = table[r].index => q = r

\* ResponsesNumbered, restated for one NFT at a time.
LEMMA ResponsesNumberedUnfolded ==
  /\ ResponsesNumbered <=>
       /\ \A r \in DOMAIN responses : responses[r].reputation \in DOMAIN reputations
       /\ \A n \in DOMAIN reputations :
            NumberedFromZero(responses, n, reputations[n].response_count)
  /\ ResponsesNumbered' <=>
       /\ \A r \in DOMAIN responses' : responses'[r].reputation \in DOMAIN reputations'
       /\ \A n \in DOMAIN reputations' :
            NumberedFromZero(responses', n, reputations'[n].response_count)
  BY DEF ResponsesNumbered, ResponsesTo, ResponsesIn, NumberedFromZero, contains

\* The next response to an NFT takes the next index.
LEMMA AppendedIsNumbered ==
  ASSUME NEW table, NEW n, NEW count \in Nat, NumberedFromZero(table, n, count),
         NEW r, r \notin DOMAIN table, NEW record,
         record.reputation = n, record.index = count
  PROVE  NumberedFromZero(add(table, r, record), n, count + 1)
<1> DEFINE table2 == add(table, r, record)
           S  == ResponsesIn(table, n)
           S2 == ResponsesIn(table2, n)
<1>1. /\ DOMAIN table2 = DOMAIN table \cup {r} /\ table2[r] = record
      /\ \A q \in DOMAIN table : table2[q] = table[q]
  BY DEF add
<1> HIDE DEF table2
<1>2. S2 = S \cup {r} /\ S \subseteq DOMAIN table
  BY <1>1 DEF ResponsesIn
<1>3. /\ {table[q].index : q \in S} = 0 .. count - 1
      /\ \A q, p \in S : table[q].index = table[p].index => q = p
  BY DEF NumberedFromZero
<1> HIDE DEF S, S2
<1>4. /\ table2[r].index = count
      /\ \A q \in S : table2[q].index = table[q].index /\ table2[q].index \in 0 .. count - 1
  BY <1>1, <1>2, <1>3
<1>5. {table2[q].index : q \in S2} = 0 .. (count + 1) - 1
  <2>1. {table2[q].index : q \in S2} = {table[q].index : q \in S} \cup {count}
    BY <1>2, <1>4
  <2>2. (0 .. count - 1) \cup {count} = 0 .. (count + 1) - 1
    OBVIOUS
  <2> QED
    BY <1>3, <2>1, <2>2
<1>6. ASSUME NEW q \in S2, NEW p \in S2, table2[q].index = table2[p].index
      PROVE  q = p
  <2>1. count \notin 0 .. count - 1
    OBVIOUS
  <2>2. CASE q \in S /\ p \in S
    BY <1>3, <1>4, <1>6, <2>2
  <2> QED
    BY <1>2, <1>4, <1>6, <2>1, <2>2
<1> QED
  BY <1>5, <1>6 DEF NumberedFromZero, S2, table2

\* append_response stores the record under the counter it read, then
\* increments that counter.
LEMMA AppendKeepsResponses ==
  ASSUME ResponsesInv, NEW responder, NEW reputation, NEW response,
         append_response(responder, reputation, response)
  PROVE  NftsAreObjects' /\ ResponsesAreObjects' /\ ResponsesNumbered'
<1> DEFINE count == reputations[reputation].response_count
           record == [reputation |-> reputation, responder |-> responder,
                      timestamp |-> now_seconds, index |-> count]
<1>1. /\ reputation \in DOMAIN reputations
      /\ responses' = add(responses, response, record)
      /\ reputations' = [reputations EXCEPT ![reputation].response_count = @ + 1]
      /\ DOMAIN objects' = DOMAIN objects \cup {response}
      /\ response \notin DOMAIN responses
  BY DEF append_response, with_object, add, contains, ResponsesInv, ResponsesAreObjects
<1>2. /\ reputations[reputation] \in ReputationNFT
      /\ count \in Nat
  BY <1>1, MaxResponsesAssumption DEF ResponsesInv, TypeOK, IsTable, ReputationNFT
<1>3. /\ DOMAIN reputations' = DOMAIN reputations
      /\ reputations'[reputation].response_count = count + 1
      /\ \A n \in DOMAIN reputations : n # reputation => reputations'[n] = reputations[n]
  BY <1>1, <1>2 DEF ReputationNFT
<1>4. record.reputation = reputation /\ record.index = count
  OBVIOUS
<1> HIDE DEF record
<1>5. ASSUME NEW r \in DOMAIN responses' PROVE responses'[r].reputation \in DOMAIN reputations'
  BY <1>1, <1>3, <1>4, ResponsesNumberedUnfolded DEF add, ResponsesInv
<1>6. ASSUME NEW n \in DOMAIN reputations'
      PROVE  NumberedFromZero(responses', n, reputations'[n].response_count)
  <2>1. NumberedFromZero(responses, n, reputations[n].response_count)
    BY <1>3, <1>6, ResponsesNumberedUnfolded DEF ResponsesInv
  <2>2. CASE n = reputation
    BY <1>1, <1>2, <1>3, <1>4, <2>1, <2>2, AppendedIsNumbered
  <2>3. CASE n # reputation
    <3>1. ResponsesIn(responses', n) = ResponsesIn(responses, n)
      BY <1>1, <1>4, <2>3 DEF ResponsesIn, add
    <3>2. \A r \in ResponsesIn(responses, n) : responses'[r].index = responses[r].index
      BY <1>1 DEF ResponsesIn, add
    <3>3. reputations'[n] = reputations[n]
      BY <1>3, <1>6, <2>3
    <3>4. {responses'[r].index : r \in ResponsesIn(responses, n)} =
            {responses[r].index : r \in ResponsesIn(responses, n)}
      BY <3>2
    <3> QED
      BY <2>1, <3>1, <3>2, <3>3, <3>4 DEF NumberedFromZero
  <2> QED
    BY <2>2, <2>3
<1>7. ResponsesNumbered'
  BY <1>5, <1>6, ResponsesNumberedUnfolded
<1> QED
  BY <1>1, <1>3, <1>7 DEF ResponsesInv, NftsAreObjects, ResponsesAreObjects, add

\* A fresh NFT has no response and its counter is zero.
LEMMA IssueKeepsResponses ==
  ASSUME ResponsesInv, NEW issuer, NEW agent, NEW score, NEW uri, NEW gated,
         NEW reputation, issue_reputation(issuer, agent, score, uri, gated, reputation)
  PROVE  NftsAreObjects' /\ ResponsesAreObjects' /\ ResponsesNumbered'
<1> DEFINE nft == [agent |-> agent, issuer |-> issuer, score |-> score,
                   issued_at |-> now_seconds,
                   feedback_index |-> feedback_auths[agent][issuer].last_index + 1,
                   revoked |-> FALSE, response_count |-> 0]
<1>1. /\ reputations' = add(reputations, reputation, nft)
      /\ DOMAIN objects' = DOMAIN objects \cup {reputation}
      /\ reputation \notin DOMAIN reputations
      /\ responses' = responses
  BY DEF issue_reputation, add, ResponsesInv, NftsAreObjects
<1>2. nft.response_count = 0
  OBVIOUS
<1> HIDE DEF nft
<1>3. \A r \in DOMAIN responses : responses[r].reputation \in DOMAIN reputations
  BY ResponsesNumberedUnfolded DEF ResponsesInv
<1>4. ASSUME NEW n \in DOMAIN reputations'
      PROVE  NumberedFromZero(responses', n, reputations'[n].response_count)
  <2>1. CASE n = reputation
    <3>1. ResponsesIn(responses, n) = {}
      BY <1>1, <1>3, <2>1 DEF ResponsesIn
    <3>2. reputations'[n].response_count = 0
      BY <1>1, <1>2, <2>1 DEF add
    <3>3. 0 .. 0 - 1 = {}
      OBVIOUS
    <3> QED
      BY <1>1, <3>1, <3>2, <3>3 DEF NumberedFromZero
  <2>2. CASE n # reputation
    <3>1. n \in DOMAIN reputations /\ reputations'[n] = reputations[n]
      BY <1>1, <1>4, <2>2 DEF add
    <3> QED
      BY <1>1, <3>1, ResponsesNumberedUnfolded DEF ResponsesInv
  <2> QED
    BY <2>1, <2>2
<1>5. ResponsesNumbered'
  BY <1>1, <1>3, <1>4, ResponsesNumberedUnfolded DEF add
<1> QED
  BY <1>1, <1>5 DEF ResponsesInv, NftsAreObjects, ResponsesAreObjects, add

\* ResponsesInv is inductive: one case per entry function.
LEMMA StepKeepsResponses == ResponsesInv /\ [Next]_vars => ResponsesInv'
<1> SUFFICES ASSUME ResponsesInv, [Next]_vars PROVE ResponsesInv'
  OBVIOUS
<1>1. TypeOK'
  BY StepKeepsTypeOK DEF ResponsesInv
<1>2. ASSUME UNCHANGED responses, DOMAIN reputations' = DOMAIN reputations,
             \A n \in DOMAIN reputations :
               reputations'[n].response_count = reputations[n].response_count,
             DOMAIN objects \subseteq DOMAIN objects'
      PROVE  ResponsesInv'
  <2>1. ResponsesNumbered'
    BY <1>2, ResponsesNumberedUnfolded DEF ResponsesInv
  <2> QED
    BY <1>1, <1>2, <2>1 DEF ResponsesInv, NftsAreObjects, ResponsesAreObjects
<1>3. CASE AgentStep
  <2>1. UNCHANGED reputationVars /\ DOMAIN objects \subseteq DOMAIN objects'
    BY <1>3 DEF AgentStep, create_agent, grant_feedback_auth, revoke_feedback_auth,
       update_agent, transfer_owner, objectVars, add
  <2> QED
    BY <1>2, <2>1 DEF reputationVars
<1>4. CASE ReputationStep
  <2>1. ASSUME NEW issuer \in Accounts, NEW n \in ReputationAddresses, revoke_reputation(issuer, n)
        PROVE  ResponsesInv'
    BY <1>2, <2>1 DEF revoke_reputation, objectVars, ResponsesInv, TypeOK, IsTable, ReputationNFT
  <2>2. ASSUME NEW signer \in Accounts, NEW address \in Candidates,
               \/ grant_issuer_capability(signer, address)
               \/ revoke_issuer_capability(signer, address)
               \/ transfer_governance(signer, address)
        PROVE  ResponsesInv'
    BY <1>2, <2>2 DEF grant_issuer_capability, revoke_issuer_capability,
       transfer_governance, objectVars
  <2> QED
    BY <1>1, <1>4, <2>1, <2>2, IssueKeepsResponses, AppendKeepsResponses
    DEF ReputationStep, ResponsesInv
<1>5. CASE NextBlock \/ UNCHANGED vars
  BY <1>2, <1>5 DEF NextBlock, vars, objectVars, reputationVars
<1> QED
  BY <1>3, <1>4, <1>5 DEF Next

(* append_response numbers the responses to every NFT from 0 without gaps,  *)
(* each once, and response_count is their number, for every MAX_RESPONSES.  *)
THEOREM ResponsesAreNumbered == Spec => []ResponsesNumbered
<1>1. Init => ResponsesInv
  BY TypeOKInitially DEF ResponsesInv, NftsAreObjects, ResponsesAreObjects,
     ResponsesNumbered, Init, InitObjects, new
<1>2. ResponsesInv => ResponsesNumbered
  BY DEF ResponsesInv
<1> QED
  BY <1>1, <1>2, StepKeepsResponses, PTL DEF Spec

-----------------------------------------------------------------------------
(* The composition.                                                         *)
\* What an account can do with objects leaves the rest of the state alone.
LEMMA ObjectStepsKeepTypeOK ==
  ASSUME TypeOK, ObjectStep
  PROVE  TypeOK' /\ DOMAIN objects \subseteq DOMAIN objects'
<1>1. ASSUME NEW signer \in Accounts, NEW asset \in AssetAddresses, create_asset(signer, asset)
      PROVE  ObjectsTypeOK' /\ DOMAIN objects \subseteq DOMAIN objects'
  <2>1. asset \in ObjectAddresses /\ signer \in Addresses
    BY AssetAddressesAssumption DEF Addresses
  <2> QED
    BY <1>1, <2>1, NewObjectIsTyped DEF create_asset, TypeOK, with_object, add
<1>2. ASSUME NEW signer \in Accounts, NEW object \in DOMAIN objects,
             \/ \E to \in Addresses : transfer_raw(signer, object, to)
             \/ burn(signer, object)
             \/ unburn(signer, object)
      PROVE  ObjectsTypeOK' /\ DOMAIN objects \subseteq DOMAIN objects'
  <2>1. object \in ObjectAddresses
    BY DEF TypeOK, ObjectsTypeOK, IsTable
  <2> QED
    BY <1>2, <2>1, SignersKeepObjectsTyped DEF TypeOK
<1>3. ObjectsTypeOK' /\ DOMAIN objects \subseteq DOMAIN objects'
  BY <1>1, <1>2 DEF ObjectStep
<1> QED
  BY <1>3 DEF ObjectStep, TypeOK, AgentsTypeOK, agentVars, reputationVars

-----------------------------------------------------------------------------
(* Agents and reputation on a chain where objects move.                    *)

\* Steps on objects do not touch quotas and responses.
LEMMA ObjectStepsKeepQuotas ==
  ASSUME QuotaInv, ResponsesInv, ObjectStep
  PROVE  QuotaInv' /\ ResponsesInv'
<1>1. TypeOK' /\ DOMAIN objects \subseteq DOMAIN objects'
  BY ObjectStepsKeepTypeOK DEF QuotaInv
<1>2. UNCHANGED <<agents, feedback_auths, epochs, reputations, responses, epoch_of>>
  BY DEF ObjectStep, agentVars, reputationVars
<1>3. QuotaInv'
  BY <1>1, <1>2, UntouchedAuths
<1>4. ResponsesNumbered'
  BY <1>2, ResponsesNumberedUnfolded DEF ResponsesInv
<1> QED
  BY <1>1, <1>2, <1>3, <1>4 DEF ResponsesInv, QuotaInv, ResponsesAreObjects

(* Every reachable state of the framework on its chain is well typed, the   *)
(* quotas account for the NFTs and bound them, and responses are numbered   *)
(* without gaps, whatever accounts do with the objects of the framework.    *)
THEOREM FrameworkIsSafe ==
  FrameworkSpec => [](TypeOK /\ QuotaLedger /\ RateLimited /\ ResponsesNumbered)
<1> DEFINE Inv == QuotaInv /\ ResponsesInv
<1>1. Init => Inv
  BY QuotasInitially, TypeOKInitially DEF ResponsesInv, NftsAreObjects, ResponsesAreObjects,
     ResponsesNumbered, Init, InitObjects, new
<1>2. Inv /\ [FrameworkNext]_vars => Inv'
  <2> SUFFICES ASSUME Inv, [FrameworkNext]_vars PROVE Inv'
    OBVIOUS
  <2>1. CASE [Next]_vars
    BY <2>1, StepKeepsQuotas, StepKeepsResponses
  <2>2. CASE ObjectStep
    BY <2>2, ObjectStepsKeepQuotas
  <2> QED
    BY <2>1, <2>2 DEF FrameworkNext
<1>3. Inv => TypeOK /\ QuotaLedger /\ RateLimited /\ ResponsesNumbered
  BY DEF QuotaInv, ResponsesInv
<1> QED
  BY <1>1, <1>2, <1>3, PTL DEF FrameworkSpec

-----------------------------------------------------------------------------
(* The refinement.                                                         *)

(* Soulbound: an NFT is an object of its issuer that no signer can move.    *)
Soulbound ==
  \A n \in DOMAIN reputations :
    /\ n \in DOMAIN objects
    /\ ~objects[n].allow_ungated_transfer
    /\ objects[n].owner = reputations[n].issuer

LedgerInv == TypeOK /\ Soulbound

\* Neither the NFTs nor their objects change in a step.
LEMMA NftsUntouched ==
  ASSUME LedgerInv, UNCHANGED reputations,
         \A n \in DOMAIN reputations : n \in DOMAIN objects' /\ objects'[n] = objects[n]
  PROVE  Soulbound' /\ UNCHANGED ledger
  BY DEF LedgerInv, Soulbound, ledger, CoreOf

\* No call of an account on objects changes the object of an NFT.
LEMMA ObjectStepsStutter ==
  ASSUME LedgerInv, ObjectStep
  PROVE  Soulbound' /\ UNCHANGED ledger
<1>1. UNCHANGED reputations
  BY DEF ObjectStep, reputationVars
<1>2. ASSUME NEW n \in DOMAIN reputations
      PROVE  /\ n \in DOMAIN objects' /\ ~objects'[n].allow_ungated_transfer
             /\ objects'[n].owner = objects[n].owner
  <2>1. /\ n \in DOMAIN objects /\ ~objects[n].allow_ungated_transfer
        /\ objects[n].owner # BURN_ADDRESS
    BY DisjointAddresses DEF LedgerInv, Soulbound, TypeOK, IsTable, ReputationNFT
  <2>2. CASE \E signer \in Accounts, asset \in AssetAddresses : create_asset(signer, asset)
    BY <2>1, <2>2 DEF create_asset, with_object, add
  <2>3. ASSUME NEW signer, NEW object,
               \/ \E to : transfer_raw(signer, object, to)
               \/ burn(signer, object)
               \/ unburn(signer, object)
        PROVE  /\ n \in DOMAIN objects' /\ ~objects'[n].allow_ungated_transfer
               /\ objects'[n].owner = objects[n].owner
    BY <2>1, <2>3, GatedFromSigners DEF LedgerInv, TypeOK
  <2> QED
    BY <2>2, <2>3 DEF ObjectStep
<1> QED
  BY <1>1, <1>2 DEF LedgerInv, Soulbound, ledger, CoreOf

\* Issuing an NFT adds an entry, held by the issuer.
LEMMA IssueIsAnEntry ==
  ASSUME LedgerInv, TypeOK', NEW issuer \in Accounts, NEW agent \in AgentAddresses,
         NEW score, NEW uri, NEW gated, NEW reputation \in ReputationAddresses,
         issue_reputation(issuer, agent, score, uri, gated, reputation)
  PROVE  Soulbound' /\ Ledger!Next
<1> DEFINE nft == [agent |-> agent, issuer |-> issuer, score |-> score,
                   issued_at |-> now_seconds,
                   feedback_index |-> feedback_auths[agent][issuer].last_index + 1,
                   revoked |-> FALSE, response_count |-> 0]
           object == [owner |-> issuer, allow_ungated_transfer |-> FALSE]
           core == [agent |-> agent, issuer |-> issuer, score |-> score,
                    issued_at |-> now_seconds,
                    feedback_index |-> feedback_auths[agent][issuer].last_index + 1,
                    holder |-> issuer]
<1>1. /\ reputations' = add(reputations, reputation, nft)
      /\ objects' = add(objects, reputation, object)
      /\ reputation \notin DOMAIN objects
      /\ reputation \notin DOMAIN reputations
  BY DEF issue_reputation, LedgerInv, Soulbound
<1>2. /\ DOMAIN reputations' = DOMAIN reputations \cup {reputation}
      /\ reputations'[reputation] = nft /\ objects'[reputation] = object
      /\ \A n \in DOMAIN reputations :
           /\ reputations'[n] = reputations[n]
           /\ n \in DOMAIN objects /\ objects'[n] = objects[n]
      /\ DOMAIN objects' = DOMAIN objects \cup {reputation}
  BY <1>1 DEF add, LedgerInv, Soulbound
<1>3. Soulbound'
  <2> SUFFICES ASSUME NEW n \in DOMAIN reputations'
               PROVE  /\ n \in DOMAIN objects'
                      /\ ~objects'[n].allow_ungated_transfer
                      /\ objects'[n].owner = reputations'[n].issuer
    BY DEF Soulbound
  <2>1. CASE n = reputation
    BY <1>2, <2>1
  <2>2. CASE n # reputation
    BY <1>2, <2>2 DEF LedgerInv, Soulbound
  <2> QED
    BY <2>1, <2>2
<1>4. core \in Cores
  <2>1. IsTable(reputations', ReputationAddresses, ReputationNFT)
    BY DEF TypeOK
  <2>2. reputations'[reputation] \in ReputationNFT
    BY <1>2, <2>1 DEF IsTable
  <2>3. nft \in ReputationNFT
    BY <1>2, <2>2
  <2> QED
    BY <2>3 DEF ReputationNFT, Cores
<1>5. /\ CoreOf(reputation)' = core
      /\ \A n \in DOMAIN reputations : CoreOf(n)' = CoreOf(n)
  BY <1>2 DEF CoreOf
<1>6. ledger' = add(ledger, reputation, [core |-> core, revoked |-> FALSE, responses |-> 0])
  <2>1. /\ DOMAIN ledger = DOMAIN reputations
        /\ ledger' = [n \in DOMAIN reputations' |->
             [core |-> CoreOf(n)', revoked |-> reputations'[n].revoked,
              responses |-> reputations'[n].response_count]]
    BY DEF ledger
  <2>2. nft.revoked = FALSE /\ nft.response_count = 0
    OBVIOUS
  <2> HIDE DEF core, nft
  <2> QED
    BY <1>1, <1>2, <1>5, <2>1, <2>2 DEF ledger, add
<1>7. reputation \notin DOMAIN ledger
  BY <1>1 DEF ledger
<1> HIDE DEF core
<1>8. Ledger!Issue(reputation, core)
  BY <1>6, <1>7 DEF Ledger!Issue, Ledger!contains, Ledger!add, add
<1> QED
  BY <1>3, <1>4, <1>8 DEF Ledger!Next

\* Revoking an NFT revokes its entry.
LEMMA RevokeIsRevoke ==
  ASSUME LedgerInv, NEW issuer, NEW reputation \in ReputationAddresses,
         revoke_reputation(issuer, reputation)
  PROVE  Soulbound' /\ Ledger!Next
<1>1. /\ reputation \in DOMAIN reputations /\ ~reputations[reputation].revoked
      /\ reputations' = [reputations EXCEPT ![reputation].revoked = TRUE]
      /\ UNCHANGED objects
  BY DEF revoke_reputation, contains, objectVars
<1>2. /\ DOMAIN reputations' = DOMAIN reputations
      /\ \A n \in DOMAIN reputations :
           /\ reputations[n] \in ReputationNFT
           /\ reputations'[n].agent = reputations[n].agent
           /\ reputations'[n].issuer = reputations[n].issuer
           /\ reputations'[n].score = reputations[n].score
           /\ reputations'[n].issued_at = reputations[n].issued_at
           /\ reputations'[n].feedback_index = reputations[n].feedback_index
           /\ reputations'[n].response_count = reputations[n].response_count
           /\ reputations'[n].revoked = IF n = reputation THEN TRUE ELSE reputations[n].revoked
  BY <1>1 DEF LedgerInv, TypeOK, IsTable, ReputationNFT
<1>3. Soulbound'
  BY <1>1, <1>2 DEF LedgerInv, Soulbound
<1>4. \A n \in DOMAIN reputations : CoreOf(n)' = CoreOf(n)
  BY <1>1, <1>2 DEF CoreOf
<1>5. ledger' = [n \in DOMAIN reputations |->
        [core |-> CoreOf(n),
         revoked |-> IF n = reputation THEN TRUE ELSE reputations[n].revoked,
         responses |-> reputations[n].response_count]]
  BY <1>2, <1>4 DEF ledger
<1>6. ledger' = [ledger EXCEPT ![reputation].revoked = TRUE]
  BY <1>1, <1>5 DEF ledger
<1>7. Ledger!Revoke(reputation)
  BY <1>1, <1>6 DEF Ledger!Revoke, Ledger!contains, ledger
<1> QED
  BY <1>3, <1>7 DEF Ledger!Next

\* A response to an NFT counts in its entry.
LEMMA AppendIsRespond ==
  ASSUME LedgerInv, NEW responder, NEW reputation \in ReputationAddresses, NEW response,
         append_response(responder, reputation, response)
  PROVE  Soulbound' /\ Ledger!Next
<1>1. /\ reputation \in DOMAIN reputations
      /\ reputations[reputation].response_count < MAX_RESPONSES
      /\ reputations' = [reputations EXCEPT ![reputation].response_count = @ + 1]
      /\ objects' = with_object(response, responder) /\ response \notin DOMAIN objects
  BY DEF append_response, contains
<1>2. /\ DOMAIN reputations' = DOMAIN reputations
      /\ \A n \in DOMAIN reputations :
           /\ reputations[n] \in ReputationNFT
           /\ reputations'[n].agent = reputations[n].agent
           /\ reputations'[n].issuer = reputations[n].issuer
           /\ reputations'[n].score = reputations[n].score
           /\ reputations'[n].issued_at = reputations[n].issued_at
           /\ reputations'[n].feedback_index = reputations[n].feedback_index
           /\ reputations'[n].revoked = reputations[n].revoked
           /\ reputations'[n].response_count =
                IF n = reputation THEN reputations[n].response_count + 1
                                  ELSE reputations[n].response_count
  BY <1>1 DEF LedgerInv, TypeOK, IsTable, ReputationNFT
<1>3. \A n \in DOMAIN reputations :
        n \in DOMAIN objects /\ n \in DOMAIN objects' /\ objects'[n] = objects[n]
  BY <1>1 DEF with_object, add, LedgerInv, Soulbound
<1>4. Soulbound'
  BY <1>2, <1>3 DEF LedgerInv, Soulbound
<1>5. \A n \in DOMAIN reputations : CoreOf(n)' = CoreOf(n)
  BY <1>2, <1>3 DEF CoreOf
<1>6. ledger' = [n \in DOMAIN reputations |->
        [core |-> CoreOf(n), revoked |-> reputations[n].revoked,
         responses |-> IF n = reputation THEN reputations[n].response_count + 1
                                         ELSE reputations[n].response_count]]
  BY <1>2, <1>5 DEF ledger
<1>7. ledger' = [ledger EXCEPT ![reputation].responses = @ + 1]
  BY <1>1, <1>6 DEF ledger
<1>8. Ledger!Respond(reputation)
  BY <1>1, <1>7 DEF Ledger!Respond, Ledger!contains, ledger
<1> QED
  BY <1>4, <1>8 DEF Ledger!Next

\* Every step is a step of the ledger or leaves the ledger as it is.
LEMMA StepIsALedgerStep ==
  LedgerInv /\ [FrameworkNext]_vars => LedgerInv' /\ [Ledger!Next]_ledger
<1> SUFFICES ASSUME LedgerInv, [FrameworkNext]_vars
             PROVE  LedgerInv' /\ [Ledger!Next]_ledger
  OBVIOUS
<1>1. TypeOK'
  BY StepKeepsTypeOK, ObjectStepsKeepTypeOK DEF FrameworkNext, LedgerInv
<1>2. CASE AgentStep
  <2>1. UNCHANGED reputations
    BY <1>2 DEF AgentStep, reputationVars
  <2>2. \A n \in DOMAIN reputations : n \in DOMAIN objects' /\ objects'[n] = objects[n]
    BY <1>2 DEF AgentStep, create_agent, grant_feedback_auth, revoke_feedback_auth,
       update_agent, transfer_owner, objectVars, add, LedgerInv, Soulbound
  <2> QED
    BY <1>1, <2>1, <2>2, NftsUntouched DEF LedgerInv
<1>3. CASE ReputationStep
  <2>1. ASSUME NEW signer \in Accounts, NEW address \in Candidates,
               \/ grant_issuer_capability(signer, address)
               \/ revoke_issuer_capability(signer, address)
               \/ transfer_governance(signer, address)
        PROVE  Soulbound' /\ UNCHANGED ledger
    <3>1. UNCHANGED <<reputations, objects>>
      BY <2>1 DEF grant_issuer_capability, revoke_issuer_capability,
         transfer_governance, objectVars
    <3> QED
      BY <3>1, NftsUntouched DEF LedgerInv, Soulbound
  <2> QED
    BY <1>1, <1>3, <2>1, IssueIsAnEntry, RevokeIsRevoke, AppendIsRespond
    DEF ReputationStep, LedgerInv
<1>4. CASE NextBlock \/ UNCHANGED vars
  <2>1. UNCHANGED <<reputations, objects>>
    BY <1>4 DEF NextBlock, vars, objectVars, reputationVars
  <2> QED
    BY <1>1, <2>1, NftsUntouched DEF LedgerInv, Soulbound
<1>5. CASE ObjectStep
  BY <1>1, <1>5, ObjectStepsStutter DEF LedgerInv
<1> QED
  BY <1>2, <1>3, <1>4, <1>5 DEF FrameworkNext, Next

(* The framework on its chain implements ReputationLedger: nothing that     *)
(* anyone can call rewrites an NFT, moves it, brings a revoked one back or  *)
(* skips a response, whatever the numbers of accounts, objects and quotas.  *)
THEOREM FrameworkImplementsLedger == FrameworkSpec => ImplementsLedger
<1>1. Init => LedgerInv /\ Ledger!Init
  <2> SUFFICES ASSUME Init PROVE LedgerInv /\ Ledger!Init
    OBVIOUS
  <2>1. DOMAIN reputations = {}
    BY DEF Init, new
  <2>2. ledger = Ledger!new
    BY <2>1 DEF ledger, Ledger!new
  <2> QED
    BY <2>1, <2>2, TypeOKInitially DEF LedgerInv, Soulbound, Ledger!Init
<1> QED
  BY <1>1, StepIsALedgerStep, PTL DEF FrameworkSpec, ImplementsLedger, Ledger!Spec
-----------------------------------------------------------------------------
(* What is enclosed stays.                                                 *)

\* An agent is an object of an account, and its ungated transfer is disabled.
AgentsGated ==
  \A agent \in DOMAIN agents :
    /\ agent \in DOMAIN objects
    /\ ~objects[agent].allow_ungated_transfer
    /\ objects[agent].owner \in Accounts

PinnedInv == LedgerInv /\ AgentsGated

LEMMA PinnedAreGated ==
  ASSUME PinnedInv
  PROVE  /\ Pinned \subseteq DOMAIN objects
         /\ \A p \in Pinned : ~objects[p].allow_ungated_transfer /\ objects[p].owner \in Accounts
  BY DEF PinnedInv, AgentsGated, LedgerInv, Soulbound, TypeOK, IsTable, ReputationNFT, Pinned

\* The table that OwnersUp fills
Ups(up, n, object) ==
  up = [k \in 0 .. n |-> IF k = 0 THEN object
                         ELSE IF contains(objects, up[k - 1]) THEN objects[up[k - 1]].owner
                                                              ELSE up[k - 1]]

LEMMA UpsExist ==
  ASSUME NEW object
  PROVE  \A n \in Nat : \E up : Ups(up, n, object)
<1> DEFINE above(o) == IF contains(objects, o) THEN objects[o].owner ELSE o
           table(up, n) == up = [k \in 0 .. n |-> IF k = 0 THEN object ELSE above(up[k - 1])]
           missing == {n \in Nat : ~ \E up : table(up, n)}
<1>1. ASSUME missing # {}
      PROVE  FALSE
  <2> HIDE DEF above
  <2>1. missing \subseteq Nat
    OBVIOUS
  <2>2. \E n \in missing : \A m \in missing : n <= m
    <3> HIDE DEF missing
    <3> QED
      BY <1>1, <2>1, LeastOf
  <2>3. PICK n \in missing : \A m \in missing : n <= m
    BY <2>2
  <2>4. n \in Nat /\ ~ \E up : table(up, n)
    OBVIOUS
  <2>5. CASE n = 0
    <3> DEFINE up == [k \in 0 .. 0 |-> object]
    <3>1. \A k \in 0 .. 0 : k = 0
      OBVIOUS
    <3>2. table(up, 0)
      BY <3>1
    <3> QED
      BY <2>4, <2>5, <3>2
  <2>6. CASE n # 0
    <3>1. n - 1 \in Nat /\ ~(n <= n - 1)
      BY <2>4, <2>6
    <3>2. n - 1 \notin missing
      BY <2>3, <3>1
    <3>3. PICK up : table(up, n - 1)
      BY <3>1, <3>2
    <3> DEFINE longer == [k \in 0 .. n |-> IF k = n THEN above(up[n - 1]) ELSE up[k]]
    <3>4. ASSUME NEW k \in 0 .. n
          PROVE  longer[k] = IF k = 0 THEN object ELSE above(longer[k - 1])
      <4>1. CASE k = n
        <5>1. k - 1 = n - 1 /\ n - 1 \in 0 .. n /\ n - 1 # n /\ k # 0
          BY <2>4, <2>6, <4>1
        <5> QED
          BY <4>1, <5>1
      <4>2. CASE k # n
        <5>1. k \in 0 .. n - 1
          BY <2>4, <4>2
        <5>2. up[k] = IF k = 0 THEN object ELSE above(up[k - 1])
          BY <3>3, <5>1
        <5>3. k # 0 => k - 1 \in 0 .. n /\ k - 1 # n
          BY <5>1
        <5> QED
          BY <4>2, <5>1, <5>2, <5>3
      <4> QED
        BY <4>1, <4>2
    <3>5. longer = [k \in 0 .. n |-> longer[k]]
      OBVIOUS
    <3> HIDE DEF longer
    <3>6. table(longer, n)
      BY <3>4, <3>5
    <3> QED
      BY <2>4, <3>6
  <2> QED
    BY <2>5, <2>6
<1>2. \A n \in Nat : \E up : table(up, n)
  BY <1>1
<1> HIDE DEF missing
<1> QED
  BY <1>2 DEF Ups

\* Owners upward from an object to one of those in targets
LEMMA ChainUp ==
  ASSUME NEW object, NEW targets, targets \subseteq DOMAIN objects,
         OwnersUp(object) \cap targets # {}
  PROVE  \E n \in Nat : \E up :
           /\ up[0] = object /\ up[n] \in targets
           /\ \A k \in 0 .. n : up[k] \in DOMAIN objects
           /\ \A k \in 0 .. n - 1 : up[k + 1] = objects[up[k]].owner
<1> DEFINE N == Cardinality(ObjectAddresses)
           up == CHOOSE up : Ups(up, N, object)
<1>1. N \in Nat
  BY FinitelyManyAddresses, FS_CardinalityType
<1>2. OwnersUp(object) = {up[k] : k \in DOMAIN up}
  BY DEF OwnersUp, Ups
<1>3. Ups(up, N, object)
  BY <1>1, UpsExist
<1> HIDE DEF N, up
<1>4. DOMAIN up = 0 .. N /\ up[0] = object
  BY <1>1, <1>3 DEF Ups
<1>5. \A k \in 0 .. N - 1 : up[k + 1] = IF contains(objects, up[k]) THEN objects[up[k]].owner
                                                                    ELSE up[k]
  <2> SUFFICES ASSUME NEW k \in 0 .. N - 1
               PROVE  up[k + 1] = IF contains(objects, up[k]) THEN objects[up[k]].owner ELSE up[k]
    OBVIOUS
  <2>1. k + 1 \in 0 .. N /\ k + 1 # 0 /\ (k + 1) - 1 = k
    BY <1>1
  <2> QED
    BY <1>3, <2>1 DEF Ups
<1>6. PICK n \in 0 .. N : up[n] \in targets
  BY <1>2, <1>4
<1> DEFINE gaps == {i \in 0 .. n : up[n - i] \notin DOMAIN objects}
<1>7. ASSUME gaps # {}
      PROVE  FALSE
  <2>1. gaps \subseteq Nat
    OBVIOUS
  <2>2. \E i \in gaps : \A j \in gaps : i <= j
    <3> HIDE DEF gaps
    <3> QED
      BY <1>7, <2>1, LeastOf
  <2>3. PICK i \in gaps : \A j \in gaps : i <= j
    BY <2>2
  <2>4. i \in 0 .. n /\ i \in Nat /\ up[n - i] \notin DOMAIN objects /\ n \in Nat
    BY <1>1
  <2>5. i # 0
    BY <1>6, <2>4
  <2>6. i - 1 \in 0 .. n /\ ~(i <= i - 1) /\ n - i \in 0 .. N - 1 /\ (n - i) + 1 = n - (i - 1)
    BY <1>1, <2>4, <2>5
  <2>7. up[n - (i - 1)] \in DOMAIN objects
    BY <2>3, <2>6
  <2>8. up[(n - i) + 1] = up[n - i]
    BY <1>5, <2>4, <2>6 DEF contains
  <2> QED
    BY <2>4, <2>6, <2>7, <2>8
<1>8. \A k \in 0 .. n : up[k] \in DOMAIN objects
  <2> SUFFICES ASSUME NEW k \in 0 .. n PROVE up[k] \in DOMAIN objects
    OBVIOUS
  <2>1. n - k \in 0 .. n /\ n - (n - k) = k
    BY <1>1
  <2> QED
    BY <1>7, <2>1
<1> HIDE DEF gaps
<1>9. \A k \in 0 .. n - 1 : up[k + 1] = objects[up[k]].owner
  <2> SUFFICES ASSUME NEW k \in 0 .. n - 1 PROVE up[k + 1] = objects[up[k]].owner
    OBVIOUS
  <2>1. k \in 0 .. N - 1 /\ k \in 0 .. n
    BY <1>1
  <2> QED
    BY <1>5, <1>8, <2>1 DEF contains
<1> QED
  BY <1>1, <1>4, <1>6, <1>8, <1>9

\* The walk of a transfer does not pass an object that is gated.
LEMMA GatedStopsTheWalk ==
  ASSUME ObjectsTypeOK, NEW signer \in Accounts, NEW object, NEW n \in Nat, NEW up,
         up[0] = object, \A k \in 0 .. n : up[k] \in DOMAIN objects,
         \A k \in 0 .. n - 1 : up[k + 1] = objects[up[k]].owner,
         ~objects[up[n]].allow_ungated_transfer
  PROVE  ~verify_ungated_and_descendant(signer, object)
<1> SUFFICES ASSUME verify_ungated_and_descendant(signer, object)
             PROVE  FALSE
  OBVIOUS
<1> DEFINE depth == MAXIMUM_OBJECT_NESTING
           found == walk(signer, depth)
<1>1. depth \in Nat \ {0} /\ 0 \in 0 .. depth - 1
  BY NestingAssumption
<1>2. ungated(object) /\ found[0][objects[object].owner]
  BY DEF verify_ungated_and_descendant
<1>3. found = Loop(signer, depth, found)
  BY <1>1, WalkIsLoop
<1> HIDE DEF found, depth
<1>4. ASSUME NEW count \in 0 .. depth - 1, NEW current \in Addresses, found[count][current]
      PROVE  \/ signer = current
             \/ count + 1 \in 0 .. depth - 1 /\ ungated(current) /\ found[count + 1][objects[current].owner]
  <2> DEFINE looped == Loop(signer, depth, found)
  <2>1. looped[count][current] =
          (\/ signer = current
           \/ /\ count + 1 < depth
              /\ ungated(current)
              /\ found[count + 1][objects[current].owner])
    BY DEF Loop
  <2>2. looped[count][current]
    BY <1>3, <1>4
  <2> HIDE DEF looped
  <2>3. \/ signer = current
        \/ count + 1 < depth /\ ungated(current) /\ found[count + 1][objects[current].owner]
    BY <2>1, <2>2
  <2>4. count + 1 < depth => count + 1 \in 0 .. depth - 1
    BY <1>1
  <2> QED
    BY <2>3, <2>4
<1>5. \A k \in 0 .. n : up[k] \in ObjectAddresses /\ up[k] \in Addresses /\ up[k] # signer
  BY DisjointAddresses DEF ObjectsTypeOK, IsTable, Addresses
<1>6. n # 0
  BY <1>2 DEF ungated
<1> DEFINE stops == {k \in 0 .. n - 1 : ~(k \in 0 .. depth - 1 /\ found[k][up[k + 1]])}
<1>7. stops = {}
  <2> SUFFICES ASSUME stops # {} PROVE FALSE
    OBVIOUS
  <2>1. stops \subseteq Nat
    OBVIOUS
  <2>2. \E k \in stops : \A j \in stops : k <= j
    <3> HIDE DEF stops
    <3> QED
      BY <2>1, LeastOf
  <2>3. PICK k \in stops : \A j \in stops : k <= j
    BY <2>2
  <2>4. k \in 0 .. n - 1 /\ k \in Nat /\ ~(k \in 0 .. depth - 1 /\ found[k][up[k + 1]])
    OBVIOUS
  <2>5. k # 0
    <3>1. 0 \in 0 .. n - 1 /\ 0 + 1 = 1 /\ up[0 + 1] = objects[up[0]].owner
      BY <1>6
    <3> QED
      BY <1>1, <1>2, <2>4, <3>1
  <2>6. k - 1 \in 0 .. n - 1 /\ ~(k <= k - 1) /\ (k - 1) + 1 = k /\ k \in 0 .. n
    BY <2>4, <2>5
  <2>7. k - 1 \in 0 .. depth - 1 /\ found[k - 1][up[k]]
    BY <2>3, <2>6
  <2>8. up[k] \in Addresses /\ up[k] # signer
    BY <1>5, <2>6
  <2>9. k \in 0 .. depth - 1 /\ found[k][objects[up[k]].owner]
    BY <1>4, <2>6, <2>7, <2>8
  <2> QED
    BY <2>4, <2>9
<1>8. n - 1 \in 0 .. n - 1 /\ (n - 1) + 1 = n /\ n \in 0 .. n
  BY <1>6
<1>9. n - 1 \in 0 .. depth - 1 /\ found[n - 1][up[n]]
  BY <1>7, <1>8
<1> HIDE DEF stops
<1> QED
  BY <1>4, <1>5, <1>8, <1>9 DEF ungated

\* No account changes the owner of what a pinned object encloses.
LEMMA AccountsKeepEnclosed ==
  ASSUME PinnedInv, NEW signer \in Accounts, NEW other \in DOMAIN objects,
         \/ \E to \in Addresses : transfer_raw(signer, other, to)
         \/ burn(signer, other)
         \/ unburn(signer, other),
         NEW object \in DOMAIN objects, OwnersUp(object) \cap Pinned # {}
  PROVE  objects'[object].owner = objects[object].owner
<1>1. ObjectsTypeOK /\ Pinned \subseteq DOMAIN objects
      /\ \A p \in Pinned : ~objects[p].allow_ungated_transfer /\ objects[p].owner \in Accounts
  BY PinnedAreGated DEF PinnedInv, LedgerInv, TypeOK
<1>2. PICK n \in Nat : \E up :
        /\ up[0] = object /\ up[n] \in Pinned
        /\ \A k \in 0 .. n : up[k] \in DOMAIN objects
        /\ \A k \in 0 .. n - 1 : up[k + 1] = objects[up[k]].owner
  BY <1>1, ChainUp
<1>3. PICK up :
        /\ up[0] = object /\ up[n] \in Pinned
        /\ \A k \in 0 .. n : up[k] \in DOMAIN objects
        /\ \A k \in 0 .. n - 1 : up[k + 1] = objects[up[k]].owner
  BY <1>2
<1>4. ~verify_ungated_and_descendant(signer, object)
  BY <1>1, <1>3, GatedStopsTheWalk
<1>5. objects[object].owner # BURN_ADDRESS
  <2>1. CASE n = 0
    BY <1>1, <1>3, <2>1, DisjointAddresses
  <2>2. CASE n # 0
    <3>1. 0 \in 0 .. n - 1 /\ 1 \in 0 .. n /\ 0 + 1 = 1
      BY <2>2
    <3>2. objects[object].owner \in DOMAIN objects
      BY <1>3, <3>1
    <3> QED
      BY <1>1, <3>2, DisjointAddresses DEF ObjectsTypeOK, IsTable
  <2> QED
    BY <2>1, <2>2
<1>6. ASSUME NEW to \in Addresses, transfer_raw(signer, other, to)
      PROVE  objects'[object].owner = objects[object].owner
  <2>1. other # object
    BY <1>4, <1>6 DEF transfer_raw
  <2> QED
    BY <1>6, <2>1 DEF transfer_raw, transfer_raw_inner
<1>7. CASE burn(signer, other)
  BY <1>7 DEF burn
<1>8. CASE unburn(signer, other)
  <2>1. UNCHANGED objects \/ (other # object /\ objects' = [objects EXCEPT ![other].owner = signer])
    BY <1>5, <1>8 DEF unburn, transfer_raw_inner
  <2> QED
    BY <2>1
<1> QED
  BY <1>6, <1>7, <1>8

\* The reputation module adds an object at most, and leaves the agents alone.
LEMMA ReputationAddsObjects ==
  ASSUME ReputationStep
  PROVE  /\ UNCHANGED agents
         /\ \/ UNCHANGED objects
            \/ \E o : o \notin DOMAIN objects /\ \E core : objects' = add(objects, o, core)
<1>1. ASSUME NEW issuer, NEW agent, NEW score, NEW uri, NEW gated, NEW reputation,
             issue_reputation(issuer, agent, score, uri, gated, reputation)
      PROVE  /\ UNCHANGED agents /\ reputation \notin DOMAIN objects
             /\ \E core : objects' = add(objects, reputation, core)
  BY <1>1 DEF issue_reputation
<1>2. ASSUME NEW issuer, NEW reputation, revoke_reputation(issuer, reputation)
      PROVE  UNCHANGED <<agents, objects>>
  BY <1>2 DEF revoke_reputation, objectVars, agentVars
<1>3. ASSUME NEW responder, NEW reputation, NEW response,
             append_response(responder, reputation, response)
      PROVE  /\ UNCHANGED agents /\ response \notin DOMAIN objects
             /\ \E core : objects' = add(objects, response, core)
  BY <1>3 DEF append_response, with_object, agentVars
<1>4. ASSUME NEW signer, NEW address,
             \/ grant_issuer_capability(signer, address)
             \/ revoke_issuer_capability(signer, address)
             \/ transfer_governance(signer, address)
      PROVE  UNCHANGED <<agents, objects>>
  BY <1>4 DEF grant_issuer_capability, revoke_issuer_capability, transfer_governance,
     objectVars, agentVars
<1> QED
  BY <1>1, <1>2, <1>3, <1>4 DEF ReputationStep

\* The framework itself only adds objects.
LEMMA FrameworkAddsObjects ==
  ASSUME [Next]_vars
  PROVE  \A object \in DOMAIN objects : object \in DOMAIN objects' /\ objects'[object] = objects[object]
<1>1. CASE AgentStep
  BY <1>1 DEF AgentStep, create_agent, grant_feedback_auth, revoke_feedback_auth,
     update_agent, transfer_owner, objectVars, add
<1>2. CASE ReputationStep
  BY <1>2, ReputationAddsObjects DEF add
<1>3. CASE NextBlock \/ UNCHANGED vars
  BY <1>3 DEF NextBlock, vars, objectVars
<1> QED
  BY <1>1, <1>2, <1>3 DEF Next

LEMMA EnclosedStay ==
  ASSUME PinnedInv, [FrameworkNext]_vars,
         NEW object \in DOMAIN objects, OwnersUp(object) \cap Pinned # {}
  PROVE  objects'[object].owner = objects[object].owner
<1>1. CASE [Next]_vars
  BY <1>1, FrameworkAddsObjects
<1>2. ASSUME NEW signer \in Accounts, NEW asset \in AssetAddresses, create_asset(signer, asset)
      PROVE  objects'[object].owner = objects[object].owner
  BY <1>2 DEF create_asset, with_object, add
<1>3. ASSUME NEW signer \in Accounts, NEW other \in DOMAIN objects,
             \/ \E to \in Addresses : transfer_raw(signer, other, to)
             \/ burn(signer, other)
             \/ unburn(signer, other)
      PROVE  objects'[object].owner = objects[object].owner
  BY <1>3, AccountsKeepEnclosed
<1> QED
  BY <1>1, <1>2, <1>3 DEF FrameworkNext, ObjectStep

\* Agents stay gated objects of the accounts that created them.
LEMMA StepKeepsPinned == PinnedInv /\ [FrameworkNext]_vars => PinnedInv'
<1> SUFFICES ASSUME PinnedInv, [FrameworkNext]_vars
             PROVE  AgentsGated'
  BY StepIsALedgerStep DEF PinnedInv
<1>1. ASSUME UNCHANGED agents,
             \A agent \in DOMAIN agents :
               /\ agent \in DOMAIN objects' /\ ~objects'[agent].allow_ungated_transfer
               /\ objects'[agent].owner = objects[agent].owner
      PROVE  AgentsGated'
  BY <1>1 DEF PinnedInv, AgentsGated
<1>2. CASE AgentStep
  <2>1. ASSUME NEW creator \in Accounts, NEW agent, NEW metadata_uri, NEW domain,
               create_agent(creator, agent, metadata_uri, domain)
        PROVE  AgentsGated'
    <3> DEFINE core == [owner |-> creator, allow_ungated_transfer |-> FALSE]
    <3>1. /\ DOMAIN agents' = DOMAIN agents \cup {agent}
          /\ objects' = add(objects, agent, core) /\ agent \notin DOMAIN objects
      BY <2>1 DEF create_agent, add
    <3>2. core.owner = creator /\ core.allow_ungated_transfer = FALSE
      OBVIOUS
    <3> HIDE DEF core
    <3>3. /\ DOMAIN objects' = DOMAIN objects \cup {agent} /\ objects'[agent] = core
          /\ \A o \in DOMAIN objects : objects'[o] = objects[o]
      BY <3>1 DEF add
    <3> QED
      BY <3>1, <3>2, <3>3 DEF AgentsGated, PinnedInv
  <2>2. ASSUME UNCHANGED objects, DOMAIN agents' = DOMAIN agents
        PROVE  AgentsGated'
    BY <2>2 DEF AgentsGated, PinnedInv
  <2>3. \/ \E creator \in Accounts : \E agent, metadata_uri, domain :
             create_agent(creator, agent, metadata_uri, domain)
        \/ UNCHANGED objects /\ DOMAIN agents' = DOMAIN agents
    BY <1>2 DEF AgentStep, grant_feedback_auth, revoke_feedback_auth,
       update_agent, transfer_owner, objectVars
  <2> QED
    BY <2>1, <2>2, <2>3
<1>3. CASE ReputationStep
  <2>1. UNCHANGED agents
    BY <1>3, ReputationAddsObjects
  <2>2. [Next]_vars
    BY <1>3 DEF Next
  <2> QED
    BY <1>1, <2>1, <2>2, FrameworkAddsObjects DEF PinnedInv, AgentsGated
<1>4. CASE NextBlock \/ UNCHANGED vars
  <2>1. UNCHANGED <<agents, objects>>
    BY <1>4 DEF NextBlock, vars, objectVars, agentVars
  <2> QED
    BY <1>1, <2>1 DEF PinnedInv, AgentsGated
<1>5. CASE ObjectStep
  <2>1. UNCHANGED agents
    BY <1>5 DEF ObjectStep, agentVars
  <2>2. ASSUME NEW agent \in DOMAIN agents
        PROVE  /\ agent \in DOMAIN objects' /\ ~objects'[agent].allow_ungated_transfer
               /\ objects'[agent].owner = objects[agent].owner
    <3>1. /\ agent \in DOMAIN objects /\ ~objects[agent].allow_ungated_transfer
          /\ objects[agent].owner # BURN_ADDRESS
      BY DisjointAddresses DEF PinnedInv, AgentsGated
    <3>2. CASE \E signer \in Accounts, asset \in AssetAddresses : create_asset(signer, asset)
      BY <3>1, <3>2 DEF create_asset, with_object, add
    <3>3. ASSUME NEW signer, NEW object,
                 \/ \E to : transfer_raw(signer, object, to)
                 \/ burn(signer, object)
                 \/ unburn(signer, object)
          PROVE  /\ agent \in DOMAIN objects' /\ ~objects'[agent].allow_ungated_transfer
                 /\ objects'[agent].owner = objects[agent].owner
      BY <3>1, <3>3, GatedFromSigners DEF PinnedInv, LedgerInv, TypeOK
    <3> QED
      BY <1>5, <3>2, <3>3 DEF ObjectStep
  <2> QED
    BY <1>1, <2>1, <2>2
<1> QED
  BY <1>2, <1>3, <1>4, <1>5 DEF FrameworkNext, Next

\* Nothing that anyone can call moves an agent, an NFT, or what was moved into one
\* of them, however deep and however many objects there are: the walk of
\* verify_ungated_and_descendant does not go past an object that is gated.
THEOREM EnclosedForever == FrameworkSpec => EnclosedObjectsStay
<1>1. Init => PinnedInv
  <2> SUFFICES ASSUME Init PROVE PinnedInv
    OBVIOUS
  <2>1. DOMAIN reputations = {} /\ DOMAIN agents = {}
    BY DEF Init, InitAgents, new
  <2> QED
    BY <2>1, TypeOKInitially DEF PinnedInv, LedgerInv, Soulbound, AgentsGated
<1>2. PinnedInv /\ [FrameworkNext]_vars =>
        [\A object \in DOMAIN objects :
           OwnersUp(object) \cap Pinned # {} =>
             objects'[object].owner = objects[object].owner]_vars
  BY EnclosedStay
<1> QED
  BY <1>1, <1>2, StepKeepsPinned, PTL DEF FrameworkSpec, EnclosedObjectsStay
=============================================================================
