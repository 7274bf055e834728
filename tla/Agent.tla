-------------------------------- MODULE Agent --------------------------------
(***************************************************************************)
(* aaf::agent: agents are objects with an owner of their own, the field     *)
(* Agent.owner, which is what every permission check reads, and a table of  *)
(* the clients that the owner has authorised to give feedback.              *)
(*                                                                         *)
(* Every action is one committed transaction; the asserts of a function are *)
(* the guards of its action.  An Option is a set of at most one element.    *)
(* Events are left out.                                                     *)
(***************************************************************************)
EXTENDS ObjectCore, Timestamp

CONSTANTS
  AgentAddresses,   \* unique addresses for agent objects
  MetadataUris,     \* metadata URIs that callers pass
  EmptyUri,         \* the empty string
  Domains,          \* domains that callers pass
  Clients,          \* clients that owners authorise
  NewOwners,        \* addresses that agents are transferred to
  IndexLimits,      \* quotas that owners grant
  Expiries,         \* expiry times that owners grant, in seconds
  MaxEpochs         \* bound on the times a client is authorised afresh

ASSUME AgentAddressesAssumption == AgentAddresses \subseteq ObjectAddresses
ASSUME PartiesAssumption == Clients \cup NewOwners \subseteq Addresses
ASSUME GrantsAssumption == IndexLimits \subseteq Nat /\ Expiries \subseteq Nat

VARIABLES
  agents,           \* Agent: agent -> [owner, metadata_uri, domain]
  feedback_auths,   \* Agent.feedback_auths: agent -> client -> FeedbackAuth
  epochs            \* history: agent -> client -> [number, high], see below

agentVars == <<agents, feedback_auths, epochs>>

Option(S) == {{}} \cup {{value} : value \in S}

FeedbackAuth == [index_limit : IndexLimits, expiry : Expiries, last_index : Nat]

Agent == [owner : Addresses, metadata_uri : MetadataUris \ {EmptyUri},
          domain : Option(Domains)]

(* epochs is no state of the program: it counts how often a client was      *)
(* authorised afresh (number), and keeps the largest index_limit that the   *)
(* present authorisation ever had (high).                                   *)
Epoch == [number : Nat, high : Nat]

InitAgents ==
  /\ agents = new
  /\ feedback_auths = new
  /\ epochs = [agent \in AgentAddresses |->
                 [client \in Addresses |-> [number |-> 0, high |-> 0]]]

\* An Object<Agent> argument names an existing agent; the signer is its owner.
owned(owner, agent) == contains(agents, agent) /\ agents[agent].owner = owner

-----------------------------------------------------------------------------
\* Fault: object transfers stay enabled.
create_agent_transferable(creator, agent, metadata_uri, domain) ==
  /\ metadata_uri # EmptyUri
  /\ agent \in AgentAddresses \ DOMAIN objects
  /\ objects' = with_object(agent, creator)
  /\ agents' = add(agents, agent,
                   [owner |-> creator, metadata_uri |-> metadata_uri,
                    domain |-> domain])
  /\ feedback_auths' = add(feedback_auths, agent, new)
  /\ UNCHANGED <<untransferable, tombstones, epochs>>

(* create_agent_internal and its three entry functions.  The object is at a *)
(* fresh address; the TransferRef with which its ungated transfer is        *)
(* disabled, and the ConstructorRef, end with the call.                     *)
create_agent(creator, agent, metadata_uri, domain) ==
  /\ metadata_uri # EmptyUri
  /\ agent \in AgentAddresses \ DOMAIN objects
  /\ objects' = add(objects, agent,
                    [owner |-> creator, allow_ungated_transfer |-> FALSE])
  /\ agents' = add(agents, agent,
                   [owner |-> creator, metadata_uri |-> metadata_uri,
                    domain |-> domain])
  /\ feedback_auths' = add(feedback_auths, agent, new)
  /\ UNCHANGED <<untransferable, tombstones, epochs>>

\* Fault: a grant to an authorised client starts its index afresh.
grant_resetting(owner, agent, client, index_limit, expiry) ==
  /\ expiry > now_seconds
  /\ owned(owner, agent)
  /\ epochs[agent][client].number < MaxEpochs
  /\ feedback_auths' = [feedback_auths EXCEPT ![agent] =
                  add(@, client, [index_limit |-> index_limit,
                                  expiry |-> expiry, last_index |-> 0])]
  /\ epochs' = IF contains(feedback_auths[agent], client) THEN epochs
               ELSE [epochs EXCEPT ![agent][client] =
                       [number |-> @.number + 1, high |-> index_limit]]
  /\ UNCHANGED <<objectVars, agents>>

\* The client has no authorisation: it gets a new one, with index 0.
grant_first(agent, client, index_limit, expiry) ==
  /\ ~contains(feedback_auths[agent], client)
  /\ epochs[agent][client].number < MaxEpochs
  /\ feedback_auths' = [feedback_auths EXCEPT ![agent] =
                  add(@, client, [index_limit |-> index_limit,
                                  expiry |-> expiry, last_index |-> 0])]
  /\ epochs' = [epochs EXCEPT ![agent][client] =
                  [number |-> @.number + 1, high |-> index_limit]]

\* The client has one: its index goes on where it was, even above the limit.
grant_again(agent, client, index_limit, expiry) ==
  /\ contains(feedback_auths[agent], client)
  /\ feedback_auths' = [feedback_auths EXCEPT ![agent][client] =
                          [index_limit |-> index_limit, expiry |-> expiry,
                           last_index |-> @.last_index]]
  /\ epochs' = [epochs EXCEPT ![agent][client] =
                  [number |-> @.number,
                   high |-> IF index_limit > @.high THEN index_limit ELSE @.high]]

grant_feedback_auth(owner, agent, client, index_limit, expiry) ==
  /\ expiry > now_seconds
  /\ owned(owner, agent)
  /\ \/ grant_first(agent, client, index_limit, expiry)
     \/ grant_again(agent, client, index_limit, expiry)
  /\ UNCHANGED <<objectVars, agents>>

revoke_feedback_auth(owner, agent, client) ==
  /\ owned(owner, agent)
  /\ contains(feedback_auths[agent], client)
  /\ feedback_auths' = [feedback_auths EXCEPT ![agent] = remove(@, client)]
  /\ UNCHANGED <<objectVars, agents, epochs>>

(* update_agent.  A domain that is given replaces the domain of the agent;  *)
(* none leaves it, so a domain is never taken away.                         *)
update_agent(owner, agent, new_metadata_uri, new_domain) ==
  /\ owned(owner, agent)
  /\ EmptyUri \notin new_metadata_uri
  /\ agents' = [agents EXCEPT ![agent] =
       [owner        |-> @.owner,
        metadata_uri |-> IF new_metadata_uri = {} THEN @.metadata_uri
                         ELSE CHOOSE uri \in new_metadata_uri : TRUE,
        domain       |-> IF new_domain = {} THEN @.domain ELSE new_domain]]
  /\ UNCHANGED <<objectVars, feedback_auths, epochs>>

(* transfer_owner: the owner of the object stays as it is                   *)
transfer_owner(owner, agent, new_owner) ==
  /\ owned(owner, agent)
  /\ agents' = [agents EXCEPT ![agent].owner = new_owner]
  /\ UNCHANGED <<objectVars, feedback_auths, epochs>>

(* The view has_valid_feedback_auth, and the asserts of                     *)
(* verify_and_consume_feedback_auth                                         *)
has_valid_feedback_auth(agent, client) ==
  /\ contains(agents, agent)
  /\ contains(feedback_auths[agent], client)
  /\ LET auth == feedback_auths[agent][client]
     IN  now_seconds < auth.expiry /\ auth.last_index < auth.index_limit

\* Fault: the last index is compared with <=.
verify_inclusive(agent, client) ==
  /\ contains(agents, agent)
  /\ contains(feedback_auths[agent], client)
  /\ now_seconds < feedback_auths[agent][client].expiry
  /\ feedback_auths[agent][client].last_index <= feedback_auths[agent][client].index_limit
  /\ feedback_auths' = [feedback_auths EXCEPT ![agent][client].last_index = @ + 1]

(* verify_and_consume_feedback_auth; its result is the last_index it leaves *)
verify_and_consume_feedback_auth(agent, client) ==
  /\ has_valid_feedback_auth(agent, client)
  /\ feedback_auths' = [feedback_auths EXCEPT ![agent][client].last_index = @ + 1]

-----------------------------------------------------------------------------
AgentsTypeOK ==
  /\ IsTable(agents, AgentAddresses, Agent)
  /\ feedback_auths = [agent \in DOMAIN agents |-> feedback_auths[agent]]
  /\ \A agent \in DOMAIN agents : IsTable(feedback_auths[agent], Addresses, FeedbackAuth)
  /\ epochs \in [AgentAddresses -> [Addresses -> Epoch]]
=============================================================================
