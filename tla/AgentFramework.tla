---------------------------- MODULE AgentFramework ----------------------------
(***************************************************************************)
(* The agent framework on the chain it runs on.  Agents, reputation NFTs    *)
(* and response records are objects, so besides the entry functions of the  *)
(* framework any account can call those of aptos_framework::object on them, *)
(* with objects of its own (assets) that it can move into them.             *)
(*                                                                         *)
(* The framework keeps no ConstructorRef, DeleteRef, ExtendRef or           *)
(* TransferRef after the call that creates an object, so transfer, burn and *)
(* unburn are all that can be called on its objects.                        *)
(***************************************************************************)
EXTENDS AgentReputation, FiniteSets

CONSTANT AssetAddresses   \* unique addresses for objects of other modules

ASSUME AssetAddressesAssumption ==
  /\ AssetAddresses \subseteq ObjectAddresses
  /\ AssetAddresses \cap (AgentAddresses \cup ReputationAddresses
                          \cup ResponseAddresses) = {}

\* Addresses have 32 bytes.
ASSUME FinitelyManyAddresses == IsFiniteSet(ObjectAddresses)

(* Another module creates an object for an account and keeps no refs.       *)
create_asset(creator, asset) ==
  /\ asset \in AssetAddresses \ DOMAIN objects
  /\ objects' = with_object(asset, creator)
  /\ UNCHANGED <<untransferable, tombstones>>

ObjectStep ==
  /\ \E signer \in Accounts :
       \/ \E asset \in AssetAddresses : create_asset(signer, asset)
       \/ \E object \in DOMAIN objects :
            \/ \E to \in Addresses : transfer_raw(signer, object, to)
            \/ burn(signer, object)
            \/ unburn(signer, object)
  /\ UNCHANGED <<microseconds, agentVars, reputationVars>>

FrameworkNext == Next \/ ObjectStep

FrameworkSpec == Init /\ [][FrameworkNext]_vars

-----------------------------------------------------------------------------
\* The objects that the framework pins to the account that created them.
Pinned == DOMAIN agents \cup DOMAIN reputations

\* object, its owner, the owner of that, ... as far as they are objects.
OwnersUp(object) ==
  LET up[k \in 0 .. Cardinality(ObjectAddresses)] ==
        IF k = 0 THEN object
        ELSE IF contains(objects, up[k - 1]) THEN objects[up[k - 1]].owner
                                             ELSE up[k - 1]
  IN  {up[k] : k \in DOMAIN up}

(* Agents and reputation NFTs are never moved - the NFTs are soulbound - and *)
(* neither is anything that was moved into one of them, directly or through *)
(* other objects: nobody can sign for an agent or an NFT, and the walk of a *)
(* transfer does not go past them.  What an agent owns it owns for ever.    *)
EnclosedObjectsStay ==
  [][\A object \in DOMAIN objects :
       OwnersUp(object) \cap Pinned # {} =>
         objects'[object].owner = objects[object].owner]_vars

\* What an NFT says that is fixed, with the account that holds it: its owner.
CoreOf(n) ==
  [agent |-> reputations[n].agent, issuer |-> reputations[n].issuer,
   score |-> reputations[n].score, issued_at |-> reputations[n].issued_at,
   feedback_index |-> reputations[n].feedback_index, holder |-> objects[n].owner]

Cores == [agent : AgentAddresses, issuer : Accounts, score : AcceptedScores,
          issued_at : Seconds, feedback_index : FeedbackIndices, holder : Accounts]

ledger ==
  [n \in DOMAIN reputations |->
     [core |-> CoreOf(n), revoked |-> reputations[n].revoked,
      responses |-> reputations[n].response_count]]

Ledger == INSTANCE ReputationLedger
  WITH Entries <- ReputationAddresses, MaxResponses <- MAX_RESPONSES

(* Whatever accounts do with the framework and with its objects, the NFTs   *)
(* are a ledger in the sense of ReputationLedger: what an NFT says is fixed *)
(* when it is issued and who holds it too, a revoked NFT stays revoked, and *)
(* responses are counted one by one.                                        *)
ImplementsLedger == Ledger!Spec

(* What a comment of create_agent_internal says: transfer_owner properly    *)
(* maintains ownership consistency, so the two owners of an agent agree.    *)
OwnershipConsistent ==
  \A agent \in DOMAIN agents : agents[agent].owner = objects[agent].owner

(* What the AIP says of agents: they own their reputation NFTs.             *)
AgentsOwnTheirReputation ==
  \A n \in DOMAIN reputations : objects[n].owner = reputations[n].agent
=============================================================================
