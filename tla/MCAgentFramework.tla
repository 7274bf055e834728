--------------------------- MODULE MCAgentFramework ---------------------------
(* Small instances of AgentFramework for TLC.                               *)
EXTENDS AgentFramework

CONSTANTS alice, bob, agent1, nft1, response1, asset1

MCAccounts == {alice, bob}
MCObjects == {agent1, nft1, response1, asset1}
=============================================================================
