-------------------------- MODULE MCAgentProtocol --------------------------
(***************************************************************************)
(* The missions of MCMission, created by another agent.                    *)
(***************************************************************************)
EXTENDS AgentProtocol, MCMission
=============================================================================
