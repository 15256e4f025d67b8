---- MODULE MCAgentMission ----
EXTENDS AgentMission
====
