---------------------------- MODULE MCAgentRuntime ----------------------------
\* AgentRuntime with a budget of few steps: every tool, wait and escalation
\* fits in it, and so does its exhaustion.
EXTENDS AgentRuntime
=============================================================================
