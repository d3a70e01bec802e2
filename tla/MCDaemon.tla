------------------------------ MODULE MCDaemon ------------------------------
(* One run of agent.run, one of session.send_message, one MCP server.       *)
EXTENDS Daemon

CONSTANTS a, s

MCCallers == {a, s}
MCOneShot == {a}
=============================================================================
