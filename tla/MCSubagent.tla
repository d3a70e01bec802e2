----------------------------- MODULE MCSubagent -----------------------------
(* One run, three sub-agents on two levels, one retry.                      *)
EXTENDS Subagent

CONSTANT r1

MCRuns == {r1}
=============================================================================
