----------------------------- MODULE MCTerminals -----------------------------
(* One client; its runs ask for one approval.                               *)
EXTENDS Terminals

MCSends == {"send", "send again"}
MCCommands == MCSends \cup {"subscribe", "create", "compact", "respond", "close", "run"}
=============================================================================
