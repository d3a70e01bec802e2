--------------------------- MODULE MCConversation ---------------------------
(* Conversations of a few messages, short runs and parallel tool calls.     *)
EXTENDS Conversation
=============================================================================
