-------------------------- MODULE PermissionPolicy --------------------------
(***************************************************************************)
(* The static part of the permission gate: what a tool call looks like to  *)
(* it and what the per-tool policies say of it, before any user decision   *)
(* is taken into account (core/permissions/policy.py).  The regular        *)
(* expressions are abstracted to the three questions the code asks of a    *)
(* bash command: does it match a deny pattern, does it leave the working   *)
(* directory, does it match an allow pattern.                              *)
(***************************************************************************)

CONSTANTS Sessions,    \* session ids
          Tools,       \* names of the tools an LLM may call
          Bash,        \* the one tool whose "command" parameter is inspected
          Default,     \* [Tools -> default verdict]; "ask" for unlisted tools
          Calls,       \* the calls an LLM may make: a subset of CallType
          Answers      \* what clients send: a subset of Decisions

Verdicts == {"allow", "deny", "ask"}

\* deny, outside, permit: the command matches a deny pattern, an
\* outside-cwd heuristic, an allow pattern.
CallType == [session : Sessions, tool : Tools,
             deny : BOOLEAN, outside : BOOLEAN, permit : BOOLEAN]

\* Tiers 5 and 6 of check_and_wait: allow patterns, then the tool's default.
StaticVerdict(c) == IF c.permit THEN "allow" ELSE Default[c.tool]

-----------------------------------------------------------------------------
(* Decisions a client may send, and what the caches may hold.              *)

\* permission.respond does not validate its decision: "other" stands for a
\* string that is none of the four documented ones (nor "auto_allow" or
\* "auto_deny", which no client of the repository sends).
Decisions == {"allow_once", "always_allow", "deny_once", "always_deny", "other"}
Allowing  == {"allow_once", "always_allow"}
Always    == {"always_allow", "always_deny"}

ASSUME PolicyAssumption ==
    /\ Default \in [Tools -> Verdicts]
    /\ Calls \subseteq CallType
    /\ Answers \subseteq Decisions
    /\ \A c \in Calls :
          c.tool # Bash => ~c.deny /\ ~c.outside /\ ~c.permit

None   == "none"                       \* no entry, no answer
Cached == {None, "allow", "deny"}      \* value of a cache or file entry

CachedAs(d) == IF d = "always_allow" THEN "allow" ELSE "deny"
=============================================================================
