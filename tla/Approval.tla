------------------------------ MODULE Approval ------------------------------
(***************************************************************************)
(* What the permission gate promises, with none of its machinery: a call   *)
(* is granted only by the policy, by a standing "always" answer for its    *)
(* tool, or by its own answer; a denied command never runs and a command   *)
(* that leaves the working directory runs only on its own answer.          *)
(***************************************************************************)
EXTENDS PermissionPolicy

CONSTANTS Requests,     \* tool_use ids
          InitialFile   \* verdicts already in policy.toml: [Tools -> Cached]

VARIABLES call,         \* the call each request makes
          answer,       \* the user's answer, None before it is given
          verdict       \* "new", "asked", "granted", "refused", "dropped"

approvalVars == <<call, answer, verdict>>

NoCall == [tool |-> None]

\* Some user said "always" of the tool, and the call it was said to settled so.
Standing(t, d) ==
    \/ InitialFile[t] = CachedAs(d)
    \/ \E q \in Requests :
          /\ verdict[q] = IF d = "always_allow" THEN "granted" ELSE "refused"
          /\ call[q].tool = t
          /\ answer[q] = d

MayGrant(c) ==
    /\ ~c.deny /\ ~c.outside
    /\ StaticVerdict(c) = "allow" \/ Standing(c.tool, "always_allow")

MayRefuse(c) ==
    \/ c.deny
    \/ ~c.outside /\ (StaticVerdict(c) = "deny" \/ Standing(c.tool, "always_deny"))

ApprovalInit ==
    /\ call = [r \in Requests |-> NoCall]
    /\ answer = [r \in Requests |-> None]
    /\ verdict = [r \in Requests |-> "new"]

Submit(r, c) ==
    /\ verdict[r] = "new"
    /\ call' = [call EXCEPT ![r] = c]
    /\ \/ MayGrant(c) /\ verdict' = [verdict EXCEPT ![r] = "granted"]
       \/ MayRefuse(c) /\ verdict' = [verdict EXCEPT ![r] = "refused"]
       \/ ~c.deny /\ verdict' = [verdict EXCEPT ![r] = "asked"]
    /\ UNCHANGED answer

\* A set of requests is answered at once when a whole session is cancelled.
Answer(R, d) ==
    /\ \A r \in R : verdict[r] \in {"asked", "dropped"} /\ answer[r] = None
    /\ answer' = [r \in Requests |-> IF r \in R THEN d ELSE answer[r]]
    /\ UNCHANGED <<call, verdict>>

Settle(r) ==
    /\ verdict[r] = "asked"
    /\ \/ answer[r] \in Allowing /\ verdict' = [verdict EXCEPT ![r] = "granted"]
       \/ verdict' = [verdict EXCEPT ![r] = "refused"]
       \/ verdict' = [verdict EXCEPT ![r] = "dropped"]
    /\ UNCHANGED <<call, answer>>

DropAll ==
    /\ verdict' = [r \in Requests |->
                     IF verdict[r] = "asked" THEN "dropped" ELSE verdict[r]]
    /\ UNCHANGED <<call, answer>>

ApprovalNext ==
    \/ \E r \in Requests : Settle(r) \/ \E c \in Calls : Submit(r, c)
    \/ \E R \in SUBSET Requests, d \in Decisions : Answer(R, d)
    \/ DropAll

ApprovalSpec == ApprovalInit /\ [][ApprovalNext]_approvalVars
=============================================================================
