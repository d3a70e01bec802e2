---------------------------- MODULE MCPermission ----------------------------
(* The permission manager with three calls by two sessions.                 *)
EXTENDS Permission, TLC

MCTools == {"bash", "read_file", "write_file"}

MCDefault == [t \in MCTools |-> IF t = "read_file" THEN "allow" ELSE "ask"]

\* policy.toml as an earlier run of the daemon left it
MCInitialFile == [t \in MCTools |-> IF t = "write_file" THEN "deny" ELSE "none"]

Plain(s, t) == [session |-> s, tool |-> t,
                deny |-> FALSE, outside |-> FALSE, permit |-> FALSE]

\* A plain command in one session; in the other one that an allow pattern
\* matches but that leaves the working directory; and one that an allow and a
\* deny pattern match.
MCCalls == {Plain("s1", "bash"),
            [Plain("s2", "bash") EXCEPT !.outside = TRUE, !.permit = TRUE],
            [Plain("s1", "bash") EXCEPT !.deny = TRUE, !.permit = TRUE]}

Symmetry == Permutations(Requests)
=============================================================================
