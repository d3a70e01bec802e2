----------------------------- MODULE MCToolCall -----------------------------
(* Two calls of one session: guarded, unguarded and denied commands.        *)
EXTENDS ToolCall

MCTools == {"bash", "read_file"}

MCDefault == [t \in MCTools |-> IF t = "read_file" THEN "allow" ELSE "ask"]

MCInitialFile == [t \in MCTools |-> "none"]

Plain(t) == [session |-> "s1", tool |-> t,
             deny |-> FALSE, outside |-> FALSE, permit |-> FALSE]

MCCalls == {Plain("bash"), Plain("read_file"), [Plain("bash") EXCEPT !.deny = TRUE]}
=============================================================================
