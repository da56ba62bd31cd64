----------------------------- MODULE MCWorktrees -----------------------------
(* Worktrees and processes for TLC.                                        *)
EXTENDS WorktreesProperties

CONSTANTS p1, p2

MCNames == {<<"B", "-">>, <<"b", "a", "b">>}
MCClean == [c \in {"a", "b", "B", "-", "_"} |->
              CASE c = "B" -> "b" [] c = "-" -> "_" [] OTHER -> c]
MCCheckouts == {<<"B", "-">>}
MCSlugVar == [p \in Procs |-> IF p = p2 THEN <<"a">> ELSE <<>>]
=============================================================================
