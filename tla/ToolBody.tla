--------------------------------- MODULE ToolBody ---------------------------------
(*****************************************************************************)
(* What the guard and the token provider may assume of the body of a tool: it *)
(* asks GitHub one request after another, no more of them than its tool has   *)
(* use for, and gives a result only at its end. RepositoryReads has what the   *)
(* requests say, ToolCalls the guard, the token and the clock around them;    *)
(* both implement this module.                                                *)
(*****************************************************************************)
EXTENDS Naturals

CONSTANT MaxPages   \* _MAX_INSTALLATION_REPOS_PAGES

NoTool == "none"

VARIABLES
    at,        \* where the body is
    tool,      \* whose body it is, while it asks
    answered,  \* requests that were answered
    returned   \* it ended with a result

vars == <<at, tool, answered, returned>>

\* A page each, the metadata and the raw content, or a single request.
MaxAnswers(t) ==
    IF t = "list_repos" THEN MaxPages ELSE IF t = "read_file" THEN 2 ELSE 1

Init == at = "idle" /\ tool = NoTool /\ answered = 0 /\ returned = FALSE

Ends(result) ==
    /\ at' = "ended" /\ tool' = NoTool /\ answered' = 0
    /\ returned' = result

\* The first request is under way.
Ask(t) ==
    /\ at = "idle"
    /\ at' = "asking" /\ tool' = t
    /\ UNCHANGED <<answered, returned>>

\* An answer that is not enough: the next request.
AskNext ==
    /\ at = "asking"
    /\ answered + 1 < MaxAnswers(tool)
    /\ answered' = answered + 1
    /\ UNCHANGED <<at, tool, returned>>

\* With a result or an error, and also before the first request.
End(result) == at \in {"idle", "asking"} /\ Ends(result)

Next ==
    \/ \E t \in {"list_repos", "get_repo_tree", "read_file", "search_code"} : Ask(t)
    \/ AskNext
    \/ \E result \in BOOLEAN : End(result)

Spec == Init /\ [][Next]_vars
=============================================================================
