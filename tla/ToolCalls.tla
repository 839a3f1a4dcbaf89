-------------------------------- MODULE ToolCalls --------------------------------
(*****************************************************************************)
(* Tool calls of the management server: the guard around a tool body          *)
(* (guard.py, policy.py), the GitHub requests the body makes (tools.py,       *)
(* client.py) and the token provider they share. One coroutine per call, all  *)
(* on one event loop: a step runs from one suspension to the next, and the    *)
(* audit record is part of the step that ends the call. What GitHub answers   *)
(* is kept only as far as it decides how the call goes on.                    *)
(*****************************************************************************)
EXTENDS TokenProvider, Sequences

CONSTANTS
    Role,         \* keys of MCP_ROLE_TOOLS
    RoleTools,    \* role_tools
    Repo,         \* repositories a caller may name
    Allowlist,    \* repo_allowlist
    MaxPages      \* _MAX_INSTALLATION_REPOS_PAGES

Tools == {"list_repos", "get_repo_tree", "read_file", "search_code"}

NoRole == "anonymous"
NoRepo == "none"

ASSUME GuardAssumption ==
    /\ NoRole \notin Role
    /\ RoleTools \in [Role -> SUBSET Tools]
    /\ NoRepo \notin Repo
    /\ Allowlist \subseteq Repo
    /\ MaxPages \in Nat \ {0}

\* The leeway outlasts a request on both clocks; so does a new token.
ASSUME RequestAssumption ==
    /\ MaxAhead + Timeout <= Leeway
    /\ 2 * Timeout < Lifetime

VARIABLES
    calls,  \* the call each coroutine makes
    audit   \* history: what became of the audit records of each call

callVars == <<calls, audit>>
allVars == <<vars, callVars>>

CallPCs == {"idle", "token", "wire", "ended"}

AuditOutcomes == {"ok", "denied", "error"}

\* An audit record, or the exception of a sink that could not be written.
Entries == AuditOutcomes \cup {"failed"}

\* requests: sent so far. since: when the last one was. expires: when its token
\* does, on GitHub's clock. returned: the caller got the result of the body.
Calls == [pc : CallPCs, tool : Tools, requests : Nat, since : Nat, expires : Int,
          returned : BOOLEAN]

NoCall == [pc |-> "idle", tool |-> "list_repos", requests |-> 0, since |-> 0,
           expires |-> 0, returned |-> FALSE]

OwnTypeOK ==
    /\ calls \in [Caller -> Calls]
    /\ audit \in [Caller -> Seq(Entries)]

\* The calls and the provider under them are well formed.
CallTypeOK == TypeOK /\ OwnTypeOK

CallInit ==
    /\ Init
    /\ calls = [c \in Caller |-> NoCall]
    /\ audit = [c \in Caller |-> <<>>]

At(c, label) == calls[c].pc = label

\* The coroutine has an outcome of get_token to act on.
HasAnswer(c) == At(c, "token") /\ waiting[c] = 0

-----------------------------------------------------------------------------
(* The guard *)

\* authorize: the role's tools first, then the repository if the tool has one.
Authorized(role, tool, repo) ==
    /\ role \in Role
    /\ tool \in RoleTools[role]
    /\ repo # NoRepo => repo \in Allowlist

\* The call ends with this entry in the audit; its frame is gone.
Close(c, entry, returned) ==
    /\ audit' = [audit EXCEPT ![c] = Append(@, entry)]
    /\ calls' = [calls EXCEPT ![c] = [NoCall EXCEPT !.pc = "ended", !.returned = returned]]

\* Mutant of End: a sink that fails is logged and forgotten, as in the slackbot.
EndAnyway(c, outcome, returned) ==
    Close(c, outcome, returned) \/ Close(c, "failed", returned)

\* The record of the call, its last step. emit lets an exception of its stream
\* through, and from the finally clause it replaces the result of the call.
End(c, outcome, returned) ==
    Close(c, outcome, returned) \/ Close(c, "failed", FALSE)

\* get_token is called, for the next request of the call.
AskToken(c, tool) ==
    /\ GetToken(c)
    /\ calls' = [calls EXCEPT ![c] = [@ EXCEPT !.pc = "token", !.tool = tool]]
    /\ UNCHANGED audit

\* wrapper, up to its first suspension: the decision, the checks of the body on
\* its arguments (SecurityBoundaryError), and get_token for the first request.
CallTool(c, tool, role, repo, safe) ==
    /\ At(c, "idle")
    /\ repo = NoRepo <=> tool = "list_repos"
    /\ IF ~Authorized(role, tool, repo) \/ (tool # "list_repos" /\ ~safe)
       THEN End(c, "denied", FALSE) /\ UNCHANGED vars
       ELSE IF tool = "list_repos" /\ Allowlist = {}
            THEN End(c, "ok", TRUE) /\ UNCHANGED vars
            ELSE AskToken(c, tool)

\* Mutant of SendRequest: the client keeps the token of its first request for the
\* whole call.
SendWithFirstToken(c) ==
    /\ HasAnswer(c)
    /\ answers[c].kind = "token"
    /\ calls' = [calls EXCEPT ![c] =
                    [@ EXCEPT !.pc = "wire", !.requests = calls[c].requests + 1,
                              !.since = now,
                              !.expires = IF calls[c].requests = 0
                                          THEN There + answers[c].left ELSE @]]
    /\ UNCHANGED <<audit, vars>>

\* _request after get_token: the request goes out, or the call fails on
\* InstallationTokenError or on a client that is closed already.
SendRequest(c) ==
    /\ HasAnswer(c)
    /\ \/ /\ answers[c].kind = "token"
          /\ calls' = [calls EXCEPT ![c] =
                          [@ EXCEPT !.pc = "wire", !.requests = calls[c].requests + 1,
                                    !.since = now, !.expires = There + answers[c].left]]
          /\ UNCHANGED audit
       \/ End(c, "error", FALSE)
    /\ UNCHANGED vars

\* The response: the result is complete, there is another page or the raw
\* content to ask for, or it is an error of any kind.
HandleResponse(c) ==
    /\ At(c, "wire")
    /\ \/ End(c, "ok", TRUE) /\ UNCHANGED vars
       \/ End(c, "error", FALSE) /\ UNCHANGED vars
       \/ /\ calls[c].tool = "list_repos" /\ calls[c].requests < MaxPages
          /\ AskToken(c, "list_repos")
       \/ /\ calls[c].tool = "read_file" /\ calls[c].requests < 2
          /\ AskToken(c, "read_file")

\* Mutants of CancelCall: the wrapper starts without an outcome; get_token is not
\* shielded from the call.
CancelCallWithoutOutcome(c) ==
    /\ \/ At(c, "token") /\ Cancel(c)
       \/ At(c, "wire") /\ UNCHANGED vars
    /\ End(c, "none", FALSE)

CancelCallAndRefresh(c) ==
    /\ \/ At(c, "token") /\ CancelUnshielded(c)
       \/ At(c, "wire") /\ UNCHANGED vars
    /\ End(c, "ok", FALSE)

\* The call is cancelled at an await. No except clause takes CancelledError, and
\* finally records the outcome the wrapper started with.
CancelCall(c) ==
    /\ \/ At(c, "token") /\ Cancel(c)
       \/ At(c, "wire") /\ UNCHANGED vars
    /\ End(c, "ok", FALSE)

-----------------------------------------------------------------------------
(* The rest *)

\* Time passes only when no coroutine can run, and a request ends in time.
CallTick ==
    /\ \A c \in Caller :
          /\ ~HasAnswer(c)
          /\ At(c, "wire") => now < calls[c].since + Timeout
    /\ Tick

ProviderStep ==
    \/ \E c \in Caller : Resume(c)
    \/ \E r \in Refresh :
          GithubMints(r) \/ ReadResponse(r) \/ RefreshFails(r) \/ RefreshDone(r)
    \/ Aclose
    \/ CallTick

CallStep(c) ==
    \/ \E tool \in Tools, role \in Role \cup {NoRole}, repo \in Repo \cup {NoRepo},
          safe \in BOOLEAN : CallTool(c, tool, role, repo, safe)
    \/ SendRequest(c)
    \/ HandleResponse(c)
    \/ CancelCall(c)

CallNext ==
    \/ \E c \in Caller : CallStep(c)
    \/ ProviderStep /\ UNCHANGED callVars

CallSpec == CallInit /\ [][CallNext]_allVars

-----------------------------------------------------------------------------
(* Safety *)

\* AC-004: a call is recorded exactly once, when it ends, whichever way it ends;
\* and a caller has a result only if the record that says so was written.
OneRecordPerCall ==
    \A c \in Caller :
        /\ Len(audit[c]) = IF At(c, "ended") THEN 1 ELSE 0
        /\ calls[c].returned => audit[c] = <<"ok">>

\* CTR-009: the token of a request does not expire before the request has ended.
TokenOutlivesRequest ==
    \A c \in Caller : At(c, "wire") => There < calls[c].expires

\* The call of c without its guard, its token and its clock.
Body(c) == INSTANCE ToolBody WITH
    at <- IF calls[c].pc \in {"token", "wire"} THEN "asking" ELSE calls[c].pc,
    tool <- IF calls[c].pc \in {"token", "wire"} THEN calls[c].tool ELSE "none",
    answered <- IF At(c, "wire") THEN calls[c].requests - 1 ELSE calls[c].requests,
    returned <- calls[c].returned

\* The calls use the provider as TokenProvider allows, and go on as ToolBody does:
\* what is true of either for any callers and tools is true of it here.
UsesItsParts ==
    /\ Spec
    /\ \A c \in Caller : Body(c)!Init
    /\ [][\A c \in Caller : [Body(c)!Next]_(Body(c)!vars)]_allVars

\* types.py:34, "ok" is for a call whose result was returned.
OkMeansReturned ==
    \A c \in Caller : audit[c] = <<"ok">> => calls[c].returned

-----------------------------------------------------------------------------
(* Liveness *)

\* The loop runs what is ready, and httpx ends every request.
CallFairness ==
    /\ \A c \in Caller : WF_allVars(SendRequest(c)) /\ WF_allVars(HandleResponse(c))
    /\ \A c \in Caller : WF_allVars(Resume(c) /\ UNCHANGED callVars)
    /\ \A r \in Refresh :
          /\ WF_allVars((ReadResponse(r) \/ RefreshFails(r)) /\ UNCHANGED callVars)
          /\ WF_allVars(RefreshDone(r) /\ UNCHANGED callVars)

FairCallSpec == CallSpec /\ CallFairness

\* Every call ends, whichever refresh it waits for, whoever else is cancelled and
\* however long a Link header goes on.
EveryCallEnds == \A c \in Caller : ~At(c, "idle") ~> At(c, "ended")
=============================================================================
