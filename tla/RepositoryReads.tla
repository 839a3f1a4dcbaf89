----------------------------- MODULE RepositoryReads -----------------------------
(*****************************************************************************)
(* What one tool call reads from GitHub (client.py, tools.py) while GitHub     *)
(* changes: a listing takes a request per page, a file takes a second request  *)
(* when it is too big to come inside the first answer, and between two         *)
(* requests repositories come and go, the branch moves, the quota runs out.    *)
(* A file is its size and the offsets at which a character ends, so that a cut *)
(* shows; ToolCalls has the token, the clock and the audit record of the call. *)
(*****************************************************************************)
EXTENDS Integers, FiniteSets, SequencesExt

CONSTANTS
    Repos,       \* repositories of the organisation
    Allowlist,   \* repo_allowlist
    PageSize,    \* _INSTALLATION_REPOS_PER_PAGE
    PageLimit,   \* _MAX_INSTALLATION_REPOS_PAGES
    Objects,     \* what a path may name
    Notice,      \* the body of an answer that is not the file
    InlineMax,   \* up to this size GitHub sends content inside the answer
    RawMax,      \* _CONTENTS_RAW_FALLBACK_MAX_BYTES
    MaxBytes,    \* read_file_max_bytes
    MaxResults,  \* search_code_max_results
    Quota,       \* requests GitHub grants per window
    MaxChanges,  \* bound of the model: changes on GitHub during the call
    MaxMatches   \* bound of the model: items in an answer to a search

Kinds == {"text", "binary", "directory", "submodule", "nothing"}

\* ends: where its characters end. Only text has any.
Object == [kind : Kinds, size : Nat, ends : SUBSET Nat]

Files == {o \in Objects : o.kind \in {"text", "binary"}}

\* A character of UTF-8 has at most four bytes.
WellFormed(o) ==
    /\ o \in Object
    /\ IF o.kind = "text"
       THEN /\ 0 \in o.ends /\ o.size \in o.ends /\ o.ends \subseteq 0..o.size
            /\ \A n \in 0..o.size : \E k \in 0..3 : n - k \in o.ends
       ELSE o.ends = {}
    /\ o.kind = "binary" => o.size > 0

ASSUME ReadsAssumption ==
    /\ Allowlist \subseteq Repos
    /\ {PageSize, PageLimit, MaxResults} \subseteq Nat \ {0}
    /\ \A o \in Objects : WellFormed(o)
    /\ Notice.kind = "text" /\ WellFormed(Notice) /\ Notice \notin Objects
    /\ {InlineMax, RawMax, Quota, MaxChanges, MaxMatches} \subseteq Nat
    /\ MaxBytes \in 1..InlineMax /\ InlineMax <= RawMax

Ops == {"list_repos", "get_repo_tree", "read_file", "search_code"}

VARIABLES
    installed,  \* GitHub: the repositories of the installation, in its order
    object,     \* GitHub: what the path names at the head of the ref
    renamed,    \* GitHub: the repository has moved to another name
    quota,      \* GitHub: requests left in this window
    changes,    \* bound of the model: changes so far
    op,         \* the tool that is called
    stage,      \* where the call is
    pages,      \* pages_fetched
    found,      \* summaries
    noted,      \* size of the metadata answer
    result,     \* what the caller gets
    past        \* history: what was on GitHub since the call began

github == <<installed, object, renamed, quota, changes>>
call == <<op, stage, pages, found, noted, result>>
vars == <<github, call, past>>

-----------------------------------------------------------------------------
(* The content of a file: _classify_content, _decode_utf8_prefix *)

IsValidUtf8(body) == body.ends # {}

\* Mutant of PrefixEnd: the cut is decoded where the limit falls.
PrefixAtLimit(body) == MaxBytes

\* _decode_utf8_prefix: the first of four candidates that decodes.
PrefixEnd(body) ==
    LET backoff == CHOOSE k \in 0..3 :
                       /\ MaxBytes - k \in body.ends
                       /\ \A j \in 0..(k - 1) : MaxBytes - j \notin body.ends
    IN MaxBytes - backoff

FileContent(status, body, returned, total) ==
    [kind |-> "file", status |-> status, of |-> body, returned |-> returned, total |-> total]

\* The whole body decides whether it is text, its prefix is what is returned.
ClassifyContent(body, total) ==
    IF ~IsValidUtf8(body) THEN FileContent("binary", body, 0, total)
    ELSE IF body.size <= MaxBytes THEN FileContent("complete", body, body.size, total)
    ELSE FileContent("truncated", body, PrefixEnd(body), total)

-----------------------------------------------------------------------------
(* Answers that are not content: _raise_for_status, _rate_limit_retry_at *)

\* What GitHub may refuse with, and why. A secondary limit comes as a 429 or with
\* Retry-After: in seconds, as a date, or so far away that no datetime holds it.
\* Every answer says how much quota is left, and when it is renewed.
Refusal == [why : {"quota", "secondary", "denied", "broken", "missing"},
            status : {403, 404, 429, 500},
            retryAfter : {"absent", "seconds", "date", "beyond"},
            remaining : Nat]

Refusals(why, statuses, waits, left) ==
    [why : {why}, status : statuses, retryAfter : waits, remaining : {left}]

RefusalsNow ==
    IF quota = 0 THEN Refusals("quota", {403, 429}, {"absent"}, 0)
    ELSE Refusals("secondary", {429}, {"absent", "seconds", "date", "beyond"}, quota - 1)
         \cup Refusals("secondary", {403}, {"seconds", "date", "beyond"}, quota - 1)
         \cup Refusals("denied", {403}, {"absent"}, quota - 1)
         \cup Refusals("broken", {500}, {"absent"}, quota - 1)
         \cup Refusals("missing", {404}, {"absent"}, quota - 1)

\* Mutant of IsRateLimited: the quota header is read before anything else says so.
LimitedByHeaders(answer) == answer.retryAfter # "absent" \/ answer.remaining = 0

IsRateLimited(answer) ==
    /\ answer.status \in {403, 429}
    /\ answer.retryAfter # "absent" \/ answer.remaining = 0 \/ answer.status = 429

\* What the caller is told. fromtimestamp raises for a delta it cannot hold, and
\* the guard makes an internal error of that.
Told(answer) ==
    IF answer.status = 404 THEN "not found"
    ELSE IF ~IsRateLimited(answer) THEN "github error"
    ELSE IF answer.retryAfter = "beyond" THEN "internal error"
    ELSE "rate limited"

-----------------------------------------------------------------------------
(* The call *)

NoResult == [kind |-> "none"]

NoSize == -1

Error(message) == [kind |-> "error", message |-> message]

Asking(tool) == stage = "asking" /\ op = tool

End(outcome) == stage' = "ended" /\ result' = outcome

\* GitHub answers a request with what it has at that moment.
Answers ==
    /\ quota > 0
    /\ quota' = quota - 1
    /\ UNCHANGED <<installed, object, renamed, changes, op, past>>

\* The entries of a listing the caller may see, at their places.
Allowed(list) == Restrict(list, {i \in DOMAIN list : list[i] \in Allowlist})

\* The arguments leave the repository or the query's scope: SecurityBoundaryError,
\* before the first request. list_repos has none.
Rejects(safe) == op # "list_repos" /\ ~safe

\* The tool is called. An empty allowlist needs no request at all.
Begin(safe) ==
    /\ stage = "idle"
    /\ IF Rejects(safe) THEN End(Error("boundary"))
       ELSE IF op = "list_repos" /\ Allowlist = {}
            THEN End([kind |-> "listing", repos |-> <<>>])
            ELSE stage' = "asking" /\ UNCHANGED result
    /\ UNCHANGED <<github, op, pages, found, noted, past>>

\* _request: no token, or no answer.
RequestFails ==
    /\ stage = "asking"
    /\ \/ End(Error("credentials"))
       \/ End(Error("network"))
    /\ UNCHANGED <<github, op, pages, found, noted, past>>

\* An answer that is an error, at any request of the call. Only a path is missing.
Refused(answer) ==
    /\ stage = "asking"
    /\ answer.why = "missing" => op \in {"read_file", "get_repo_tree"} /\ object.kind = "nothing"
    /\ End(Error(Told(answer)))
    /\ quota' = answer.remaining
    /\ past' = [past EXCEPT !.refusal = {answer}]
    /\ UNCHANGED <<installed, object, renamed, changes, op, pages, found, noted>>

\* A body that is not what the API promises.
Malformed ==
    /\ stage = "asking"
    /\ noted = NoSize
    /\ Answers
    /\ End(Error("malformed"))
    /\ UNCHANGED <<pages, found, noted>>

\* Mutant of HasNext: a last page that is not full is not looked for.
HasFullPage(n) == Len(installed) >= (n + 1) * PageSize

\* Link: rel="next", behind page n.
HasNext(n) == Len(installed) > n * PageSize

\* The page of what is installed now behind n others.
PageAfter(n) ==
    SubSeq(installed, n * PageSize + 1,
           IF Len(installed) < (n + 1) * PageSize THEN Len(installed) ELSE (n + 1) * PageSize)

\* Mutant of AtPageLimit: the check comes after one more request.
PastPageLimit(n) == n > PageLimit

AtPageLimit(n) == n = PageLimit

\* list_installation_repositories, one page: the loop gives up at the limit of
\* pages before it asks for one more. list_repos filters what it returns.
ListPage ==
    /\ Asking("list_repos")
    /\ Answers
    /\ pages' = pages + 1
    /\ found' = found \o PageAfter(pages)
    /\ IF ~HasNext(pages') THEN End([kind |-> "listing", repos |-> Allowed(found')])
       ELSE IF AtPageLimit(pages') THEN End(Error("too many pages"))
       ELSE UNCHANGED <<stage, result>>
    /\ UNCHANGED noted

\* Mutant of TooBigForRaw: a file of just the limit is not asked for.
TooBigAtLimit(size) == size >= RawMax

TooBigForRaw(size) == size > RawMax

\* read_file and _get_contents: small content is in the answer, of a big file
\* only the metadata. The answer of a repository that has moved has neither.
ReadMetadata ==
    /\ Asking("read_file")
    /\ noted = NoSize
    /\ renamed \/ object.kind # "nothing"
    /\ Answers
    /\ IF renamed \/ object.kind = "submodule" THEN End(Error("malformed")) /\ UNCHANGED noted
       ELSE IF object.kind = "directory" THEN End(Error("directory")) /\ UNCHANGED noted
       ELSE IF object.size <= InlineMax
            THEN End(ClassifyContent(object, object.size)) /\ UNCHANGED noted
       ELSE IF TooBigForRaw(object.size)
            THEN End(FileContent("unavailable", object, 0, object.size)) /\ UNCHANGED noted
       ELSE noted' = object.size /\ UNCHANGED <<stage, result>>
    /\ UNCHANGED <<pages, found>>

\* _read_file_via_raw_fallback: whatever is no error is taken for the file, and
\* total_size is the one of the metadata.
ReadRaw ==
    /\ Asking("read_file")
    /\ noted # NoSize
    /\ Answers
    /\ \/ /\ ~renamed /\ object \in Files /\ object.size <= RawMax
          /\ End(ClassifyContent(object, noted))
       \/ /\ renamed \/ object.kind \in {"directory", "submodule"}
          /\ End(ClassifyContent(Notice, noted))
    /\ UNCHANGED <<pages, found, noted>>

\* Mutant of ReadTree: the redirect of a repository that has moved is followed.
ReadTreeFollowing ==
    /\ Asking("get_repo_tree")
    /\ renamed \/ object.kind # "nothing"
    /\ Answers
    /\ IF renamed THEN pages' = pages + 1 /\ UNCHANGED <<stage, result>>
       ELSE End([kind |-> "tree", of |-> object]) /\ UNCHANGED pages
    /\ UNCHANGED <<found, noted>>

\* get_repo_tree: a directory, or a path that is a file as its only entry.
ReadTree ==
    /\ Asking("get_repo_tree")
    /\ renamed \/ object.kind # "nothing"
    /\ Answers
    /\ IF renamed THEN End(Error("malformed"))
       ELSE End([kind |-> "tree", of |-> object])
    /\ UNCHANGED <<pages, found, noted>>

\* Mutant of Presented: what GitHub returns is trusted to be of the repository.
PresentedUnfiltered(items) == {i \in DOMAIN items : i <= MaxResults}

\* The items that are kept: the first max_results, and of these the ones of the
\* allowlist (_parse_search_item makes "" of a repository it cannot read).
Presented(items) ==
    {i \in DOMAIN items : i <= MaxResults /\ items[i] \in Allowlist}

\* The message of the tool: there is more than it shows.
IsCapped(items, total) == Cardinality(Presented(items)) < total

\* search_code: total is total_count, 0 when the answer has none.
Search(items, total) ==
    /\ Asking("search_code")
    /\ Answers
    /\ End([kind |-> "search", repos |-> Restrict(items, Presented(items)), total |-> total,
            more |-> IsCapped(items, total)])
    /\ UNCHANGED <<pages, found, noted>>

-----------------------------------------------------------------------------
(* GitHub goes on while the call waits *)

Changes(tools) ==
    /\ stage = "asking" /\ op \in tools
    /\ changes < MaxChanges
    /\ changes' = changes + 1
    /\ UNCHANGED call

Install(repo, i) ==
    /\ Changes({"list_repos"})
    /\ repo \notin Range(installed)
    /\ installed' = InsertAt(installed, i, repo)
    /\ past' = [past EXCEPT !.added = TRUE, !.ever = @ \cup {repo}]
    /\ UNCHANGED <<object, renamed, quota>>

Uninstall(i) ==
    /\ Changes({"list_repos"})
    /\ installed' = RemoveAt(installed, i)
    /\ past' = [past EXCEPT !.removed = TRUE, !.always = @ \ {installed[i]}]
    /\ UNCHANGED <<object, renamed, quota>>

Push(new) ==
    /\ Changes({"read_file"})
    /\ object' = new
    /\ past' = [past EXCEPT !.objects = @ \cup {new}]
    /\ UNCHANGED <<installed, renamed, quota>>

\* The repository whose path is asked for.
Rename ==
    /\ Changes({"read_file", "get_repo_tree"})
    /\ renamed' = TRUE
    /\ past' = [past EXCEPT !.moved = TRUE]
    /\ UNCHANGED <<installed, object, quota>>

NewWindow ==
    /\ Changes(Ops)
    /\ quota' = Quota
    /\ UNCHANGED <<installed, object, renamed, past>>

-----------------------------------------------------------------------------
Init ==
    /\ installed \in {s \in SeqOf(Repos, Cardinality(Repos)) : IsInjective(s)}
    /\ object \in Objects
    /\ renamed = FALSE
    /\ quota \in 0..Quota
    /\ changes = 0
    /\ op \in Ops /\ stage = "idle" /\ pages = 0 /\ found = <<>> /\ noted = NoSize
    /\ result = NoResult
    /\ past = [objects |-> {object}, moved |-> FALSE, added |-> FALSE, removed |-> FALSE,
               always |-> Range(installed), ever |-> Range(installed), refusal |-> {}]

\* An item of another repository, and one that names none.
Items == SeqOf(Repos \cup {""}, MaxMatches)

GithubChanges ==
    \/ \E repo \in Repos, i \in 1..(Len(installed) + 1) : Install(repo, i)
    \/ \E i \in DOMAIN installed : Uninstall(i)
    \/ \E new \in Objects : Push(new)
    \/ Rename
    \/ NewWindow

CallStep ==
    \/ \E safe \in BOOLEAN : Begin(safe)
    \/ RequestFails
    \/ \E answer \in RefusalsNow : Refused(answer)
    \/ Malformed
    \/ ListPage
    \/ ReadMetadata
    \/ ReadRaw
    \/ ReadTree
    \/ \E items \in Items, unlisted \in 0..1 : Search(items, Len(items) + unlisted)
    \/ \E items \in Items : Search(items, 0)

Next == CallStep \/ GithubChanges

Spec == Init /\ [][Next]_vars

-----------------------------------------------------------------------------
(* Properties *)

Statuses == {"complete", "truncated", "binary", "unavailable"}

Messages == {"boundary", "credentials", "network", "not found", "github error", "internal error",
             "rate limited", "malformed", "directory", "too many pages"}

Pasts == [objects : SUBSET Objects, moved : BOOLEAN, added : BOOLEAN, removed : BOOLEAN,
          always : SUBSET Repos, ever : SUBSET Repos, refusal : SUBSET Refusal]

ReadsTypeOK ==
    /\ installed \in Seq(Repos) /\ found \in Seq(Repos)
    /\ object \in Objects /\ renamed \in BOOLEAN /\ quota \in 0..Quota
    /\ changes \in 0..MaxChanges
    /\ op \in Ops /\ stage \in {"idle", "asking", "ended"} /\ pages \in 0..PageLimit
    /\ noted \in Nat \cup {NoSize}
    /\ result.kind \in {"none", "error", "listing", "file", "tree", "search"}
    /\ result.kind = "error" => result.message \in Messages
    /\ result.kind = "file" =>
          result.status \in Statuses /\ result.returned \in Nat /\ result.total \in Nat
    /\ past \in Pasts

Result(kind) == stage = "ended" /\ result.kind = kind

\* The path named one file all the time, or at least always a file.
OnlyFiles == past.objects \subseteq Files /\ ~past.moved

\* AC-005-3/4/5: the text a caller reads is that of one version the path had
\* during the call, from its first character to the end of one of them; it stays
\* within the limit, and a cut gives up less than a character. What is not text
\* is never returned as text.
ContentOfOneVersion ==
    Result("file") /\ OnlyFiles =>
        /\ result.of \in past.objects
        /\ result.status \in {"complete", "truncated"} =>
              /\ result.returned \in result.of.ends
              /\ result.returned <= MaxBytes
              /\ result.status = "truncated" =>
                    result.of.size > MaxBytes /\ result.returned >= MaxBytes - 3
              /\ result.status = "complete" => result.returned = result.of.size
        /\ result.status = "binary" => result.of.kind = "binary"

\* FileContent: while nobody pushes, total_size is the size of what is returned,
\* "complete" is all of it, and only above the limit of GitHub is a file
\* unavailable. When somebody does, it is still the size of some version.
SizesAgree ==
    Result("file") /\ OnlyFiles =>
        /\ \E o \in past.objects : o.size = result.total
        /\ past.objects = {result.of} =>
              /\ result.total = result.of.size
              /\ result.status = "complete" <=> result.returned = result.total
              /\ result.status = "unavailable" <=> result.total > RawMax

\* AC-005-1: a listing names only repositories of the allowlist that were
\* installed at some time during the call. One that was installed all along is
\* missing only when another was removed, which moves it to a page that has been
\* read; one is named twice only when another was added in front of it.
ListingComplete ==
    Result("listing") =>
        /\ Range(result.repos) \subseteq Allowlist \cap past.ever
        /\ ~past.removed => past.always \cap Allowlist \subseteq Range(result.repos)
        /\ ~past.added => IsInjective(result.repos)

\* AC-005-8: a call that GitHub turned away for its rate is told so, whichever of
\* its requests it was, and nobody else is, but for a caller whose refused request
\* was the last one of the window. A Retry-After no datetime can hold is lost.
LimitsAreTold ==
    \A answer \in past.refusal :
        answer.retryAfter # "beyond" =>
            (result = Error("rate limited") <=>
                \/ answer.why \in {"quota", "secondary"}
                \/ answer.why = "denied" /\ answer.remaining = 0)

\* CTR-005: a search shows at most max_results items, all of the allowlist, and a
\* caller who is not told that there are more has all that were counted.
SearchWithinScope ==
    Result("search") =>
        /\ Range(result.repos) \subseteq Allowlist
        /\ Cardinality(DOMAIN result.repos) <= MaxResults
        /\ ~result.more => Cardinality(DOMAIN result.repos) >= result.total

\* However the listing grows, the file moves or the quota runs out between its
\* requests (client.py), the call is one of ToolBody, as it is in ToolCalls: it makes
\* no more requests than its tool has use for, and ends for good.
Body == INSTANCE ToolBody WITH
    MaxPages <- PageLimit,
    at <- stage,
    tool <- IF stage = "asking" THEN op ELSE "none",
    answered <- IF stage # "asking" THEN 0 ELSE IF noted = NoSize THEN pages ELSE 1,
    returned <- result.kind \notin {"none", "error"}

KeepsToItsBody == Body!Spec
=============================================================================
