------------------------------ MODULE TokenProvider ------------------------------
(*****************************************************************************)
(* InstallationTokenProvider (credentials.py): one cached GitHub installation *)
(* token, and one refresh that all concurrent callers of get_token share.     *)
(* Everything runs on one event loop, so a step below is what happens between *)
(* two suspensions. The lock of get_token is never held across one, by        *)
(* get_token or by aclose: acquiring it does not suspend and it is not state. *)
(* The loop runs what is ready before time passes (Tick).                     *)
(*****************************************************************************)
EXTENDS Integers

CONSTANTS
    Caller,       \* coroutines that call get_token, one call at a time each
    Leeway,       \* refresh_leeway_seconds
    Backdate,     \* _APP_JWT_CLOCK_DRIFT_BACKDATE_SECONDS
    JwtTTL,       \* _APP_JWT_TTL_SECONDS, also the longest JWT GitHub accepts
    Lifetime,     \* life of an installation token, set by GitHub
    Timeout,      \* bound on one request to GitHub, answered or not
    MaxAhead,     \* how far GitHub's clock may be ahead of the local one
    MaxTime,      \* bound on the local clock
    MaxRefreshes  \* bound on the refreshes of one behaviour

ASSUME ProviderAssumption ==
    /\ Leeway \in Nat /\ Backdate \in Nat /\ JwtTTL \in Nat
    /\ Lifetime \in Nat /\ Timeout \in Nat \ {0} /\ MaxAhead \in Nat
    /\ MaxTime \in Nat /\ MaxRefreshes \in Nat

\* Clocks agree as well as the leeway (60 s at least) and the JWT (600 s) allow
\* for; a token outlives the request that brought it.
ASSUME ClockAssumption ==
    /\ MaxAhead <= Leeway
    /\ Backdate + Timeout + MaxAhead < JwtTTL
    /\ Timeout < Lifetime

VARIABLES
    now,        \* the local wall clock (time.time)
    drift,      \* GitHub's clock minus the local one
    cached,     \* the refresh that brought _cached_token, 0 without a token
    inflight,   \* _inflight_refresh, 0 for None
    started,    \* refreshes started so far; the refresh tasks are 1..started
    refreshes,  \* what became of each refresh task
    waiting,    \* the refresh each caller awaits, 0 if none
    answers,    \* what each caller's last get_token came to, and the life its
                \* token had left on GitHub's clock
    asked,      \* history: callers somebody cancelled in their last get_token
    closedAt    \* history: refreshes that had started at the last aclose

vars == <<now, drift, cached, inflight, started, refreshes, waiting, answers,
          asked, closedAt>>

Refresh == 1..MaxRefreshes

\* "sent": the request is under way. "minted": GitHub has issued a token and the
\* response is under way. "done": the task has ended, its callback has not run.
Phases == {"unborn", "sent", "minted", "done", "over"}

Outcomes == {"none", "token", "error", "cancelled"}

Tasks == [phase : Phases, outcome : Outcomes, sentAt : Nat, expires : Int]

Answers == [kind : Outcomes, left : Int]

NoAnswer == [kind |-> "none", left |-> 0]

Unborn == [phase |-> "unborn", outcome |-> "none", sentAt |-> 0, expires |-> 0]

TypeOK ==
    /\ now \in 0..MaxTime
    /\ drift \in (-Backdate)..MaxAhead
    /\ started \in 0..MaxRefreshes
    /\ cached \in 0..started
    /\ inflight \in 0..started
    /\ refreshes \in [Refresh -> Tasks]
    /\ waiting \in [Caller -> 0..started]
    /\ answers \in [Caller -> Answers]
    /\ asked \subseteq Caller
    /\ closedAt \in 0..started

Init ==
    /\ now = 0
    /\ drift \in (-Backdate)..MaxAhead
    /\ cached = 0
    /\ inflight = 0
    /\ started = 0
    /\ refreshes = [r \in Refresh |-> Unborn]
    /\ waiting = [c \in Caller |-> 0]
    /\ answers = [c \in Caller |-> NoAnswer]
    /\ asked = {}
    /\ closedAt = 0

UnderWay(r) == refreshes[r].phase \in {"sent", "minted"}

Is(r, phase) == refreshes[r].phase = phase

\* Mutant of Valid: a token is good for as long as our clock says so.
ValidUntilExpiry == cached # 0 /\ refreshes[cached].expires - now > 0

\* _has_valid_cached_token: strictly more than the leeway must be left.
Valid == cached # 0 /\ refreshes[cached].expires - now > Leeway

\* GitHub's clock.
There == now + drift

\* The caller's get_token comes to the outcome of refresh r.
Answer(c, r) ==
    answers' = [answers EXCEPT ![c] =
        [kind |-> refreshes[r].outcome,
         left |-> IF refreshes[r].outcome = "token" THEN refreshes[r].expires - There ELSE 0]]

\* The caller begins to wait for refresh r.
Await(c, r) ==
    /\ waiting' = [waiting EXCEPT ![c] = r]
    /\ answers' = [answers EXCEPT ![c] = NoAnswer]

-----------------------------------------------------------------------------
(* get_token *)

\* From the call to its return or its await, in one step. A refresh that has
\* ended but whose callback is still to run is joined too; shield() of a
\* finished task is that task, and awaiting it does not suspend.
GetToken(c) ==
    /\ waiting[c] = 0
    /\ asked' = asked \ {c}
    /\ \/ /\ Valid
          /\ Answer(c, cached)
          /\ UNCHANGED <<inflight, started, refreshes, waiting>>
       \/ /\ ~Valid /\ inflight # 0
          /\ Is(inflight, "done")
          /\ Answer(c, inflight)
          /\ UNCHANGED <<inflight, started, refreshes, waiting>>
       \/ /\ ~Valid /\ inflight # 0
          /\ ~Is(inflight, "done")
          /\ Await(c, inflight)
          /\ UNCHANGED <<inflight, started, refreshes>>
       \/ /\ ~Valid /\ inflight = 0
          /\ started < MaxRefreshes
          /\ started' = started + 1
          /\ refreshes' = [refreshes EXCEPT ![started + 1] =
                              [@ EXCEPT !.phase = "sent", !.sentAt = now]]
          /\ inflight' = started + 1
          /\ Await(c, started + 1)
    /\ UNCHANGED <<now, drift, cached, closedAt>>

\* A waiter wakes up, after the callback: it was registered later.
Resume(c) ==
    /\ waiting[c] # 0
    /\ Is(waiting[c], "over")
    /\ Answer(c, waiting[c])
    /\ waiting' = [waiting EXCEPT ![c] = 0]
    /\ UNCHANGED <<now, drift, cached, inflight, started, refreshes, asked, closedAt>>

\* The caller leaves its await with CancelledError.
Leave(c) ==
    /\ waiting[c] # 0
    /\ waiting' = [waiting EXCEPT ![c] = 0]
    /\ answers' = [answers EXCEPT ![c] = [NoAnswer EXCEPT !.kind = "cancelled"]]
    /\ asked' = asked \cup {c}

\* Mutants of Cancel: a waiter's finally clears the slot; without shield() the
\* cancellation reaches the shared task.
CancelFreesSlot(c) ==
    /\ Leave(c)
    /\ inflight' = 0
    /\ UNCHANGED <<now, drift, cached, started, refreshes, closedAt>>

CancelUnshielded(c) ==
    /\ Leave(c)
    /\ refreshes' = IF UnderWay(waiting[c])
                    THEN [refreshes EXCEPT ![waiting[c]] =
                             [@ EXCEPT !.phase = "done", !.outcome = "cancelled"]]
                    ELSE refreshes
    /\ UNCHANGED <<now, drift, cached, inflight, started, closedAt>>

\* Somebody cancels a caller. shield() keeps it from the refresh.
Cancel(c) ==
    /\ Leave(c)
    /\ UNCHANGED <<now, drift, cached, inflight, started, refreshes, closedAt>>

-----------------------------------------------------------------------------
(* The refresh task *)

\* Mutant of AppJwt: exp counts from now, as in GitHub's Ruby example.
AppJwtFromNow(t) == [iat |-> t - Backdate, exp |-> t + JwtTTL]

\* _build_app_jwt
AppJwt(t) == [iat |-> t - Backdate, exp |-> t - Backdate + JwtTTL]

\* GitHub accepts a JWT that is not from the future, has not expired and does
\* not expire too far ahead.
Accepts(jwt, t) == jwt.iat <= t /\ t < jwt.exp /\ jwt.exp <= t + JwtTTL

\* GitHub answers the request with a new token.
GithubMints(r) ==
    /\ Is(r, "sent")
    /\ Accepts(AppJwt(refreshes[r].sentAt), There)
    /\ refreshes' = [refreshes EXCEPT ![r] =
                        [@ EXCEPT !.phase = "minted", !.expires = There + Lifetime]]
    /\ UNCHANGED <<now, drift, cached, inflight, started, waiting, answers, asked, closedAt>>

\* The tail of _issue_installation_token: a well-formed response ends the task
\* with its token and expiry. A malformed one ends it in RefreshFails.
ReadResponse(r) ==
    /\ Is(r, "minted")
    /\ refreshes' = [refreshes EXCEPT ![r] =
                        [@ EXCEPT !.phase = "done", !.outcome = "token"]]
    /\ UNCHANGED <<now, drift, cached, inflight, started, waiting, answers, asked, closedAt>>

\* Mutant of RefreshFails: the HTTP client has no timeout.
FailWhenAnswered(r) ==
    /\ Is(r, "minted")
    /\ refreshes' = [refreshes EXCEPT ![r] =
                        [@ EXCEPT !.phase = "done", !.outcome = "error"]]
    /\ UNCHANGED <<now, drift, cached, inflight, started, waiting, answers, asked, closedAt>>

\* InstallationTokenError: no response in time, a transport error, an error
\* status, a JWT GitHub refuses, or a body without a token or an expiry.
RefreshFails(r) ==
    /\ UnderWay(r)
    /\ refreshes' = [refreshes EXCEPT ![r] =
                        [@ EXCEPT !.phase = "done", !.outcome = "error"]]
    /\ UNCHANGED <<now, drift, cached, inflight, started, waiting, answers, asked, closedAt>>

\* Mutants of RefreshDone: the token is not cached; the slot is not cleared.
DoneWithoutCaching(r) ==
    /\ Is(r, "done")
    /\ refreshes' = [refreshes EXCEPT ![r] = [@ EXCEPT !.phase = "over"]]
    /\ inflight' = IF inflight = r THEN 0 ELSE inflight
    /\ UNCHANGED <<now, drift, cached, started, waiting, answers, asked, closedAt>>

DoneKeepingSlot(r) ==
    /\ Is(r, "done")
    /\ refreshes' = [refreshes EXCEPT ![r] = [@ EXCEPT !.phase = "over"]]
    /\ cached' = IF refreshes[r].outcome = "token" THEN r ELSE cached
    /\ UNCHANGED <<now, drift, inflight, started, waiting, answers, asked, closedAt>>

\* _on_inflight_refresh_done: the callback of the task, before any waiter's.
RefreshDone(r) ==
    /\ Is(r, "done")
    /\ refreshes' = [refreshes EXCEPT ![r] = [@ EXCEPT !.phase = "over"]]
    /\ inflight' = IF inflight = r THEN 0 ELSE inflight
    /\ cached' = IF refreshes[r].outcome = "token" THEN r ELSE cached
    /\ UNCHANGED <<now, drift, started, waiting, answers, asked, closedAt>>

-----------------------------------------------------------------------------
(* The rest *)

\* aclose: the cache goes, a refresh under way stays.
Aclose ==
    /\ cached' = 0
    /\ closedAt' = started
    /\ UNCHANGED <<now, drift, inflight, started, refreshes, waiting, answers, asked>>

\* Time passes while the loop has nothing to run; a request ends in time.
Tick ==
    /\ now < MaxTime
    /\ \A r \in Refresh :
          /\ ~Is(r, "done")
          /\ UnderWay(r) => now < refreshes[r].sentAt + Timeout
    /\ \A c \in Caller : waiting[c] # 0 => ~Is(waiting[c], "over")
    /\ now' = now + 1
    /\ UNCHANGED <<drift, cached, inflight, started, refreshes, waiting, answers,
                   asked, closedAt>>

Next ==
    \/ \E c \in Caller : GetToken(c) \/ Resume(c) \/ Cancel(c)
    \/ \E r \in Refresh :
          GithubMints(r) \/ ReadResponse(r) \/ RefreshFails(r) \/ RefreshDone(r)
    \/ Aclose
    \/ Tick

Spec == Init /\ [][Next]_vars

-----------------------------------------------------------------------------
(* Safety *)

\* AC-006-5: whatever callers come, leave or are cancelled, one refresh at most
\* is between its start and the end of its callback.
SingleFlight ==
    \A r, s \in Refresh :
        /\ UnderWay(r) \/ Is(r, "done")
        /\ UnderWay(s) \/ Is(s, "done")
        => r = s

\* A token is not expired on GitHub's own clock at the moment get_token returns
\* it, whether it comes from the cache or from a refresh.
HandedOutUsable ==
    \A c \in Caller : answers[c].kind = "token" => answers[c].left > 0

\* EDGE-015: a caller sees a cancellation only if it was itself cancelled.
OwnCancelOnly ==
    \A c \in Caller : answers[c].kind = "cancelled" => c \in asked

\* No needless issuance: a refresh starts only when every token obtained since
\* the last aclose, for whomever, is down to its leeway. That includes the token
\* of a refresh whose callers were all cancelled.
NoNeedlessRefresh ==
    [][started' # started =>
          \A r \in Refresh :
              r > closedAt /\ Is(r, "over") /\ refreshes[r].outcome = "token"
                  => refreshes[r].expires - now <= Leeway]_vars

\* GitHub never refuses the App JWT of a request under way, wherever its clock
\* stands between Backdate behind and MaxAhead ahead.
JwtInWindow ==
    \A r \in Refresh : UnderWay(r) => Accepts(AppJwt(refreshes[r].sentAt), There)

-----------------------------------------------------------------------------
(* Liveness *)

\* Under FairCallSpec of ToolCalls.

\* A refresh that nobody awaits any more still gives the slot back.
SlotIsFreed == inflight # 0 ~> inflight = 0
=============================================================================
