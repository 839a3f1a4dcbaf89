# Verification of devoks-mcp-servers

TLA+ models of the two programs of this repository, TLC configurations that
check them on small instances, and TLAPS proofs of the results that matter most
for every value of the parameters.

- `servers/slackbot`: a Slack bot of two AWS Lambda functions. `slack-handler`
  receives Slack's events and must answer within 3 seconds; `slack-worker` asks
  Claude and posts the answer. They share a DynamoDB table and nothing else.
- `servers/management`: an MCP server whose tools read GitHub repositories as a
  GitHub App. One process, one asyncio event loop.

`PROJECT.json` lists components, runs, mutants, findings, hazards and theorems,
and maps every definition to the lines it models. Below, S stands for
`src/servers/slackbot/src/devoks_slackbot/` and M for
`src/servers/management/src/devoks_mcp_management/`.

## 1. Inventory

### Slackbot

| Part | State | Operations | Talks to | Hard behaviour |
|---|---|---|---|---|
| Idempotency table, `S/idempotency.py` | rows `event#id` (claimed, completed) and `inflight#user#thread` in DynamoDB, each with a TTL | `claim_event`, `mark_event_completed`, `is_event_completed`, `claim_inflight_query`, `release_inflight_query` | DynamoDB through botocore, which resends | conditional writes that race; a write applied whose reply is lost; eventually consistent reads; rows that outlive their TTL or vanish early |
| Handler, `S/handler.py` | none between requests | verify, parse, ignore own messages, claim, dispatch, answer 200 | Slack, table, Lambda `Invoke(Event)` | Slack resends after 3 s; several deliveries interleave; a crash between claim and dispatch |
| Asynchronous queue (AWS) | accepted invocations | enqueue, deliver, retry twice | handler, worker | at-least-once delivery, retries after a crash |
| Worker, `S/worker.py` | none between invocations | `_process_event`: completion check, channel, token, lock, acknowledgement, query, length policy, post, mark, record, release | table, Claude, Slack | a crash between any two calls; failure of any one of them; two questions of one (user, thread) pair |
| Claude client, `S/ask.py` | none | one request of at most 60 s a try, classification of its errors | Anthropic, MCP server | retries, refusals, limits |
| Slack client, signature, events, format (`S/slack/`) | none | post, verify, parse, shape the reply | Slack | a window of 300 s, Slack's text limit, cutting inside a code fence |
| Token map, record, configuration (`S/identity.py`, `S/observability.py`, `S/config.py`) | none after start | lookup, serialise, validate | environment, stdout | redaction, bounds of the TTLs |

What makes it correct: an event is worked on by the winner of one claim only; it
is marked completed only after a reply was tried; a question is answered even
when handlers are late and workers die; one query per pair at a time; no lock
stays behind; a record says "ok" only if Slack took the answer; a reply keeps
the limit and is not torn; a user is told to try again only where that can
help or nothing is known; an error is recorded with the reason of what failed; a
turn ends.

### Management server

| Part | State | Operations | Talks to | Hard behaviour |
|---|---|---|---|---|
| Token provider, `M/adapters/knowledge/github/credentials.py` | cached token and expiry, in-flight task | `get_token`, the refresh task, its done-callback, `aclose` | GitHub | callers that join, leave and are cancelled around one shared task; clocks that differ; a callback that runs later than the task ends |
| GitHub client, `M/adapters/knowledge/github/client.py` | none between calls | list (paginated), tree, read (with raw fallback), search | provider, GitHub | several requests in one call; rate limits; a repository that changes between requests; a byte limit inside a character |
| Guard and policy, `M/tools/guard.py`, `M/auth/policy.py` | none between calls | authorize, run the body, one audit record | tools, audit logger | every way out of the body, cancellation included |
| Tools, registry, server (`tools.py`, `registry.py`, `server.py`) | lifespan context | four tools | guard, client | allowlist filtering |
| Assembly, `M/app.py` | exit stack, shared HTTP client | start, stop | all of the above | order of closing against calls under way |
| Verifier, audit logger, configuration | fixed at start | lookup, write a line, validate | environment, stdout | redaction |

What makes it correct: one refresh at a time, whoever is cancelled; no token
handed out that is expired, or that expires under a request; no request to
GitHub that the cache makes needless; one audit record per call that says what
happened, and no result without it; every call ends; what a call returns is of
one version, inside the allowlist, and does not pass a part off as the whole.

Infrastructure scripts, Dockerfiles, CI and `scripts/audit-dependencies.py` are
listed as components and not modelled: they do not run with the system. The
limits they set (time-outs, retries, concurrency) are constants of the models.

## 2. Modules

| Module | Models | State and actions |
|---|---|---|
| `IdempotencyTable` | `S/idempotency.py` | `events` and `locks` are the rows. Each operator is one request to DynamoDB, hence atomic, with the ways it can go wrong. `faults` counts injected faults. |
| `AsyncQueue` | Lambda's queue (external) | `queue[e]`: accepted invocations of an event. |
| `SlackHandler` | `S/handler.py` and Slack as sender | `hpc[e][k]`: where the run for delivery k of event e is; one action per call that leaves the process, plus `HandlerCrash`. |
| `SlackWorker` | `S/worker.py` and Lambda's retries | `inv[i]`: what container i is doing; `CheckCompleted`, `ClaimLock`, `RunQuery`, `PostReply`, `MarkDone`, `EmitRecord`, `ReleaseLock` in the order of `_process_event`; `WorkerCrash`, `WorkerRetry`. |
| `Slackbot` | their composition | the two `Next` relations interleaved, TTL expiry and sweeps. |
| `QuestionLifecycle` | abstract: the promise about an event | `phase` (new, accepted, replied, settled, forgotten) and who works on what. `Slackbot` implements it. |
| `TokenProvider` | `credentials.py` | one action per stretch between two suspensions of the event loop: `GetToken`, `Resume`, `Cancel`, the refresh (`GithubMints`, `ReadResponse`, `RefreshFails`), its callback `RefreshDone`, `Aclose`, and `Tick` for the two clocks. |
| `ToolCalls` | `guard.py`, `policy.py`, the requests of `tools.py` and `client.py` | `calls[c]`: the call of a coroutine; `CallTool` (decision, argument checks, first `get_token`), `SendRequest`, `HandleResponse` (result, error, next page, raw fallback), `CancelCall`; the provider's steps interleave. `ToolCalls` implements `TokenProvider`, and each of its calls implements `ToolBody`. |
| `ReplyFormat` | `S/slack/format.py` | the policy as operators; `answer` grows glyph by glyph (`Write`) and every property quantifies over the limits. `BackOff` counts the rounds of the code's loop. `IsGlyph` and `Completes` are what Unicode says of a glyph and of two halves of a flag. |
| `QueryTurn` | `S/ask.py`, `S/slack/client.py`, `S/observability.py`, `S/identity.py` and the branches of `worker.py` between them; extends `ReplyFormat` | one question: `stage`, what the SDK handed over (`heard`), the arguments of `_post_and_finish` (`ending`), what Slack took (`thread`), the record. `Deny`, `Coalesce`, `Acknowledge`; `ClaudeWrites`, `AskAgain`, `AskFails`, `AskSucceeds`, `Raise`; `Post`, `Emit`. |
| `RepositoryReads` | `client.py` and the bodies of `tools.py` against a GitHub that changes | one call: `op`, `stage`, `pages`, `found`, `noted` (size in the metadata), `result`. `Begin`, `Rejects`, `ListPage`, `ReadMetadata`, `ReadRaw`, `ReadTree`, `Search`, `RequestFails`, `Refused`, `Malformed`; GitHub's side is `Install`, `Uninstall`, `Push`, `Rename`, `NewWindow`. `past` is history. `RepositoryReads` implements `ToolBody`. |
| `ToolBody` | abstract: what the guard and the provider may assume of the body of a tool | where the body is, whose it is, how many requests were answered, whether it returned. `Ask`, `AskNext` (no more requests than the tool has use for, `MaxAnswers`), `End`. |
| `SlackbotTyping`, `SlackbotProofs`, `SlackbotRefinement`, `TokenProviderProofs`, `ToolCallsProofs`, `ReplyFormatProofs`, `QueryTurnProofs`, `RepositoryReadsProofs` | proofs | section 5. |
| `MCSlackbot`, `MCToolCalls`, `MCReplyFormat`, `MCQueryTurn`, `MCRepositoryReads` | instances for TLC | values, symmetry. |

Definitions whose comment begins with "Mutant of" are the code with a plausible
bug. No specification uses them; each shows that one property would notice.

Notable modelling decisions:

- **Locks remember an owner the row does not have.** `locks[p]` is the
  container that wrote the row, "orphan" when that container is gone, "expired"
  when the orphan's TTL has passed. The code's conditions never look at it; they
  see a row or none. The lock's TTL (360 s) exceeds the worker's time limit
  (300 s), so the lock of a running worker does not expire.
- **A store request that raises may have been applied.** `store_error` has both
  outcomes. `lost_reply` is botocore resending an applied request: a
  conditional put then reports a duplicate to its own writer, and a delete is
  executed a second time, possibly later, on somebody else's row.
- **Event rows are swept once nothing of the event is under way** (`Quiet`),
  because the default TTL of 3600 s exceeds every redelivery window; the
  `early_sweep` fault models a configuration that breaks this (`config.py`
  accepts 300 s).
- **The lock of `get_token` is not state.** Neither `get_token` nor `aclose`
  suspends while holding it, so it never makes anybody wait. The comments of the
  code rely on the same fact.
- **Time passes only when nothing can run.** A ready coroutine runs before the
  wall clock advances. `Timeout` bounds a whole request to GitHub; httpx's
  limits are per operation, so this is a stronger assumption than the client
  library makes for a response that trickles in.
- **One call from two sides.** `ToolCalls` keeps of a response only what decides
  how the call goes on (done, error, next page, raw content to fetch) and has the
  token, the clock, cancellation and the record. `RepositoryReads` has what the
  responses contain, and GitHub changing between them. Both take a token failure
  and a transport error as one error of the call. The lifespan context is there,
  since `app.py` accepts calls only inside it. `ToolBody` is what the two say in
  common of a call: how often its tool asks, and when it has a result. Each is
  shown to implement it.
- **A glyph is what attaches.** After its base, one character or the two halves of
  a flag, a glyph has only marks, joiners and what a joiner joins. Regional
  indicators pair from the left, as in Unicode: a half after an unpaired half
  completes that flag and begins no glyph, so `Write` does not write it as one. A
  half that stays alone is a glyph.
- **The sink of the audit may fail.** `audit/logger.py` lets an exception of its
  stream through, and from the wrapper's `finally` it replaces the result (entry
  "failed"). The slackbot's `emit` logs and swallows it (`Emit`).
- **Shutdown is not an order of its own.** `Aclose` may come between any two
  steps, a request may find its client closed, a call may be cancelled at any
  await. Whether the MCP SDK ends its calls before the exit stack of `app.py`
  runs is decided outside this repository; the properties hold either way.
- **A file is its size and the offsets at which a character ends.** Cutting at a
  byte limit is then choosing an offset, and a torn character shows as one that
  is not in the set. Content of the raw request may be of a later version, or no
  file at all: the body of a 301, which httpx does not follow, or of a directory
  (`Notice`).
- **What Slack did and what the worker hears are two things.** `Exchanges` pairs
  "accepted" with a reply: a message may stand in the thread although its reply
  was lost, and a 200 may be a refusal.
- **A turn has no clock.** Nothing in the code bounds its time: three requests of
  60 s, two waits of up to 60 s that a Retry-After may ask for and two messages
  of 20 s come to 340 s, more than the 300 s of the worker, store calls not
  counted. Lambda then kills the worker inside its turn, which is `WorkerCrash`
  of `SlackWorker`; `QueryTurn` is the turn that runs to its end.
- **Two messages tell the user to try again** (`TellsToRetry`): the one for
  passing failures of Claude, and the generic one, which `_process_event` posts
  after any exception. `AdviceIsSound` is about both. It cannot say of the generic
  one that trying again helps, since the code does not know what was raised; it says
  that an exception is its only cause, never a failure the SDK reported.
- **A rename is one of the repository a path is read from**, for the two tools that
  read paths. For `list_repos` a repository with a new name is an `Uninstall` and an
  `Install`; a search takes any items as its answer.
- **The same worker twice.** `SlackWorker` has crashes, retries, the lock and the
  mark, with the question's outcome chosen freely; `QueryTurn` has where the
  outcome comes from, and leaves out the mark, which sits between `Post` and
  `Emit` and never fails.
- **Not in the models**: the handler's 401, 400 and `url_verification` replies,
  which change no state.

## 3. Runs

| Run | Question | Result |
|---|---|---|
| `slackbot_pipeline` | From delivery to reply on two containers, with late and crashing handlers, retries, duplicates, failed posts: one winner per event, one query per pair, marks after replies, the promise of `QuestionLifecycle`? | holds |
| `slackbot_store_faults` | One container and a failing store, with a question outside any thread, an event without an id and a message of the bot itself: who may work, who releases, what a record means? | holds |
| `slackbot_liveness` | With late handlers, dying workers, repeated invocations or old reads: is every question in somebody's hands until a reply was tried and marked; and is every question answered and every lock freed, in the end? | holds |
| `slackbot_lockout` | Does a lock stop blocking when its TTL has passed (`worker.py:56`)? | violated |
| `slackbot_orphan` | Is a question coalesced only behind one that is still running (`idempotency.py:194`)? | violated |
| `slackbot_lockless_release` | Are two queries of a pair exclusive when the claim fails open (`idempotency.py:331`)? | violated |
| `tool_calls` | Two calls of up to two requests share the provider, with cancellation, closing, failing sinks and a clock offset: single flight, usable tokens, no needless request, valid JWT; one record each and no result without it, tokens that last, only steps that the provider and the body of a tool allow? | holds |
| `tool_liveness` | Does every call end, one that waits for a refresh included, and every in-flight slot clear? | holds |
| `tool_cancelled` | Does an "ok" audit record mean that the result was returned (`types.py:34`)? | violated |
| `repo_reads` | One call of each tool while GitHub changes: is a file of one version and cut between characters, does its size agree, does a listing miss or repeat only what moved, is a rate limit told, does a search stay in scope, does the call keep to its body (`ToolBody`)? | holds |
| `query_turn` | One question from acknowledgement to record: does the reply keep the limit, end between glyphs and admit that it was cut; is an answer recorded only if it can be seen, the advice to try again sound, the final message single, the spending recorded, an error recorded with its cause, and does the turn end? | holds |
| `reply_fence` | Is a code fence that the cut leaves open closed (`format.py:26`)? | violated |

### Findings

1. **A lock outlives its TTL** (`slackbot_lockout`). `_claim`'s condition is
   `attribute_not_exists(pk)`. A worker that dies inside the query leaves a row
   that refuses every question of the pair until DynamoDB's background sweep,
   which `idempotency.py:24-26` itself puts at up to 48 hours, while
   `worker.py:56-58` says 360 seconds.
2. **A retry is coalesced with its own dead run** (`slackbot_orphan`). Lambda
   retries the event whose worker died inside the query; the retry meets the
   lock that run left, posts "already working on it", marks the event completed,
   and nobody ever answers. `slackbot_liveness` still holds: the coalescing
   notice is a final message, and the code counts it as one.
3. **A release by a run that never held the lock** (`slackbot_lockless_release`).
   A claim that failed open proceeds, and its `finally` deletes the row of the
   query that does hold the lock. A third query of the pair then wins.
4. **A cancelled call is recorded as ok** (`tool_cancelled`). The wrapper starts
   with `outcome = "ok"`; no `except` clause takes `CancelledError`, so
   `finally` records a success that was never returned.
5. **The closing fence opens a block** (`reply_fence`). When the unmatched fence
   ends within the last four characters of the cut content, the second cut, which
   makes room for the closer, removes it. The closer is appended all the same and
   puts the notice in a code block. At the default limit of 3,500 this takes an
   answer whose unmatched fence ends at one of the characters 3,453 to 3,456.
   `test_format.py` only has a fence far in front of the cut.

### Smaller divergences

Met while modelling, visible in the definitions, and not worth a run of their own:

- `FileContent` says of a complete file that its returned size is its total size.
  When the branch moves between the metadata and the raw request, the total is the
  old version's. `SizesAgree` states what remains true.
- A raw request answered by a 301 or for a directory is a success for `client.py`:
  its body is returned as the file. `ContentOfOneVersion` and `SizesAgree` hold for
  calls that met neither (`OnlyFiles`).
- `_rate_limit_retry_at` takes a 403 with no quota left for a rate limit, also when
  the request was denied for another reason and happened to be the window's last.
- `datetime.fromtimestamp` raises on a Retry-After beyond the year 9999; the caller
  gets an internal error instead of the limit.
- An answer without text blocks is posted as "", which Slack refuses: the record is
  an error, and the user sees the acknowledgement only.
- An answer that Claude cut at `max_tokens` is posted as a whole one.
- 408 and 409 are told as failures that a retry does not help, although the SDK
  itself retries them.
- `ask.py:91-94` counts three requests of 60 s against the worker's 300 s and finds
  room for the rest; it does not count the SDK's waits between them (section 2, "A
  turn has no clock").
- The generic message tells the user to try again shortly after any exception, one
  that will come again included: an answer that cannot be encoded, for instance.
- The exception path records no usage, even when Claude had answered, while
  `_post_and_finish` says that the money is spent whatever becomes of the message.
- `app.py` keeps each request to GitHub under API Gateway's 30 s (EDGE-018); a call
  makes several.

### Bounds

- Slackbot: two events of one pair suffice for every race the code has between
  a running query, one that waits behind it and a retry; `slackbot_lockless_release`
  has a third, for "a third query wins". The other events of
  `slackbot_store_faults` are there for what differs about them: no pair, no id,
  sent by the bot. Two containers are the least that can run side by side; one is
  enough where the store fails, since an orphaned lock and a retry meet on it.
  `MaxFaults` is 2: a fault and one more while its consequences last. `MaxSends`
  2 and `MaxRetries` 1 or 2 include a repeated delivery and a retry of a retry.
  Users without a token and events without a channel (`Denied`, `NoChannel`)
  only shorten a run; the proofs cover them, the runs do not.
- Tool calls and provider: two calls of two requests each; one starts a refresh,
  the other joins it, and either is cancelled while the other waits on. The clock
  runs long enough for a token to fall within the leeway between two requests,
  to expire and to be renewed; the offset covers GitHub behind by the backdate up
  to ahead by what leeway and timeout leave. `MaxPages` is 2, for 50. The liveness
  run has `MaxTime` 1, which still contains an expiry, a close and a second
  refresh.
- Reads: five repositories, three of them allowed, on pages of two with a limit of
  two pages: a listing that ends before the limit, at it and beyond it, with up to
  three changes between its pages. The eleven objects lie on both sides of each of
  the three sizes that matter and of a character the cut would tear. A quota of
  three requests runs out at each request of the longest call.
- Turn: eight characters and limits up to 7 reach every branch of the policy, a
  closer that fits without a second cut included: a family emoji of five
  characters, dropped whole, leaves room for it. Three attempts are the SDK's
  default.
- Each model's theorems (section 5) hold for all values of these constants.

### Fairness

`Slackbot!Fairness` is weak fairness of Slack's retry of what failed, of each
handler's next call, of Lambda starting what it accepted and retrying what
died, of a running container's next call, and of DynamoDB's sweeps: each is a
documented service guarantee or simply the CPU. Nothing is assumed of users
(`SlackSend`) or of faults. `EveryMentionHeard` is checked with late handlers,
dying workers, repeated invocations and old reads, and without a handler that dies between its claim and
its dispatch: that event is lost on purpose (AC-SB-002-3), and likewise when
workers die more often than Lambda retries.

`ToolCalls!CallFairness` is weak fairness of what the event loop has ready
(`Resume`, `RefreshDone`, `SendRequest`) and of the end of a request, which the
HTTP client's timeout guarantees. No fairness of callers, of success or of time.

`FairTurnSpec` is weak fairness of the whole turn: every call has a time limit and
an answer has a last token (`MaxLength`, for `CLAUDE_MAX_TOKENS`), so a turn that
can go on does. That says nothing of success.

Deadlock checking is off in all runs: the bounded environments (deliveries,
faults, refreshes, clock) run out of things to do, a slackbot that has answered
everything rests, and a read or a turn is over.

## 4. Assumptions on constants

`TableAssumption`, `HandlerAssumption`, `WorkerAssumption`, `GuardAssumption` and
`FormatAssumption` only give types and separate names; so does `TurnAssumption`.
Four assumptions have content:

- `ClockAssumption` (`TokenProvider`): GitHub's clock is ahead by at most the
  leeway; backdate, timeout and offset together stay under the life of the JWT;
  a token outlives the request that brought it. With the code's values (leeway 60 s at least,
  backdate 60 s, timeout 20 s, JWT 600 s, token one hour) an offset of up to a
  minute fits: 60 + 20 + 60 < 600 and 20 < 3600.
- `RequestAssumption` (`ToolCalls`): offset and one request together fit in the
  leeway, and a new token lasts for two requests: 40 s ahead at most, with the
  smallest leeway.
- `ReadsAssumption` (`RepositoryReads`): a character of a text has at most four
  bytes, a binary is not empty, the tool's limit is at most what GitHub sends
  inside an answer, and that at most what it sends raw. `types.py` lets
  `read_file_max_bytes` be 1 to 1,048,576, which is the inline limit.
- `GlyphAssumption` (`ReplyFormat`): inside a glyph, each character but the first
  attaches to the one before it, follows a joiner, or is the second half of a
  flag. That is the part of Unicode's text segmentation that the classes of
  `format.py` can express.

## 5. Proofs

All theorems are checked by TLAPS for arbitrary sets of events, pairs,
containers, callers, roles and repositories, and for all bounds.

**Types.** `SlackbotTyping!TypeCorrect`, `TokenProviderProofs!TypeCorrect`,
`ToolCallsProofs!CallsTyped`. The provider's needs a strengthening: a callback
may cache only a refresh that was started (`BornInv`).

**Slackbot** (`SlackbotProofs`, each from an invariant of its own):

- `OneWinner`. `WinnerInv`: an event without a row has no winner, unless its row
  was swept, and then the event is quiet. The lemma `QuietStable` says that nothing wakes a quiet event,
  which is what makes the TTL sweep harmless. Assumes no `early_sweep`.
- `WinnersWork`: queued and running work descends from a claim that was won.
  Under all faults.
- `MarksFollowReplies`: only a run that has tried to post reaches the mark.
  Under all faults.
- `RecordsAreHonest`: the slot's `posted` flag implies a delivered reply.
  Under all faults.
- `LocksHaveALivingOwner`: a lock with a living owner belongs to a run inside
  its try block. Under all faults.
- `OneQueryPerPair`: a run inside the query that won the claim owns the lock
  of its pair. Assumes no `store_error` and no `lost_reply`:
  `slackbot_lockless_release` shows that the first is needed.
- `SlackbotRefinement!KeepsThePromise`: every step of `Slackbot` is a step or a
  stutter of `QuestionLifecycle`. Two facts carry it: a reply was tried only for an
  event somebody won (`TriedInv`), and a run begins only after a read that found
  no mark. The second is why it assumes no `store_error`, `stale_read` or
  `early_sweep`.
- `QuestionsAreNotLost`: the way of a question has two legs (`MentionInv`), from
  Slack to the row and from the row to a reply that the row records. A claimed row
  always has somebody at work on it, in the handler, in the queue or in a
  container; a run that skips an event found it served. Three facts carry it: a run
  past its mark has marked its event (`MarkedInv`), a delivery Slack has not made has
  not begun (`UnsentInv`), and every retry of an invocation was paid for by a fault
  (`TriesInv`), which is why workers may die as often as Lambda retries and no more.
  Late handlers, repeated invocations, failed posts and old reads are all allowed.
  It excludes the faults for which the code gives a question up: a handler that dies
  or cannot dispatch after its claim, a request to the store whose outcome is not
  known, a row swept too early.

**Provider** (`TokenProviderProofs`, one invariant `IInv`): the slot names
exactly the refresh whose callback has not run (`SlotInv`), so a second one
cannot start: `OneRefresh`. Time does not pass the deadline of a refresh
(`TimeInv`) nor leave a woken waiter behind (`WaitInv`), so a token handed out
is recent or has more than the leeway left: `TokensAreGood`, `JwtAccepted`. No
task is cancelled (`OutcomeInv`): `CancelStaysLocal`. A token that is still good
is the cached one and then nothing is in flight (`NeedInv`): `CacheIsUsed`. The
task in the slot has at most three steps before it, the last of which clears the
slot, and every waiter waits for that task or for one that is over:
`NobodyWaitsInVain`, the half of `SlotIsFreed` that needs no fairness.

**Tool calls** (`ToolCallsProofs`): `CallsUseTheirParts` shows that `ToolCalls`
implements `TokenProvider`, so `IInv` holds there as well. From it, every token
handed out has more than `Timeout` left (`LongAnswers`), and a request starts in
the instant its token was handed out and ends within `Timeout` (`WireInv`):
`TokensOutliveRequests`. `RecordedOnce` is inductive as it stands: a call that has
not ended has no record, so it has returned nothing. `CallsUseTheirParts` also shows
that every call implements `ToolBody`: `BodyInv` says what the number of requests
means at each place, and `BodyStep` that a step of a call is one of its body or does
not concern it. From the same invariant, `CallsRunDown`: every step of a call leaves
it fewer (`StepsLeft`), whatever Link headers say. That is the half of `EveryCallEnds`
that needs no fairness; that a call with steps left takes one is left to TLC.

**Reply format** (`ReplyFormatProofs`): the back-off removes between none and all
of the characters (`BackOffBounds`, a cardinality), so the content stays in its
budget through both cuts (`ClosedInBudget`): `RepliesFit`, `CutsAreAnnounced`. For
every text, limit and length of the notice. `GlyphsStayWhole` needs to know where the
text may be cut: every position is the end of a glyph, or one at which the policy
backs off (`KnowsItsEnds`). Writing a glyph keeps that: between two halves of a flag
the parity of the run in front decides, and it depends on the text up to there only
(`RunPrefix`). So does a cut (`CutKnowsItsEnds`), and therefore the second cut, for the
closing fence, ends at a glyph like the first (`PolicyAtGlyph`).

**Reads** (`RepositoryReadsProofs`): `ReadsTyped` needs that a listing never counts
more pages than the limit. `FilesAreOneVersion` and `FileSizesAgree` rest on
`FileInv`: what the metadata noted is the size of a version the path had during
the call, and without a push the only one. `ListingsAreComplete` is the hardest
result: `FoundInv` says that a repository that was there all along, and stands in
front of the next page, was read, as long as none was removed; and that what stands
behind the pages read was not read yet, as long as none was added. The lemmas `Inserted`
and `Removed` say how an insertion or a removal moves the positions of a sequence.
`RateLimitsAreTold` and `SearchesStayInScope` follow from the step that ends the
call, which is final (`EndIsFinal`). `ReadsKeepToTheirBody` is the refinement of
`ToolBody`: every step begins, ends, counts one more answer, or is none of the body's
(`BodySteps`), and a listing asks on only below its limit.

**Turn** (`QueryTurnProofs`): `TurnInv` adds to the types what each stage knows
(`PhaseAgrees`): before the post, nothing but an acknowledgement stands in the
thread; the ending agrees with what the SDK handed over (`EndingAgrees`); after
the post, the thread has gained the ending's message or nothing, and the message
certainly if Slack's answer said so (`ThreadAgrees`). `OkIsShown`, `RefusalsStayPrivate`,
`AdviceStaysSound`, `OnlyOneFinal` and `SpendingRecorded` follow. So does
`CausesNamed`: an ending is either an exception, and then the SDK had reported no
failure, or an error with the reason of the failure it did report, and only an
answer takes Slack's reason in its place. `RepliesFitInTurn` and
`GlyphsStayWholeInTurn` take the theorems of `ReplyFormat` over to the turn.
`TurnsRunDown`: every step leaves a turn fewer steps (`StepsLeft`), which is the half
of `TurnEnds` that needs no fairness.

**Only model-checked**: the liveness properties, since neither fairness nor ENABLED
is within the prover's reach, and the five violations. Every invariant and every
action property of the passing runs is a theorem.

## 6. Not modelled

- **Request signature** (`S/slack/signature.py`). A comparison of a timestamp and
  of an HMAC before any state is touched, with unit tests at its boundaries.
- **Payload parsing** (`S/slack/events.py`). Pure; what it decides is an input of
  the models (`NoChannel`, the bot's own messages, events without an id, pairs).
- **Configuration** (both `config.py`). Read once at start, which then succeeds or
  fails. Their bounds are the assumptions of section 4.
- **Bearer token verifier** (`M/auth/verifier.py`). A lookup in a map fixed at
  start; the role it finds is an input of `CallTool`.
- **Redaction and serialisation** (`M/audit/logger.py`, `S/observability.py`). Pure
  functions of one record that no later step reads.
- **Routes, health checks, transport security** (`M/app.py`). Fixed at start.
- **What lies outside the repository**: the MCP SDK's sessions, DynamoDB, Lambda,
  Slack, Claude and GitHub are modelled only as far as the code uses them, and
  marked external in the map.
- **Infrastructure scripts, images, CI, the dependency audit**. They do not run with
  the system.

The two halves of a question (`SlackWorker`, `QueryTurn`) are not composed in one run.
They share no state but the outcome of the query, which the coarser module takes
freely, so whatever the finer one does is among its behaviours. The two halves of a
tool call (`ToolCalls`, `RepositoryReads`) meet in `ToolBody`, which both implement.
