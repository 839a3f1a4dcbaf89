---------------------------- MODULE IdempotencyTable ----------------------------
(*****************************************************************************)
(* The DynamoDB table both slackbot Lambdas share, as idempotency.py uses it. *)
(* It holds two families of rows under one partition key:                     *)
(*   event#<event_id>          who may process a Slack event, and whether it  *)
(*                             was answered                                   *)
(*   inflight#<user>#<thread>  the coalescing lock of a (user, thread) pair   *)
(* Every operator below is ONE request to DynamoDB, which is what makes it    *)
(* atomic; the callers in SlackHandler and SlackWorker add their own state.   *)
(*****************************************************************************)
EXTENDS Naturals

CONSTANTS
    Event,        \* Slack events, named by their event_id
    Anonymous,    \* events whose event_id is missing or blank
    Pair,         \* (user_id, thread_ts) pairs
    NoPair,       \* stands for a pair with a missing half
    Invocation,   \* worker containers that can run at once (reserved concurrency)
    Faults,       \* the faults the environment may inject in this instance
    MaxFaults     \* bound on how many it injects

FaultKinds ==
    { "store_error",     \* DynamoDB call raises; its write may have been applied
      "lost_reply",      \* the reply is lost and botocore sends the call again
      "stale_read",      \* GetItem is eventually consistent
      "early_sweep",     \* TTL configured below the redelivery window
      "slow",            \* a handler misses Slack's 3 s budget
      "handler_crash", "worker_crash",
      "dispatch_error",  \* Lambda Invoke raises; it may have been accepted
      "dup_invoke",      \* asynchronous invocation delivered more than once
      "post_fail" }      \* chat.postMessage fails

LockOwners == Invocation \cup {"free", "orphan", "expired"}

ASSUME TableAssumption ==
    /\ Anonymous \subseteq Event
    /\ NoPair \notin Pair
    /\ "free" \notin Invocation /\ "orphan" \notin Invocation
    /\ "expired" \notin Invocation
    /\ Faults \subseteq FaultKinds
    /\ MaxFaults \in Nat

VARIABLES
    events,  \* the event# rows; "swept" is "absent" after having existed
    locks,   \* the inflight# rows, with the owner the code does not store
    faults   \* faults injected so far

tableVars == <<events, locks, faults>>

RowStates == {"absent", "claimed", "completed", "swept"}

\* The row of a lock says nothing about its owner. The model remembers it: an
\* invocation that is running, "orphan" once that invocation is gone, and
\* "expired" once the orphan's TTL has passed. TTL (360 s) exceeds the worker's
\* own limit (300 s), so the lock of a running invocation never expires.
TableTypeOK ==
    /\ events \in [Event -> RowStates]
    /\ locks \in [Pair -> LockOwners]
    /\ faults \in 0..MaxFaults

TableInit ==
    /\ events = [e \in Event |-> "absent"]
    /\ locks = [p \in Pair |-> "free"]
    /\ faults = 0

\* One more injected fault of this kind.
Fault(kind) ==
    /\ kind \in Faults
    /\ faults < MaxFaults
    /\ faults' = faults + 1

NoFault == UNCHANGED faults

Exists(e) == events[e] \in {"claimed", "completed"}

SetRow(e, status) == events' = [events EXCEPT ![e] = status]

SetLock(p, owner) == locks' = [locks EXCEPT ![p] = owner]

ClaimReasons == {"claimed", "duplicate", "missing_event_id", "store_error"}

InflightReasons == {"claimed", "in_progress", "identifiers_missing", "store_error"}

-----------------------------------------------------------------------------
(* The event# rows *)

\* Mutant of ClaimEvent: the PutItem loses its ConditionExpression.
ClaimEventUnconditionally(e, reason) ==
    /\ e \notin Anonymous
    /\ reason = "claimed"
    /\ SetRow(e, "claimed")
    /\ NoFault

\* claim_event: one conditional PutItem decides the race. The row's ttl is not
\* part of the condition. A lost reply makes botocore resend a PutItem that was
\* applied, and the caller is told that its own write is a duplicate.
ClaimEvent(e, reason) ==
    \/ /\ e \in Anonymous
       /\ reason = "missing_event_id"
       /\ UNCHANGED events
       /\ NoFault
    \/ /\ e \notin Anonymous
       /\ Exists(e)
       /\ reason = "duplicate"
       /\ UNCHANGED events
       /\ NoFault
    \/ /\ e \notin Anonymous
       /\ ~Exists(e)
       /\ reason = "claimed"
       /\ SetRow(e, "claimed")
       /\ NoFault
    \/ /\ e \notin Anonymous
       /\ ~Exists(e)
       /\ reason = "duplicate"
       /\ SetRow(e, "claimed")
       /\ Fault("lost_reply")
    \/ /\ e \notin Anonymous
       /\ reason = "store_error"
       /\ UNCHANGED events \/ (~Exists(e) /\ SetRow(e, "claimed"))
       /\ Fault("store_error")

\* mark_event_completed: an unconditional update that also creates the row.
MarkCompleted(e) ==
    \/ SetRow(e, "completed") /\ NoFault
    \/ UNCHANGED events /\ Fault("store_error")
    \/ SetRow(e, "completed") /\ Fault("store_error")

\* Mutant of ReadCompleted: any row counts, not only a completed one.
ReadExists(e, answer) ==
    /\ UNCHANGED events
    /\ answer = Exists(e)
    /\ NoFault

\* is_event_completed under its caller's fail-open wrapper: a GetItem without
\* ConsistentRead may miss a recent mark, and an unreachable store reads FALSE.
ReadCompleted(e, answer) ==
    /\ UNCHANGED events
    /\ \/ answer = (events[e] = "completed") /\ NoFault
       \/ ~answer /\ events[e] = "completed" /\ Fault("stale_read")
       \/ ~answer /\ Fault("store_error")

\* DynamoDB's background sweep of an event row. The default TTL (3600 s) is
\* longer than every redelivery window, so a row goes only once nothing of the
\* event is under way; "early_sweep" drops that guarantee.
SweepEvent(e, quiet) ==
    /\ Exists(e)
    /\ \/ quiet /\ NoFault
       \/ ~quiet /\ Fault("early_sweep")
    /\ SetRow(e, "swept")
    /\ UNCHANGED locks

-----------------------------------------------------------------------------
(* The inflight# rows *)

\* claim_inflight_query under its caller's fail-open wrapper. The same
\* conditional PutItem: any row refuses the claim, an expired one included.
\* Whoever is told "in_progress" for its own write never releases it.
ClaimInflight(p, i, reason) ==
    \/ /\ p = NoPair
       /\ reason = "identifiers_missing"
       /\ UNCHANGED locks
       /\ NoFault
    \/ /\ p # NoPair
       /\ locks[p] # "free"
       /\ reason = "in_progress"
       /\ UNCHANGED locks
       /\ NoFault
    \/ /\ p # NoPair
       /\ locks[p] = "free"
       /\ reason = "claimed"
       /\ SetLock(p, i)
       /\ NoFault
    \/ /\ p # NoPair
       /\ locks[p] = "free"
       /\ reason = "in_progress"
       /\ SetLock(p, "orphan")
       /\ Fault("lost_reply")
    \/ /\ p # NoPair
       /\ reason = "store_error"
       /\ UNCHANGED locks \/ (locks[p] = "free" /\ SetLock(p, i))
       /\ Fault("store_error")

\* What becomes of i's locks when i stops without deleting them.
Orphaned(i) == [p \in Pair |-> IF locks[p] = i THEN "orphan" ELSE locks[p]]

\* release_inflight_query: DeleteItem with no condition, so it deletes the row
\* whoever wrote it. "again" says that botocore lost the reply and will resend.
ReleaseInflight(p, i, again) ==
    \/ /\ p = NoPair
       /\ ~again
       /\ UNCHANGED locks
       /\ NoFault
    \/ /\ p # NoPair
       /\ ~again
       /\ SetLock(p, "free")
       /\ NoFault
    \/ /\ p # NoPair
       /\ again
       /\ SetLock(p, "free")
       /\ Fault("lost_reply")
    \/ /\ p # NoPair
       /\ ~again
       /\ locks' = Orphaned(i) \/ SetLock(p, "free")
       /\ Fault("store_error")

\* Mutant of ExpireLock: the lock is written without a ttl attribute.
NeverExpireLock(p) ==
    /\ locks[p] = "orphan"
    /\ UNCHANGED <<events, locks, faults>>

\* The TTL of a lock nobody is left to release passes.
ExpireLock(p) ==
    /\ locks[p] = "orphan"
    /\ SetLock(p, "expired")
    /\ UNCHANGED <<events, faults>>

\* The background sweep deletes an expired lock, hours later.
SweepLock(p) ==
    /\ locks[p] = "expired"
    /\ SetLock(p, "free")
    /\ UNCHANGED <<events, faults>>
=============================================================================
