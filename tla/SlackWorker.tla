------------------------------- MODULE SlackWorker -------------------------------
(*****************************************************************************)
(* The slack-worker Lambda (worker.py): what one asynchronous invocation does *)
(* with one event, and what the Lambda service does around it (at-least-once  *)
(* delivery, two retries of an invocation that died). Every step makes at     *)
(* most one call that leaves the process, in the order of _process_event.     *)
(* A run of the worker holds nothing between invocations.                     *)
(*****************************************************************************)
EXTENDS AsyncQueue

CONSTANTS
    PairOf,       \* the (user, thread) pair of an event
    Denied,       \* events of users without an MCP token
    NoChannel,    \* events that name no channel to reply to
    MaxRetries    \* retries Lambda makes of an asynchronous invocation

NoEvent == "none"

ASSUME WorkerAssumption ==
    /\ NoEvent \notin Event
    /\ PairOf \in [Event -> Pair \cup {NoPair}]
    /\ Denied \subseteq Event
    /\ NoChannel \subseteq Event
    /\ MaxRetries \in Nat

VARIABLES
    inv,        \* what each worker container is doing
    tried,      \* history: events for which some run tried to post a final message
    delivered,  \* history: the kinds of final message Slack accepted, per event
    records     \* history: outcomes in the observation records, per event

workerVars == <<inv, tried, delivered, records>>

WorkerPCs == {"idle", "start", "lock", "query", "post", "mark", "emit",
              "release", "retry"}

\* The final message: the answer, or a notice in its place (the denial of an
\* unregistered user, the acknowledgement that ends a coalesced question, an
\* error, a refusal, the message after an unexpected exception).
Replies == {"answer", "notice"}

\* AuditOutcome: "other" stands for its "denied" and "error".
Outcomes == {"ok", "other"}

Slots ==
    { slot \in [pc : WorkerPCs, ev : Event \cup {NoEvent}, tries : 0..MaxRetries,
                claim : InflightReasons \cup {"none"}, reply : Replies \cup {"none"},
                posted : BOOLEAN] :
        /\ slot.ev \in IF slot.pc = "idle" THEN {NoEvent} ELSE Event
        /\ slot.pc = "post" => slot.reply \in Replies }

Idle == [pc |-> "idle", ev |-> NoEvent, tries |-> 0, claim |-> "none",
         reply |-> "none", posted |-> FALSE]

Fresh(e, label, n) == [Idle EXCEPT !.pc = label, !.ev = e, !.tries = n]

WorkerTypeOK ==
    /\ inv \in [Invocation -> Slots]
    /\ tried \subseteq Event
    /\ delivered \in [Event -> SUBSET Replies]
    /\ records \in [Event -> SUBSET Outcomes]

WorkerInit ==
    /\ inv = [i \in Invocation |-> Idle]
    /\ tried = {}
    /\ delivered = [e \in Event |-> {}]
    /\ records = [e \in Event |-> {}]

PairFor(i) == PairOf[inv[i].ev]

At(i, label) == inv[i].pc = label

\* Mutants of Holding: the fail-open claim is not released; the refused one is.
HoldingOnlyClaimed(slot) == slot.claim = "claimed"
HoldingAnything(slot) == slot.claim # "none"

\* An invocation that holds a lock claim of any kind releases it at its end.
Holding(slot) == slot.claim \in {"claimed", "identifiers_missing", "store_error"}

\* Past the completion check: it may still post.
Committed(i, e) ==
    inv[i].ev = e /\ inv[i].pc \in {"lock", "query", "post", "mark", "emit", "release"}

\* In the try block around _run_query, its lock claimed.
InQuery(i) ==
    inv[i].claim = "claimed" /\ inv[i].pc \in {"query", "post", "mark", "emit", "release"}

WorkerQuiet(e) == queue[e] = 0 /\ \A i \in Invocation : inv[i].ev # e

Becomes(i, slot) == inv' = [inv EXCEPT ![i] = slot]

-----------------------------------------------------------------------------
(* The Lambda service *)

\* A free container takes an invocation.
WorkerStart(i, e) ==
    /\ At(i, "idle")
    /\ Dequeue(e)
    /\ Becomes(i, Fresh(e, "start", 0))
    /\ UNCHANGED <<events, locks, tried, delivered, records>>

\* A crash, OOM kill or the 300 s limit, between any two calls. Nothing of the
\* run survives but what it wrote; Lambda retries the event, then gives it up.
WorkerCrash(i) ==
    /\ inv[i].pc \notin {"idle", "retry"}
    /\ Fault("worker_crash")
    /\ locks' = Orphaned(i)
    /\ Becomes(i, IF inv[i].tries < MaxRetries
                  THEN Fresh(inv[i].ev, "retry", inv[i].tries + 1) ELSE Idle)
    /\ UNCHANGED <<events, queue, tried, delivered, records>>

WorkerRetry(i) ==
    /\ At(i, "retry")
    /\ Becomes(i, [inv[i] EXCEPT !.pc = "start"])
    /\ UNCHANGED <<events, locks, faults, queue, tried, delivered, records>>

-----------------------------------------------------------------------------
(* _process_event *)

\* Mutant of CheckCompleted: the completion check is left out.
CheckNothing(i) ==
    LET e == inv[i].ev IN
    /\ At(i, "start")
    /\ Becomes(i,
         IF e \in NoChannel THEN Idle
         ELSE IF e \in Denied
              THEN [inv[i] EXCEPT !.pc = "post", !.reply = "notice"]
              ELSE [inv[i] EXCEPT !.pc = "lock"])
    /\ UNCHANGED <<events, locks, faults, queue, tried, delivered, records>>

\* Mutant of CheckCompleted: the event is marked on the way in, before a reply.
CheckAndMark(i) ==
    LET e == inv[i].ev IN
    /\ At(i, "start")
    /\ Becomes(i, IF events[e] = "completed" THEN Idle ELSE [inv[i] EXCEPT !.pc = "lock"])
    /\ SetRow(e, "completed")
    /\ UNCHANGED <<locks, faults, queue, tried, delivered, records>>

\* Steps 1 and 2: _is_completed_or_fail_open, then the local decisions. An
\* event without a channel is dropped unmarked; an unregistered user is denied
\* without touching the lock.
CheckCompleted(i) ==
    LET e == inv[i].ev IN
    /\ At(i, "start")
    /\ \E done \in BOOLEAN :
          /\ ReadCompleted(e, done)
          /\ Becomes(i,
               IF done \/ e \in NoChannel THEN Idle
               ELSE IF e \in Denied
                    THEN [inv[i] EXCEPT !.pc = "post", !.reply = "notice"]
                    ELSE [inv[i] EXCEPT !.pc = "lock"])
    /\ UNCHANGED <<locks, queue, tried, delivered, records>>

\* Step 3: _claim_inflight_or_fail_open. Refused means the acknowledgement is
\* the final message; anything else enters the try block.
ClaimLock(i) ==
    /\ At(i, "lock")
    /\ \E reason \in InflightReasons :
          /\ ClaimInflight(PairFor(i), i, reason)
          /\ Becomes(i,
               IF reason = "in_progress"
               THEN [inv[i] EXCEPT !.pc = "post", !.claim = reason, !.reply = "notice"]
               ELSE [inv[i] EXCEPT !.pc = "query", !.claim = reason])
    /\ UNCHANGED <<events, queue, tried, delivered, records>>

\* Mutant of RunQuery: a failed query ends without a message.
RunQuerySilently(i) ==
    /\ At(i, "query")
    /\ \E reply \in Replies :
          Becomes(i, [inv[i] EXCEPT !.pc = IF reply = "answer" THEN "post" ELSE "mark",
                                    !.reply = reply])
    /\ UNCHANGED <<events, locks, faults, queue, tried, delivered, records>>

\* Steps 4 to 6: the acknowledgement, ask_claude, the length policy. Whatever
\* comes of them, an unexpected exception included, ends in one final message.
RunQuery(i) ==
    /\ At(i, "query")
    /\ \E reply \in Replies :
          Becomes(i, [inv[i] EXCEPT !.pc = "post", !.reply = reply])
    /\ UNCHANGED <<events, locks, faults, queue, tried, delivered, records>>

\* Step 7: post_message, which reports a failure and never raises.
PostReply(i) ==
    LET e == inv[i].ev IN
    /\ At(i, "post")
    /\ tried' = tried \cup {e}
    /\ \/ /\ NoFault
          /\ delivered' = [delivered EXCEPT ![e] = @ \cup {inv[i].reply}]
          /\ Becomes(i, [inv[i] EXCEPT !.pc = "mark", !.posted = TRUE])
       \/ /\ Fault("post_fail")
          /\ UNCHANGED delivered
          /\ Becomes(i, [inv[i] EXCEPT !.pc = "mark"])
    /\ UNCHANGED <<events, locks, queue, records>>

\* Step 8: _safe_mark_completed, whether the post succeeded or not.
MarkDone(i) ==
    /\ At(i, "mark")
    /\ MarkCompleted(inv[i].ev)
    /\ Becomes(i, [inv[i] EXCEPT !.pc = "emit"])
    /\ UNCHANGED <<locks, queue, tried, delivered, records>>

\* Mutant of EffectiveOutcome: no downgrade.
OutcomeOfTheQuery(slot) == IF slot.reply = "answer" THEN "ok" ELSE "other"

\* Mutant of EffectiveOutcome: the record carries the kind of the reply.
ReplyAsOutcome(slot) == slot.reply

\* Step 9: the observation record. "ok" is downgraded when the post failed.
EffectiveOutcome(slot) ==
    IF slot.reply = "answer" /\ slot.posted THEN "ok" ELSE "other"

EmitRecord(i) ==
    /\ At(i, "emit")
    /\ records' = [records EXCEPT ![inv[i].ev] = @ \cup {EffectiveOutcome(inv[i])}]
    /\ Becomes(i, IF Holding(inv[i]) THEN [inv[i] EXCEPT !.pc = "release"] ELSE Idle)
    /\ UNCHANGED <<events, locks, faults, queue, tried, delivered>>

\* The finally block: _release_inflight_or_log, in every case that claimed.
ReleaseLock(i) ==
    /\ At(i, "release")
    /\ \E again \in BOOLEAN :
          /\ ReleaseInflight(PairFor(i), i, again)
          /\ Becomes(i, IF again THEN inv[i] ELSE Idle)
    /\ UNCHANGED <<events, queue, tried, delivered, records>>

WorkerRun(i) ==
    \/ CheckCompleted(i) \/ ClaimLock(i) \/ RunQuery(i) \/ PostReply(i)
    \/ MarkDone(i) \/ EmitRecord(i) \/ ReleaseLock(i)

WorkerStep ==
    \E i \in Invocation :
        \/ \E e \in Event : WorkerStart(i, e)
        \/ WorkerRun(i)
        \/ WorkerCrash(i)
        \/ WorkerRetry(i)
=============================================================================
