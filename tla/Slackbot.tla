--------------------------------- MODULE Slackbot ---------------------------------
(*****************************************************************************)
(* The slackbot: Slack, any number of handler runs, the asynchronous queue,   *)
(* the worker containers and the table they share.                            *)
(*****************************************************************************)
EXTENDS SlackHandler, SlackWorker

vars == <<events, locks, faults, sends, acked, hpc, wins,
          queue, inv, tried, delivered, records>>

TypeOK == TableTypeOK /\ QueueTypeOK /\ HandlerTypeOK /\ WorkerTypeOK

Init == TableInit /\ QueueInit /\ HandlerInit /\ WorkerInit

\* Nothing of e is under way anywhere, and Slack is done with it.
Quiet(e) == SlackQuiet(e) /\ WorkerQuiet(e)

Expire ==
    /\ \/ \E e \in Event : SweepEvent(e, Quiet(e))
       \/ \E p \in Pair : ExpireLock(p) \/ SweepLock(p)
    /\ UNCHANGED <<handlerVars, workerVars, queue>>

Next ==
    \/ HandlerStep /\ UNCHANGED workerVars
    \/ WorkerStep /\ UNCHANGED handlerVars
    \/ Expire

Spec == Init /\ [][Next]_vars

-----------------------------------------------------------------------------
(* Safety *)

\* claim_event has one winner: however many deliveries of an event race, crash
\* or are repeated, at most one handler run is ever told "claimed".
SingleWinner == \A e \in Event : wins[e] <= 1

\* Nothing runs for an event nobody won: work in the queue or in a container is
\* always the winner's, and never a bot message's or an event without an id.
WorkIsTheWinners ==
    \A e \in Event :
        (queue[e] > 0 \/ \E i \in Invocation : inv[i].ev = e)
            => wins[e] > 0 /\ e \notin SelfMessages \cup Anonymous

\* mark_event_completed never runs ahead of the reply: a retry that finds the
\* event completed may skip it because some run already tried to post.
CompletedMeansReplied ==
    \A e \in Event : events[e] = "completed" => e \in tried

\* An "ok" observation record (CTR-SB-008) exists only for an answer Slack took.
OkMeansDelivered ==
    \A e \in Event : "ok" \in records[e] => "answer" \in delivered[e]

\* The coalescing lock: two queries of one (user, thread) pair that both won the
\* claim never run at the same time.
LockExclusive ==
    \A i, j \in Invocation :
        InQuery(i) /\ InQuery(j) /\ PairFor(i) = PairFor(j) => i = j

\* No run ends, in whatever way, and leaves a lock that still counts as its own:
\* the owner of a lock is inside the try block whose finally releases it.
NoLockOutlivesItsRun ==
    \A p \in Pair : locks[p] \in Invocation =>
        LET slot == inv[locks[p]] IN
        /\ slot.pc \in {"query", "post", "mark", "emit", "release"}
        /\ Holding(slot)
        /\ PairOf[slot.ev] = p

\* A person's message in a channel: what the slackbot owes a reply.
Questions == Event \ (SelfMessages \cup Anonymous \cup NoChannel)

\* Some handler is about to hand e over, or the queue or a container has it.
InWork(e) ==
    \/ \E k \in Delivery : hpc[e][k] = "dispatch"
    \/ ~WorkerQuiet(e)

\* A reply to e was tried and the table says so.
Served(e) == e \in tried /\ events[e] \in {"completed", "swept"}

\* No question is lost between two components: from the moment Slack has sent it,
\* a delivery is still to claim it, somebody has it, or it was served. With it the
\* rows mean what the retries take them for: a claimed row has somebody at work.
NoMentionLost ==
    \A e \in Questions :
        sends[e] > 0 =>
            (\E k \in Delivery : hpc[e][k] = "received") \/ InWork(e) \/ Served(e)

\* The slackbot keeps the promise of QuestionLifecycle. An event is accepted
\* when a handler wins it and settled while its row says completed.
PhaseOf(e) ==
    IF events[e] = "swept" THEN "forgotten"
    ELSE IF wins[e] = 0 THEN "new"
    ELSE IF events[e] = "completed" THEN "settled"
    ELSE IF e \in tried THEN "replied" ELSE "accepted"

Lifecycle == INSTANCE QuestionLifecycle WITH
    phase <- [e \in Event |-> PhaseOf(e)],
    open <- {ie \in Invocation \X Event : Committed(ie[1], ie[2])}

KeepsLifecycle == Lifecycle!Spec

-----------------------------------------------------------------------------
(* Liveness *)

\* Slack retries what failed, Lambda starts what it accepted and retries what
\* died, a container that runs makes its next call, DynamoDB sweeps in the end.
\* Users need not ask.
Fairness ==
    /\ \A e \in Event :
          /\ WF_vars(SlackRetry(e) /\ UNCHANGED workerVars)
          /\ \A k \in Delivery : WF_vars(HandlerRun(e, k) /\ UNCHANGED workerVars)
          /\ WF_vars((\E i \in Invocation : WorkerStart(i, e)) /\ UNCHANGED handlerVars)
    /\ \A i \in Invocation :
          WF_vars((WorkerRun(i) \/ WorkerRetry(i)) /\ UNCHANGED handlerVars)
    /\ WF_vars(Expire)

FairSpec == Spec /\ Fairness

\* Every question gets a final message and is recorded as completed, though
\* handlers answer late and workers die, as long as Lambda has retries left.
EveryMentionHeard ==
    \A e \in Questions :
        sends[e] > 0 ~> delivered[e] # {} /\ events[e] \in {"completed", "swept"}

\* A pair is never locked for good, even when the worker died inside the query.
LocksAreFreed == \A p \in Pair : locks[p] # "free" ~> locks[p] = "free"

-----------------------------------------------------------------------------
(* What the docs say and the code does not do *)

\* A claim is refused only because another query of the pair is still running.
CoalescedBehindARunningQuery ==
    [][\A i \in Invocation :
          inv[i].pc = "lock" /\ inv'[i].claim = "in_progress"
              => locks[PairFor(i)] \in Invocation]_vars

\* A lock whose TTL has passed blocks nobody.
LockoutEndsWithTheTTL ==
    [][\A i \in Invocation :
          inv[i].pc = "lock" /\ inv'[i].claim = "in_progress"
              => locks[PairFor(i)] # "expired"]_vars
=============================================================================
