------------------------------ MODULE SlackHandler ------------------------------
(*****************************************************************************)
(* The slack-handler Lambda (handler.py) and the sender it answers. Slack     *)
(* delivers an event, and delivers it again when no 2xx came back within 3 s. *)
(* Each delivery runs in a container of its own, so several deliveries of one *)
(* event interleave at their store and Lambda calls.                          *)
(* A request here carries a valid signature and parses: signature.py and the  *)
(* 401/400/url_verification replies change no state and are left out.         *)
(*****************************************************************************)
EXTENDS AsyncQueue

CONSTANTS
    SelfMessages,  \* events posted by the bot itself
    MaxSends       \* deliveries Slack makes of one event: the first and 3 retries

ASSUME HandlerAssumption ==
    /\ SelfMessages \subseteq Event
    /\ MaxSends \in Nat \ {0}

VARIABLES
    sends,   \* deliveries Slack has made of an event
    acked,   \* events for which Slack got a 2xx in time
    hpc,     \* where each delivery's handler run is
    wins     \* history: handler runs that were told "claimed"

handlerVars == <<sends, acked, hpc, wins>>

Delivery == 1..MaxSends

HandlerPCs == {"unsent", "received", "dispatch", "respond", "done", "dead"}

HandlerTypeOK ==
    /\ sends \in [Event -> 0..MaxSends]
    /\ acked \in [Event -> BOOLEAN]
    /\ hpc \in [Event -> [Delivery -> HandlerPCs]]
    /\ wins \in [Event -> Nat]

HandlerInit ==
    /\ sends = [e \in Event |-> 0]
    /\ acked = [e \in Event |-> FALSE]
    /\ hpc = [e \in Event |-> [k \in Delivery |-> "unsent"]]
    /\ wins = [e \in Event |-> 0]

Goto(e, k, label) == hpc' = [hpc EXCEPT ![e] = [@ EXCEPT ![k] = label]]

\* Slack will not deliver e (again), and no delivery is still to be claimed.
SlackQuiet(e) ==
    /\ sends[e] > 0
    /\ acked[e] \/ sends[e] = MaxSends
    /\ \A k \in Delivery : hpc[e][k] \notin {"received", "dispatch"}

-----------------------------------------------------------------------------
(* Slack *)

SlackSend(e) ==
    /\ sends[e] = 0
    /\ sends' = [sends EXCEPT ![e] = 1]
    /\ Goto(e, 1, "received")
    /\ UNCHANGED <<events, locks, faults, acked, wins, queue>>

\* A retry: the last delivery failed, or its answer is late.
SlackRetry(e) ==
    /\ sends[e] \in 1..(MaxSends - 1)
    /\ ~acked[e]
    /\ \/ hpc[e][sends[e]] = "dead" /\ NoFault
       \/ hpc[e][sends[e]] # "dead" /\ Fault("slow")
    /\ sends' = [sends EXCEPT ![e] = @ + 1]
    /\ Goto(e, sends[e] + 1, "received")
    /\ UNCHANGED <<events, locks, acked, wins, queue>>

-----------------------------------------------------------------------------
(* _slack_events, from a verified and parsed body to the 200 *)

\* is_bot_self_message: 200 before any idempotency or dispatch work.
HandlerIgnore(e, k) ==
    /\ hpc[e][k] = "received"
    /\ e \in SelfMessages
    /\ Goto(e, k, "respond")
    /\ UNCHANGED <<events, locks, faults, sends, acked, wins, queue>>

\* Mutant of HandlerClaim: an unreachable store fails open.
HandlerClaimFailOpen(e, k) ==
    /\ hpc[e][k] = "received"
    /\ e \notin SelfMessages
    /\ \E reason \in ClaimReasons :
          /\ ClaimEvent(e, reason)
          /\ Goto(e, k, IF reason \in {"claimed", "store_error"} THEN "dispatch" ELSE "respond")
          /\ wins' = [wins EXCEPT ![e] = IF reason = "claimed" THEN @ + 1 ELSE @]
    /\ UNCHANGED <<locks, sends, acked, queue>>

\* _claim_or_fail_safe: only "claimed" goes on to dispatch; a duplicate, an
\* unusable id and an unreachable store all end in 200 without work.
HandlerClaim(e, k) ==
    /\ hpc[e][k] = "received"
    /\ e \notin SelfMessages
    /\ \E reason \in ClaimReasons :
          /\ ClaimEvent(e, reason)
          /\ Goto(e, k, IF reason = "claimed" THEN "dispatch" ELSE "respond")
          /\ wins' = [wins EXCEPT ![e] = IF reason = "claimed" THEN @ + 1 ELSE @]
    /\ UNCHANGED <<locks, sends, acked, queue>>

\* _dispatch_to_worker: every exception is swallowed, and the call it comes
\* from may have been accepted, once or (resent by botocore) twice.
HandlerDispatch(e, k) ==
    /\ hpc[e][k] = "dispatch"
    /\ \/ Enqueue(e, 1) /\ NoFault
       \/ UNCHANGED queue /\ Fault("dispatch_error")
       \/ Enqueue(e, 1) /\ Fault("dispatch_error")
       \/ Enqueue(e, 2) /\ Fault("dup_invoke")
    /\ Goto(e, k, "respond")
    /\ UNCHANGED <<events, locks, sends, acked, wins>>

\* The 200. Slack takes it only for the delivery it is still waiting on.
HandlerRespond(e, k) ==
    /\ hpc[e][k] = "respond"
    /\ Goto(e, k, "done")
    /\ acked' = [acked EXCEPT ![e] = @ \/ k = sends[e]]
    /\ UNCHANGED <<events, locks, faults, sends, wins, queue>>

\* The container dies, or its 10 s limit passes, between two of its calls.
HandlerCrash(e, k) ==
    /\ hpc[e][k] \in {"received", "dispatch", "respond"}
    /\ Fault("handler_crash")
    /\ Goto(e, k, "dead")
    /\ UNCHANGED <<events, locks, sends, acked, wins, queue>>

HandlerRun(e, k) ==
    \/ HandlerIgnore(e, k) \/ HandlerClaim(e, k)
    \/ HandlerDispatch(e, k) \/ HandlerRespond(e, k)

HandlerStep ==
    \E e \in Event :
        \/ SlackSend(e)
        \/ SlackRetry(e)
        \/ \E k \in Delivery : HandlerRun(e, k) \/ HandlerCrash(e, k)
=============================================================================
