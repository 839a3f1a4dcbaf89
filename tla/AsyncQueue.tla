------------------------------- MODULE AsyncQueue -------------------------------
(*****************************************************************************)
(* Lambda's asynchronous invocation queue between the handler and the worker, *)
(* as handler.py's Invoke(InvocationType="Event") feeds it. It is outside the *)
(* repository: an accepted request is delivered at least once, in any order.  *)
(*****************************************************************************)
EXTENDS IdempotencyTable

VARIABLE queue   \* accepted invocations not yet delivered, per event

QueueTypeOK == queue \in [Event -> Nat]

QueueInit == queue = [e \in Event |-> 0]

Enqueue(e, n) == queue' = [queue EXCEPT ![e] = @ + n]

\* Delivery of one request; "dup_invoke" keeps it to be delivered once more.
Dequeue(e) ==
    /\ queue[e] > 0
    /\ \/ queue' = [queue EXCEPT ![e] = @ - 1] /\ NoFault
       \/ UNCHANGED queue /\ Fault("dup_invoke")
=============================================================================
