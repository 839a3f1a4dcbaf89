------------------------------ MODULE SlackbotProofs ------------------------------
(*****************************************************************************)
(* The safety properties of Slackbot, for every value of its constants. Each  *)
(* is proved from an inductive invariant of its own; where a property depends *)
(* on the store behaving, the faults it cannot bear are excluded by name.     *)
(*****************************************************************************)
EXTENDS SlackbotTyping

-----------------------------------------------------------------------------
(* Quiet events *)

\* A container works on the same event until it is idle again.
LEMMA EventOfASlot ==
    ASSUME TypeOK, NEW i \in Invocation, WorkerRun(i) \/ WorkerCrash(i) \/ WorkerRetry(i)
    PROVE  \E slot : inv' = [inv EXCEPT ![i] = slot] /\ slot.ev \in {inv[i].ev, NoEvent}
<1> USE DEF Becomes, Idle, Fresh
<1>t. inv[i] \in Slots
  BY DEF TypeOK, WorkerTypeOK
<1>i. Idle.ev = NoEvent
  OBVIOUS
<1>p. \A label : [inv[i] EXCEPT !.pc = label].ev = inv[i].ev
  BY <1>t DEF Slots
<1>1. CASE CheckCompleted(i)
  <2>1. [inv[i] EXCEPT !.pc = "post", !.reply = "notice"].ev = inv[i].ev
    BY <1>t DEF Slots
  <2>2. PICK done \in BOOLEAN :
          Becomes(i, IF done \/ inv[i].ev \in NoChannel THEN Idle
                     ELSE IF inv[i].ev \in Denied
                          THEN [inv[i] EXCEPT !.pc = "post", !.reply = "notice"]
                          ELSE [inv[i] EXCEPT !.pc = "lock"])
    BY <1>1 DEF CheckCompleted
  <2> QED
    BY <1>i, <1>p, <2>1, <2>2
<1>2. CASE ClaimLock(i)
  BY <1>t, <1>2 DEF ClaimLock, Slots
<1>3. CASE RunQuery(i)
  BY <1>t, <1>3 DEF RunQuery, Slots
<1>4. CASE PostReply(i)
  BY <1>t, <1>4 DEF PostReply, Slots
<1>5. CASE MarkDone(i)
  BY <1>p, <1>5 DEF MarkDone
<1>6. CASE EmitRecord(i)
  BY <1>i, <1>p, <1>6 DEF EmitRecord
<1>7. CASE ReleaseLock(i)
  BY <1>i, <1>7 DEF ReleaseLock
<1>8. CASE WorkerCrash(i)
  <2>1. \A label, n : Fresh(inv[i].ev, label, n).ev = inv[i].ev
    OBVIOUS
  <2> QED
    BY <1>i, <1>8, <2>1 DEF WorkerCrash
<1>9. CASE WorkerRetry(i)
  BY <1>p, <1>9 DEF WorkerRetry
<1> QED
  BY <1>1, <1>2, <1>3, <1>4, <1>5, <1>6, <1>7, <1>8, <1>9 DEF WorkerRun

\* Nothing wakes an event that is quiet: what a sweep removes is never needed.
LEMMA QuietStable ==
    ASSUME TypeOK, NEW e \in Event, Quiet(e), [Next]_vars
    PROVE  Quiet(e)'
<1> USE DEF Quiet, SlackQuiet, WorkerQuiet
<1>q. /\ sends[e] > 0
      /\ acked[e] \/ sends[e] = MaxSends
      /\ \A k \in Delivery : hpc[e][k] \notin {"received", "dispatch"}
      /\ queue[e] = 0
      /\ \A i \in Invocation : inv[i].ev # e
  OBVIOUS
<1>t. /\ sends \in [Event -> 0..MaxSends] /\ MaxSends \in Nat
      /\ acked \in [Event -> BOOLEAN]
      /\ hpc \in [Event -> [Delivery -> HandlerPCs]]
      /\ queue \in [Event -> Nat]
      /\ inv \in [Invocation -> Slots]
  BY HandlerAssumption
  DEF HandlerAssumption, TypeOK, HandlerTypeOK, QueueTypeOK, WorkerTypeOK
<1>1. ASSUME HandlerStep, UNCHANGED workerVars  PROVE Quiet(e)'
  <2>w. UNCHANGED inv
    BY <1>1 DEF workerVars
  <2>1. ASSUME NEW f \in Event, SlackSend(f)  PROVE Quiet(e)'
    BY <1>q, <1>t, <2>w, <2>1 DEF SlackSend, Goto
  <2>2. ASSUME NEW f \in Event, SlackRetry(f)  PROVE Quiet(e)'
    <3>1. f # e
      BY <1>q, <1>t, <2>2 DEF SlackRetry
    <3> QED
      BY <1>q, <1>t, <2>w, <2>2, <3>1 DEF SlackRetry, Goto
  <2>3. ASSUME NEW f \in Event, NEW k \in Delivery, HandlerRun(f, k) \/ HandlerCrash(f, k)
        PROVE  Quiet(e)'
    <3>1. CASE HandlerIgnore(f, k)
      BY <1>q, <1>t, <2>w, <3>1 DEF HandlerIgnore, Goto
    <3>2. CASE HandlerClaim(f, k)
      <4>1. f # e /\ UNCHANGED <<sends, acked, queue>>
        BY <1>q, <3>2 DEF HandlerClaim
      <4>2. \E label : hpc' = [hpc EXCEPT ![f] = [@ EXCEPT ![k] = label]]
        BY <3>2 DEF HandlerClaim, Goto
      <4> QED
        BY <1>q, <1>t, <2>w, <4>1, <4>2
    <3>3. CASE HandlerDispatch(f, k)
      <4>1. f # e /\ UNCHANGED <<sends, acked>>
        BY <1>q, <3>3 DEF HandlerDispatch
      <4>2. queue'[e] = queue[e]
        BY <1>t, <3>3, <4>1 DEF HandlerDispatch, Enqueue
      <4> QED
        BY <1>q, <1>t, <2>w, <3>3, <4>1, <4>2 DEF HandlerDispatch, Goto
    <3>4. CASE HandlerRespond(f, k)
      BY <1>q, <1>t, <2>w, <3>4 DEF HandlerRespond, Goto
    <3>5. CASE HandlerCrash(f, k)
      BY <1>q, <1>t, <2>w, <3>5 DEF HandlerCrash, Goto
    <3> QED
      BY <2>3, <3>1, <3>2, <3>3, <3>4, <3>5 DEF HandlerRun
  <2> QED
    BY <1>1, <2>1, <2>2, <2>3 DEF HandlerStep
<1>2. ASSUME WorkerStep, UNCHANGED handlerVars  PROVE Quiet(e)'
  <2>h. UNCHANGED <<sends, acked, hpc>>
    BY <1>2 DEF handlerVars
  <2>n. NoEvent # e
    BY WorkerAssumption DEF WorkerAssumption
  <2>1. ASSUME NEW i \in Invocation, NEW f \in Event, WorkerStart(i, f)  PROVE Quiet(e)'
    <3>1. f # e
      BY <1>q, <2>1 DEF WorkerStart, Dequeue
    <3> QED
      BY <1>q, <1>t, <2>h, <2>1, <3>1 DEF WorkerStart, Dequeue, Becomes, Fresh, Idle
  <2>2. ASSUME NEW i \in Invocation, WorkerRun(i) \/ WorkerCrash(i) \/ WorkerRetry(i)
        PROVE  Quiet(e)'
    <3>1. UNCHANGED queue
      BY <2>2 DEF WorkerRun, WorkerCrash, WorkerRetry, CheckCompleted, ClaimLock, RunQuery,
                  PostReply, MarkDone, EmitRecord, ReleaseLock
    <3>2. \E slot : inv' = [inv EXCEPT ![i] = slot] /\ slot.ev \in {inv[i].ev, NoEvent}
      BY <1>t, <2>2, EventOfASlot
    <3> QED
      BY <1>q, <1>t, <2>h, <2>n, <3>1, <3>2
  <2> QED
    BY <1>2, <2>1, <2>2 DEF WorkerStep
<1>3. ASSUME Expire  PROVE Quiet(e)'
  BY <1>q, <1>3 DEF Expire, handlerVars, workerVars
<1>4. ASSUME UNCHANGED vars  PROVE Quiet(e)'
  BY <1>q, <1>4 DEF vars
<1> QED
  BY <1>1, <1>2, <1>3, <1>4 DEF Next

-----------------------------------------------------------------------------
(* One winner per event *)

\* A row that was never written has had no winner, and a swept row is swept for
\* good: its event is quiet, so nobody is left to claim it again.
WinnerInv ==
    \A e \in Event :
        /\ wins[e] <= 1
        /\ events[e] = "absent" => wins[e] = 0
        /\ events[e] = "swept" => Quiet(e)

LEMMA WinnerInit == Init => WinnerInv
<1> SUFFICES ASSUME Init, NEW e \in Event
             PROVE  wins[e] <= 1 /\ wins[e] = 0 /\ events[e] # "swept"
  BY DEF WinnerInv
<1> QED
  BY DEF Init, TableInit, HandlerInit

LEMMA WinnerStep ==
    ASSUME "early_sweep" \notin Faults, TypeOK, WinnerInv, [Next]_vars
    PROVE  WinnerInv'
<1> SUFFICES ASSUME NEW e \in Event
             PROVE  /\ wins'[e] <= 1
                    /\ events'[e] = "absent" => wins'[e] = 0
                    /\ events'[e] = "swept" => Quiet(e)'
  BY DEF WinnerInv
<1>i. /\ wins[e] <= 1
      /\ events[e] = "absent" => wins[e] = 0
      /\ events[e] = "swept" => Quiet(e)
  BY DEF WinnerInv
<1>t. /\ wins \in [Event -> Nat]
      /\ events \in [Event -> RowStates]
  BY DEF TypeOK, HandlerTypeOK, TableTypeOK
<1>q. Quiet(e) => Quiet(e)'
  BY QuietStable
<1>1. CASE UNCHANGED <<wins, events>>
  BY <1>i, <1>q, <1>1
<1>2. ASSUME NEW f \in Event, NEW k \in Delivery, HandlerClaim(f, k)
      PROVE  /\ wins'[e] <= 1
             /\ events'[e] = "absent" => wins'[e] = 0
             /\ events'[e] = "swept" => Quiet(e)'
  <2> PICK reason \in ClaimReasons :
        /\ ClaimEvent(f, reason)
        /\ wins' = [wins EXCEPT ![f] = IF reason = "claimed" THEN @ + 1 ELSE @]
    BY <1>2 DEF HandlerClaim
  <2>1. CASE f # e
    <3>1. events'[e] = events[e] /\ wins'[e] = wins[e]
      BY <1>t, <2>1 DEF ClaimEvent, SetRow
    <3> QED  BY <1>i, <1>q, <3>1
  <2>2. CASE f = e /\ reason = "claimed"
    <3>1. events[e] # "swept"
      BY <1>2, <1>i, <2>2 DEF HandlerClaim, Quiet, SlackQuiet
    <3>2. events[e] = "absent" /\ events'[e] = "claimed"
      BY <1>t, <2>2, <3>1 DEF ClaimEvent, SetRow, Exists, RowStates
    <3> QED  BY <1>i, <1>t, <2>2, <3>2
  <2>3. CASE f = e /\ reason # "claimed"
    <3>1. wins'[e] = wins[e]
      BY <1>t, <2>3
    <3>2. events'[e] \in {events[e], "claimed"}
      BY <1>t, <2>3 DEF ClaimEvent, SetRow
    <3> QED  BY <1>i, <1>q, <3>1, <3>2
  <2> QED  BY <2>1, <2>2, <2>3
<1>3. ASSUME NEW i \in Invocation, MarkDone(i), UNCHANGED handlerVars
      PROVE  /\ wins'[e] <= 1
             /\ events'[e] = "absent" => wins'[e] = 0
             /\ events'[e] = "swept" => Quiet(e)'
  <2>1. UNCHANGED wins
    BY <1>3 DEF handlerVars
  <2>2. events'[e] \in {events[e], "completed"}
    BY <1>3, <1>t DEF MarkDone, MarkCompleted, SetRow
  <2> QED  BY <1>i, <1>q, <2>1, <2>2
<1>4. ASSUME NEW f \in Event, SweepEvent(f, Quiet(f)), UNCHANGED handlerVars
      PROVE  /\ wins'[e] <= 1
             /\ events'[e] = "absent" => wins'[e] = 0
             /\ events'[e] = "swept" => Quiet(e)'
  <2>1. UNCHANGED wins
    BY <1>4 DEF handlerVars
  <2>2. Quiet(f)
    BY <1>4 DEF SweepEvent, Fault
  <2>3. events'[e] = events[e] \/ (f = e /\ events'[e] = "swept")
    BY <1>4, <1>t DEF SweepEvent, SetRow
  <2> QED  BY <1>i, <1>q, <2>1, <2>2, <2>3
<1>5. ASSUME HandlerStep
      PROVE  UNCHANGED <<wins, events>> \/ \E f \in Event, k \in Delivery : HandlerClaim(f, k)
  BY <1>5 DEF HandlerStep, HandlerRun, SlackSend, SlackRetry, HandlerIgnore,
              HandlerDispatch, HandlerRespond, HandlerCrash
<1>6. ASSUME WorkerStep, UNCHANGED handlerVars
      PROVE  UNCHANGED <<wins, events>> \/ \E i \in Invocation : MarkDone(i)
  BY <1>6 DEF WorkerStep, WorkerRun, WorkerStart, WorkerCrash, WorkerRetry, CheckCompleted,
              ReadCompleted, ClaimLock, RunQuery, PostReply, EmitRecord, ReleaseLock, handlerVars
<1>7. ASSUME Expire
      PROVE  /\ UNCHANGED handlerVars
             /\ UNCHANGED <<wins, events>> \/ \E f \in Event : SweepEvent(f, Quiet(f))
  BY <1>7 DEF Expire, ExpireLock, SweepLock, handlerVars
<1>8. ASSUME UNCHANGED vars  PROVE UNCHANGED <<wins, events>>
  BY <1>8 DEF vars
<1>9. CASE HandlerStep
  BY <1>1, <1>2, <1>5, <1>9
<1>10. CASE WorkerStep /\ UNCHANGED handlerVars
  BY <1>1, <1>3, <1>6, <1>10
<1>11. CASE Expire
  BY <1>1, <1>4, <1>7, <1>11
<1> QED
  BY <1>1, <1>8, <1>9, <1>10, <1>11 DEF Next

\* However many deliveries of an event race, crash or are repeated, one handler
\* run at most is told "claimed" (claim_event), as long as no row is deleted
\* before its event is over.
THEOREM OneWinner ==
    ASSUME "early_sweep" \notin Faults
    PROVE  Spec => []SingleWinner
<1>1. WinnerInv => SingleWinner
  BY DEF WinnerInv, SingleWinner
<1>2. TypeOK /\ WinnerInv /\ [Next]_vars => WinnerInv'
  BY WinnerStep
<1> QED
  BY <1>1, <1>2, WinnerInit, TypeCorrect, PTL DEF Spec

-----------------------------------------------------------------------------
(* Work is the winner's *)

Won(e) == wins[e] > 0 /\ e \notin SelfMessages \cup Anonymous

\* Whatever carries an event towards the worker, a dispatch about to be made, a
\* request in the queue or a container, starts from a won claim.
WorkInv ==
    \A e \in Event :
        /\ \A k \in Delivery : hpc[e][k] = "dispatch" => Won(e)
        /\ queue[e] > 0 => Won(e)
        /\ \A i \in Invocation : inv[i].ev = e => Won(e)

LEMMA WorkInit == Init => WorkInv
<1> SUFFICES ASSUME Init, NEW e \in Event
             PROVE  /\ \A k \in Delivery : hpc[e][k] # "dispatch"
                    /\ ~(queue[e] > 0)
                    /\ \A i \in Invocation : inv[i].ev # e
  BY DEF WorkInv
<1>1. Idle.ev # e
  <2>1. Idle.ev = NoEvent
    BY DEF Idle
  <2> QED  BY <2>1, WorkerAssumption DEF WorkerAssumption
<1>2. \A i \in Invocation : inv[i] = Idle
  BY DEF Init, WorkerInit
<1> QED
  BY <1>1, <1>2 DEF Init, HandlerInit, QueueInit

LEMMA WorkStep ==
    ASSUME TypeOK, WorkInv, [Next]_vars
    PROVE  WorkInv'
<1> SUFFICES ASSUME NEW e \in Event
             PROVE  /\ \A k \in Delivery : hpc'[e][k] = "dispatch" => Won(e)'
                    /\ queue'[e] > 0 => Won(e)'
                    /\ \A i \in Invocation : inv'[i].ev = e => Won(e)'
  BY DEF WorkInv
<1>i. /\ \A k \in Delivery : hpc[e][k] = "dispatch" => Won(e)
      /\ queue[e] > 0 => Won(e)
      /\ \A i \in Invocation : inv[i].ev = e => Won(e)
  BY DEF WorkInv
<1>t. /\ hpc \in [Event -> [Delivery -> HandlerPCs]]
      /\ wins \in [Event -> Nat]
      /\ queue \in [Event -> Nat]
      /\ inv \in [Invocation -> Slots]
  BY DEF TypeOK, HandlerTypeOK, QueueTypeOK, WorkerTypeOK
<1> DEFINE Kept == /\ \A k \in Delivery : hpc'[e][k] = "dispatch" => Won(e)'
                   /\ queue'[e] > 0 => Won(e)'
                   /\ \A i \in Invocation : inv'[i].ev = e => Won(e)'
<1>1. ASSUME UNCHANGED <<wins, queue, inv>>, NEW f \in Event, NEW k \in Delivery,
             NEW label \in HandlerPCs \ {"dispatch"}, Goto(f, k, label)
      PROVE  Kept
  BY <1>i, <1>t, <1>1 DEF Goto, Won
<1>2. ASSUME UNCHANGED inv, NEW f \in Event, NEW k \in Delivery, HandlerClaim(f, k)
      PROVE  Kept
  <2> PICK reason \in ClaimReasons :
        /\ ClaimEvent(f, reason)
        /\ Goto(f, k, IF reason = "claimed" THEN "dispatch" ELSE "respond")
        /\ wins' = [wins EXCEPT ![f] = IF reason = "claimed" THEN @ + 1 ELSE @]
    BY <1>2 DEF HandlerClaim
  <2>1. Won(e) => Won(e)'
    BY <1>t DEF Won
  <2>2. reason = "claimed" => Won(f)'
    <3>1. reason = "claimed" => f \notin SelfMessages \cup Anonymous
      BY <1>2 DEF HandlerClaim, ClaimEvent
    <3> QED  BY <1>t, <3>1 DEF Won
  <2>3. UNCHANGED queue
    BY <1>2 DEF HandlerClaim
  <2>4. ASSUME NEW d \in Delivery, hpc'[e][d] = "dispatch"
        PROVE  hpc[e][d] = "dispatch" \/ (f = e /\ reason = "claimed")
    BY <1>t, <2>4 DEF Goto
  <2> QED  BY <1>2, <1>i, <2>1, <2>2, <2>3, <2>4
<1>3. ASSUME UNCHANGED inv, NEW f \in Event, NEW k \in Delivery, HandlerDispatch(f, k)
      PROVE  Kept
  <2>1. Won(e) <=> Won(e)'
    BY <1>3 DEF HandlerDispatch, Won
  <2>2. f # e => queue'[e] = queue[e]
    BY <1>t, <1>3 DEF HandlerDispatch, Enqueue
  <2>3. f = e => Won(e)
    BY <1>i, <1>3 DEF HandlerDispatch
  <2>4. \A d \in Delivery : hpc'[e][d] = "dispatch" => hpc[e][d] = "dispatch"
    BY <1>t, <1>3 DEF HandlerDispatch, Goto
  <2> QED  BY <1>i, <1>3, <2>1, <2>2, <2>3, <2>4
<1>4. ASSUME HandlerStep, UNCHANGED workerVars  PROVE Kept
  <2>1. UNCHANGED inv
    BY <1>4 DEF workerVars
  <2>2. ASSUME NEW f \in Event, SlackSend(f)  PROVE Kept
    BY <1>1, <2>1, <2>2, HandlerAssumption
    DEF HandlerAssumption, SlackSend, Delivery, HandlerPCs
  <2>3. ASSUME NEW f \in Event, SlackRetry(f)  PROVE Kept
    <3>1. sends[f] + 1 \in Delivery
      BY <2>3, HandlerAssumption
      DEF HandlerAssumption, SlackRetry, Delivery
    <3> QED
      BY <1>1, <2>1, <2>3, <3>1 DEF SlackRetry, HandlerPCs
  <2>4. ASSUME NEW f \in Event, NEW k \in Delivery,
               HandlerIgnore(f, k) \/ HandlerRespond(f, k) \/ HandlerCrash(f, k)
        PROVE  Kept
    BY <1>1, <2>1, <2>4 DEF HandlerIgnore, HandlerRespond, HandlerCrash, HandlerPCs
  <2> QED
    BY <1>2, <1>3, <1>4, <2>1, <2>2, <2>3, <2>4 DEF HandlerStep, HandlerRun
<1>5. ASSUME NEW i \in Invocation, NEW f \in Event, WorkerStart(i, f), UNCHANGED handlerVars
      PROVE  Kept
  <2>1. Won(e) <=> Won(e)'
    BY <1>5 DEF handlerVars, Won
  <2>2. f = e => Won(e)
    BY <1>i, <1>5 DEF WorkerStart, Dequeue
  <2>3. queue'[e] > 0 => queue[e] > 0
    BY <1>t, <1>5 DEF WorkerStart, Dequeue
  <2>4. \A j \in Invocation : inv'[j].ev = e => inv[j].ev = e \/ f = e
    BY <1>t, <1>5 DEF WorkerStart, Becomes, Fresh, Idle
  <2>5. UNCHANGED hpc
    BY <1>5 DEF handlerVars
  <2> QED  BY <1>i, <2>1, <2>2, <2>3, <2>4, <2>5
<1>6. ASSUME NEW i \in Invocation, WorkerRun(i) \/ WorkerCrash(i) \/ WorkerRetry(i),
             UNCHANGED handlerVars
      PROVE  Kept
  <2>1. Won(e) <=> Won(e)'
    BY <1>6 DEF handlerVars, Won
  <2>2. UNCHANGED queue
    BY <1>6 DEF WorkerRun, WorkerCrash, WorkerRetry, CheckCompleted, ClaimLock, RunQuery,
                PostReply, MarkDone, EmitRecord, ReleaseLock
  <2>3. \E slot : inv' = [inv EXCEPT ![i] = slot] /\ slot.ev \in {inv[i].ev, NoEvent}
    BY <1>6, EventOfASlot
  <2>4. NoEvent # e
    BY WorkerAssumption DEF WorkerAssumption
  <2>5. \A j \in Invocation : inv'[j].ev = e => inv[j].ev = e
    BY <1>t, <2>3, <2>4
  <2> QED  BY <1>6, <1>i, <2>1, <2>2, <2>5 DEF handlerVars
<1>7. ASSUME UNCHANGED <<wins, hpc, queue, inv>>  PROVE Kept
  BY <1>i, <1>7 DEF Won
<1>8. CASE WorkerStep /\ UNCHANGED handlerVars
  BY <1>5, <1>6, <1>8 DEF WorkerStep
<1>9. CASE Expire \/ UNCHANGED vars
  BY <1>7, <1>9 DEF Expire, vars, handlerVars, workerVars
<1> QED
  BY <1>4, <1>8, <1>9 DEF Next

\* Under every fault, what sits in the queue or in a container is work some
\* handler run won, and never a bot message or an event without a usable id
\* (the early returns of _slack_events and _claim_or_fail_safe).
THEOREM WinnersWork == Spec => []WorkIsTheWinners
<1>1. WorkInv => WorkIsTheWinners
  BY DEF WorkInv, WorkIsTheWinners, Won
<1>2. TypeOK /\ WorkInv /\ [Next]_vars => WorkInv'
  BY WorkStep
<1> QED
  BY <1>1, <1>2, WorkInit, TypeCorrect, PTL DEF Spec

-----------------------------------------------------------------------------
(* What a run may write, and what it may say of itself *)

Posted == {"mark", "emit", "release"}

\* A run past its post has tried to reply, and remembers a delivery only if one
\* took place. Said of a slot, given who was tried (t) and what arrived (d).
HonestSlot(slot, t, d) ==
    /\ slot.pc \in Posted => slot.ev \in t
    /\ slot.posted => slot.pc \in Posted
    /\ slot.posted /\ slot.reply = "answer" => "answer" \in d[slot.ev]

\* What a run writes for others to read is true.
RunInv ==
    /\ \A e \in Event : events[e] = "completed" => e \in tried
    /\ \A e \in Event : "ok" \in records[e] => "answer" \in delivered[e]
    /\ \A i \in Invocation : HonestSlot(inv[i], tried, delivered)

LEMMA RunInit == Init => RunInv
<1> SUFFICES ASSUME Init  PROVE RunInv
  OBVIOUS
<1>1. \A e \in Event : events[e] # "completed" /\ "ok" \notin records[e]
  BY DEF Init, TableInit, WorkerInit
<1>2. \A i \in Invocation : inv[i].pc \notin Posted /\ ~inv[i].posted
  BY DEF Init, WorkerInit, Idle, Posted
<1> QED  BY <1>1, <1>2 DEF RunInv, HonestSlot

\* History only grows: the slots a step leaves alone stay honest.
LEMMA HonestSlots ==
    ASSUME TypeOK, RunInv, NEW i \in Invocation, NEW slot, Becomes(i, slot),
           HonestSlot(slot, tried', delivered'),
           tried \subseteq tried',
           \A e \in Event : delivered[e] \subseteq delivered'[e]
    PROVE  \A j \in Invocation : HonestSlot(inv'[j], tried', delivered')
<1> SUFFICES ASSUME NEW j \in Invocation  PROVE HonestSlot(inv'[j], tried', delivered')
  OBVIOUS
<1>1. inv' = [inv EXCEPT ![i] = slot] /\ inv \in [Invocation -> Slots]
  BY DEF Becomes, TypeOK, WorkerTypeOK
<1>2. CASE i = j
  BY <1>1, <1>2
<1>3. CASE i # j
  <2>1. inv'[j] = inv[j] /\ HonestSlot(inv[j], tried, delivered)
    BY <1>1, <1>3 DEF RunInv
  <2>2. inv[j].posted => inv[j].ev \in Event
    BY <1>1, <2>1 DEF HonestSlot, Slots, Posted
  <2> QED  BY <2>1, <2>2 DEF HonestSlot
<1> QED  BY <1>2, <1>3

LEMMA HonestFresh ==
    ASSUME NEW e, NEW n, NEW t, NEW d
    PROVE  /\ HonestSlot(Idle, t, d)
           /\ HonestSlot(Fresh(e, "start", n), t, d)
           /\ HonestSlot(Fresh(e, "retry", n), t, d)
BY DEF HonestSlot, Idle, Fresh, Posted

LEMMA RunStepOfWorker ==
    ASSUME TypeOK, RunInv, WorkerStep
    PROVE  RunInv'
<1> USE DEF Posted
<1>i. /\ \A e \in Event : events[e] = "completed" => e \in tried
      /\ \A e \in Event : "ok" \in records[e] => "answer" \in delivered[e]
  BY DEF RunInv
<1>s. ASSUME NEW i \in Invocation
      PROVE  HonestSlot(inv[i], tried, delivered) /\ inv[i] \in Slots
  BY <1>s DEF RunInv, TypeOK, WorkerTypeOK
<1>m. ASSUME NEW i \in Invocation, NEW slot, Becomes(i, slot),
             HonestSlot(slot, tried, delivered),
             UNCHANGED <<events, tried, delivered, records>>
      PROVE  RunInv'
  <2>1. \A j \in Invocation : HonestSlot(inv'[j], tried', delivered')
    BY <1>m, HonestSlots
  <2> QED  BY <1>i, <1>m, <2>1 DEF RunInv
<1>1. ASSUME NEW i \in Invocation, NEW e \in Event, WorkerStart(i, e)  PROVE RunInv'
  BY <1>1, <1>m, HonestFresh DEF WorkerStart
<1>2. ASSUME NEW i \in Invocation, WorkerCrash(i)  PROVE RunInv'
  BY <1>2, <1>m, HonestFresh DEF WorkerCrash
<1>3. ASSUME NEW i \in Invocation, WorkerRetry(i)  PROVE RunInv'
  <2>1. HonestSlot([inv[i] EXCEPT !.pc = "start"], tried, delivered)
    BY <1>3, <1>s DEF WorkerRetry, At, HonestSlot, Slots
  <2> QED  BY <1>3, <1>m, <2>1 DEF WorkerRetry
<1>4. ASSUME NEW i \in Invocation, CheckCompleted(i)  PROVE RunInv'
  <2>1. HonestSlot([inv[i] EXCEPT !.pc = "lock"], tried, delivered)
    BY <1>4, <1>s DEF CheckCompleted, At, HonestSlot, Slots
  <2>2. HonestSlot([inv[i] EXCEPT !.pc = "post", !.reply = "notice"], tried, delivered)
    BY <1>4, <1>s DEF CheckCompleted, At, HonestSlot, Slots
  <2>3. UNCHANGED <<events, tried, delivered, records>>
    BY <1>4 DEF CheckCompleted, ReadCompleted
  <2> QED  BY <1>4, <1>m, <2>1, <2>2, <2>3, HonestFresh DEF CheckCompleted
<1>5. ASSUME NEW i \in Invocation, ClaimLock(i)  PROVE RunInv'
  <2>1. ASSUME NEW reason
        PROVE  /\ HonestSlot([inv[i] EXCEPT !.pc = "query", !.claim = reason],
                             tried, delivered)
               /\ HonestSlot([inv[i] EXCEPT !.pc = "post", !.claim = reason, !.reply = "notice"],
                             tried, delivered)
    BY <1>5, <1>s DEF ClaimLock, At, HonestSlot, Slots
  <2> QED  BY <1>5, <1>m, <2>1 DEF ClaimLock
<1>6. ASSUME NEW i \in Invocation, RunQuery(i)  PROVE RunInv'
  <2>1. ASSUME NEW reply
        PROVE  HonestSlot([inv[i] EXCEPT !.pc = "post", !.reply = reply], tried, delivered)
    BY <1>6, <1>s DEF RunQuery, At, HonestSlot, Slots
  <2> QED  BY <1>6, <1>m, <2>1 DEF RunQuery
<1>7. ASSUME NEW i \in Invocation, PostReply(i)  PROVE RunInv'
  <2> DEFINE e == inv[i].ev
  <2>e. e \in Event /\ delivered \in [Event -> SUBSET Replies]
    BY <1>7, SlotTyped DEF PostReply, At, TypeOK, WorkerTypeOK
  <2>1. tried' = tried \cup {e} /\ UNCHANGED <<events, records>>
    BY <1>7 DEF PostReply
  <2>2. \A f \in Event : delivered[f] \subseteq delivered'[f]
    BY <1>7, <2>e DEF PostReply
  <2>3. PICK slot : Becomes(i, slot) /\ HonestSlot(slot, tried', delivered')
    <3>1. CASE /\ delivered' = [delivered EXCEPT ![e] = @ \cup {inv[i].reply}]
               /\ Becomes(i, [inv[i] EXCEPT !.pc = "mark", !.posted = TRUE])
      <4>1. HonestSlot([inv[i] EXCEPT !.pc = "mark", !.posted = TRUE], tried', delivered')
        BY <1>s, <2>e, <2>1, <3>1 DEF HonestSlot, Slots
      <4> QED  BY <3>1, <4>1
    <3>2. CASE UNCHANGED delivered /\ Becomes(i, [inv[i] EXCEPT !.pc = "mark"])
      <4>1. HonestSlot([inv[i] EXCEPT !.pc = "mark"], tried', delivered')
        BY <1>7, <1>s, <2>e, <2>1, <3>2 DEF PostReply, At, HonestSlot, Slots
      <4> QED  BY <3>2, <4>1
    <3> QED  BY <1>7, <3>1, <3>2 DEF PostReply
  <2>4. \A j \in Invocation : HonestSlot(inv'[j], tried', delivered')
    BY <2>1, <2>2, <2>3, HonestSlots
  <2> QED  BY <1>i, <2>1, <2>2, <2>4 DEF RunInv
<1>8. ASSUME NEW i \in Invocation, MarkDone(i)  PROVE RunInv'
  <2>1. inv[i].ev \in Event /\ inv[i].ev \in tried
    BY <1>8, <1>s, SlotTyped DEF MarkDone, At, HonestSlot
  <2>2. \A e \in Event : events'[e] = "completed" => e \in tried
    BY <1>8, <1>i, <2>1
    DEF MarkDone, MarkCompleted, SetRow, TypeOK, TableTypeOK
  <2>3. HonestSlot([inv[i] EXCEPT !.pc = "emit"], tried, delivered)
    BY <1>8, <1>s DEF MarkDone, At, HonestSlot, Slots
  <2>4. UNCHANGED <<tried, delivered, records>>
        /\ Becomes(i, [inv[i] EXCEPT !.pc = "emit"])
    BY <1>8 DEF MarkDone
  <2>5. \A j \in Invocation : HonestSlot(inv'[j], tried', delivered')
    BY <2>3, <2>4, HonestSlots
  <2> QED  BY <1>i, <2>2, <2>4, <2>5 DEF RunInv
<1>9. ASSUME NEW i \in Invocation, EmitRecord(i)  PROVE RunInv'
  <2> DEFINE next == IF Holding(inv[i]) THEN [inv[i] EXCEPT !.pc = "release"] ELSE Idle
  <2>1. HonestSlot([inv[i] EXCEPT !.pc = "release"], tried, delivered)
    BY <1>9, <1>s DEF EmitRecord, At, HonestSlot, Slots
  <2>2. HonestSlot(next, tried, delivered)
    BY <2>1, HonestFresh
  <2>3. UNCHANGED <<events, tried, delivered>> /\ Becomes(i, next)
    BY <1>9 DEF EmitRecord
  <2>4. \A j \in Invocation : HonestSlot(inv'[j], tried', delivered')
    BY <2>2, <2>3, HonestSlots
  <2>5. EffectiveOutcome(inv[i]) = "ok" => "answer" \in delivered[inv[i].ev]
    BY <1>s DEF EffectiveOutcome, HonestSlot
  <2>6. \A e \in Event : "ok" \in records'[e] => "answer" \in delivered[e]
    BY <1>9, <1>i, <2>5 DEF EmitRecord, TypeOK, WorkerTypeOK
  <2> QED  BY <1>i, <2>3, <2>4, <2>6 DEF RunInv
<1>10. ASSUME NEW i \in Invocation, ReleaseLock(i)  PROVE RunInv'
  BY <1>10, <1>s, <1>m, HonestFresh DEF ReleaseLock
<1> QED
  BY <1>1, <1>2, <1>3, <1>4, <1>5, <1>6, <1>7, <1>8, <1>9, <1>10 DEF WorkerStep, WorkerRun

LEMMA RunStep ==
    ASSUME TypeOK, RunInv, [Next]_vars
    PROVE  RunInv'
<1>1. ASSUME UNCHANGED workerVars,
             \A e \in Event : events'[e] = "completed" => events[e] = "completed"
      PROVE  RunInv'
  BY <1>1 DEF RunInv, workerVars
<1>2. CASE HandlerStep /\ UNCHANGED workerVars
  <2>1. ASSUME NEW e \in Event, NEW reason, ClaimEvent(e, reason)
        PROVE  \A f \in Event : events'[f] = "completed" => events[f] = "completed"
    BY <2>1 DEF ClaimEvent, SetRow, TypeOK, TableTypeOK
  <2>2. UNCHANGED events \/ \E e \in Event, reason \in ClaimReasons : ClaimEvent(e, reason)
    BY <1>2 DEF HandlerStep, HandlerRun, SlackSend, SlackRetry, HandlerIgnore, HandlerClaim,
                HandlerDispatch, HandlerRespond, HandlerCrash
  <2> QED  BY <1>1, <1>2, <2>1, <2>2
<1>3. CASE Expire
  <2>1. \A e \in Event : events'[e] = "completed" => events[e] = "completed"
    BY <1>3 DEF Expire, SweepEvent, ExpireLock, SweepLock, SetRow, TypeOK, TableTypeOK
  <2> QED  BY <1>1, <1>3, <2>1 DEF Expire
<1>4. CASE UNCHANGED vars
  BY <1>1, <1>4 DEF vars, workerVars
<1> QED
  BY <1>2, <1>3, <1>4, RunStepOfWorker DEF Next

\* Under every fault: an event is marked completed (mark_event_completed) only
\* when some run has already tried to reply, so a retry that skips it on that
\* mark leaves nobody without even an attempt.
THEOREM MarksFollowReplies == Spec => []CompletedMeansReplied
<1>1. RunInv => CompletedMeansReplied
  BY DEF RunInv, CompletedMeansReplied
<1>2. TypeOK /\ RunInv /\ [Next]_vars => RunInv'
  BY RunStep
<1> QED
  BY <1>1, <1>2, RunInit, TypeCorrect, PTL DEF Spec

\* Under every fault: an "ok" observation record is never written for an answer
\* that Slack did not accept (_post_and_finish's downgrade, CTR-SB-008).
THEOREM RecordsAreHonest == Spec => []OkMeansDelivered
<1>1. RunInv => OkMeansDelivered
  BY DEF RunInv, OkMeansDelivered
<1>2. TypeOK /\ RunInv /\ [Next]_vars => RunInv'
  BY RunStep
<1> QED
  BY <1>1, <1>2, RunInit, TypeCorrect, PTL DEF Spec

-----------------------------------------------------------------------------
(* The coalescing lock *)

InTry == {"query", "post", "mark", "emit", "release"}

\* A run that may own the lock of p: it is inside the try block of p's query.
OwnerSlot(slot, p) == slot.pc \in InTry /\ Holding(slot) /\ PairOf[slot.ev] = p

LEMMA OwnersAreOwnerSlots ==
    NoLockOutlivesItsRun <=>
        \A p \in Pair : locks[p] \in Invocation => OwnerSlot(inv[locks[p]], p)
BY DEF NoLockOutlivesItsRun, OwnerSlot, InTry

\* A step that gives no lock away and leaves i the owner of what it still has.
LEMMA OwnerMove ==
    ASSUME TypeOK, NoLockOutlivesItsRun, NEW i \in Invocation, NEW slot, Becomes(i, slot),
           \A p \in Pair : locks'[p] \in Invocation \ {i} => locks'[p] = locks[p],
           \A p \in Pair : locks'[p] = i => OwnerSlot(slot, p)
    PROVE  NoLockOutlivesItsRun'
<1> SUFFICES ASSUME NEW p \in Pair, locks'[p] \in Invocation
             PROVE  OwnerSlot(inv'[locks'[p]], p)
  BY DEF NoLockOutlivesItsRun, OwnerSlot, InTry
<1>1. inv' = [inv EXCEPT ![i] = slot] /\ inv \in [Invocation -> Slots]
  BY DEF Becomes, TypeOK, WorkerTypeOK
<1>2. CASE locks'[p] = i
  BY <1>1, <1>2
<1>3. CASE locks'[p] # i
  BY <1>1, <1>3, OwnersAreOwnerSlots
<1> QED  BY <1>2, <1>3

LEMMA OwnerStepOfWorker ==
    ASSUME TypeOK, NoLockOutlivesItsRun, WorkerStep
    PROVE  NoLockOutlivesItsRun'
<1>t. /\ inv \in [Invocation -> Slots]
      /\ locks \in [Pair -> LockOwners]
      /\ {"free", "orphan", "expired"} \cap Invocation = {}
  BY TableAssumption DEF TableAssumption, TypeOK, TableTypeOK, WorkerTypeOK
<1>o. ASSUME NEW i \in Invocation, NEW p \in Pair, locks[p] = i  PROVE OwnerSlot(inv[i], p)
  BY <1>o, OwnersAreOwnerSlots
<1>n. ASSUME NEW i \in Invocation, inv[i].pc \notin InTry, NEW p \in Pair  PROVE locks[p] # i
  BY <1>n, <1>o DEF OwnerSlot
<1>1. ASSUME NEW i \in Invocation, NEW e \in Event, WorkerStart(i, e)
      PROVE  NoLockOutlivesItsRun'
  <2>1. inv[i].pc \notin InTry /\ UNCHANGED locks
    BY <1>1 DEF WorkerStart, At, InTry
  <2> QED  BY <1>1, <1>n, <2>1, OwnerMove DEF WorkerStart
<1>2. ASSUME NEW i \in Invocation, WorkerCrash(i)  PROVE NoLockOutlivesItsRun'
  <2>1. PICK slot : Becomes(i, slot)
    BY <1>2 DEF WorkerCrash
  <2>2. \A p \in Pair : locks'[p] # i /\ (locks'[p] \in Invocation => locks'[p] = locks[p])
    BY <1>2, <1>t DEF WorkerCrash, Orphaned
  <2> QED  BY <2>1, <2>2, OwnerMove
<1>3. ASSUME NEW i \in Invocation, WorkerRetry(i) \/ CheckCompleted(i)
      PROVE  NoLockOutlivesItsRun'
  <2>1. inv[i].pc \notin InTry /\ UNCHANGED locks
    BY <1>3 DEF WorkerRetry, CheckCompleted, At, InTry
  <2>2. PICK slot : Becomes(i, slot)
    BY <1>3 DEF WorkerRetry, CheckCompleted
  <2> QED  BY <1>n, <2>1, <2>2, OwnerMove
<1>4. ASSUME NEW i \in Invocation, ClaimLock(i)  PROVE NoLockOutlivesItsRun'
  <2> DEFINE next(reason) ==
        IF reason = "in_progress"
        THEN [inv[i] EXCEPT !.pc = "post", !.claim = reason, !.reply = "notice"]
        ELSE [inv[i] EXCEPT !.pc = "query", !.claim = reason]
  <2> PICK reason \in InflightReasons :
        ClaimInflight(PairFor(i), i, reason) /\ Becomes(i, next(reason))
    BY <1>4 DEF ClaimLock
  <2>1. \A p \in Pair : locks[p] # i
    BY <1>4, <1>n DEF ClaimLock, At, InTry
  <2>2. \A p \in Pair : locks'[p] \in Invocation \ {i} => locks'[p] = locks[p]
    BY <1>t, <2>1 DEF ClaimInflight, SetLock
  <2>3. ASSUME NEW p \in Pair, locks'[p] = i
        PROVE  p = PairFor(i) /\ reason \in {"claimed", "store_error"}
    BY <1>t, <2>1, <2>3 DEF ClaimInflight, SetLock
  <2>4. ASSUME reason \in {"claimed", "store_error"}
        PROVE  OwnerSlot(next(reason), PairFor(i))
    <3>1. next(reason) = [inv[i] EXCEPT !.pc = "query", !.claim = reason]
      BY <2>4
    <3>2. /\ next(reason).pc = "query"
          /\ next(reason).claim = reason
          /\ next(reason).ev = inv[i].ev
      BY <1>t, <3>1 DEF Slots
    <3> QED  BY <2>4, <3>2 DEF OwnerSlot, InTry, Holding, PairFor
  <2>5. \A p \in Pair : locks'[p] = i => OwnerSlot(next(reason), p)
    BY <2>3, <2>4
  <2> QED  BY <2>2, <2>5, OwnerMove
<1>5. ASSUME NEW i \in Invocation, NEW slot, Becomes(i, slot), UNCHANGED locks,
             slot.pc \in InTry, slot.claim = inv[i].claim, slot.ev = inv[i].ev
      PROVE  NoLockOutlivesItsRun'
  <2>1. \A p \in Pair : locks'[p] = i => OwnerSlot(slot, p)
    BY <1>5, <1>o DEF OwnerSlot, Holding
  <2> QED  BY <1>5, <2>1, OwnerMove
<1>6. ASSUME NEW i \in Invocation, RunQuery(i) \/ PostReply(i) \/ MarkDone(i)
      PROVE  NoLockOutlivesItsRun'
  <2>1. ASSUME NEW label \in InTry
        PROVE  /\ [inv[i] EXCEPT !.pc = label].pc \in InTry
               /\ [inv[i] EXCEPT !.pc = label].claim = inv[i].claim
               /\ [inv[i] EXCEPT !.pc = label].ev = inv[i].ev
    BY <1>t DEF Slots
  <2>2. CASE RunQuery(i)
    <3> PICK reply \in Replies : Becomes(i, [inv[i] EXCEPT !.pc = "post", !.reply = reply])
      BY <2>2 DEF RunQuery
    <3>1. /\ [inv[i] EXCEPT !.pc = "post", !.reply = reply].pc = "post"
          /\ [inv[i] EXCEPT !.pc = "post", !.reply = reply].claim = inv[i].claim
          /\ [inv[i] EXCEPT !.pc = "post", !.reply = reply].ev = inv[i].ev
      BY <1>t DEF Slots
    <3> QED  BY <1>5, <2>2, <3>1 DEF RunQuery, InTry
  <2>3. CASE PostReply(i)
    <3>1. /\ [inv[i] EXCEPT !.pc = "mark", !.posted = TRUE].pc = "mark"
          /\ [inv[i] EXCEPT !.pc = "mark", !.posted = TRUE].claim = inv[i].claim
          /\ [inv[i] EXCEPT !.pc = "mark", !.posted = TRUE].ev = inv[i].ev
      BY <1>t DEF Slots
    <3> QED  BY <1>5, <2>1, <2>3, <3>1 DEF PostReply, InTry
  <2>4. CASE MarkDone(i)
    BY <1>5, <2>1, <2>4 DEF MarkDone, InTry
  <2> QED  BY <1>6, <2>2, <2>3, <2>4
<1>7. ASSUME NEW i \in Invocation, EmitRecord(i)  PROVE NoLockOutlivesItsRun'
  <2>1. CASE Holding(inv[i])
    <3>1. /\ [inv[i] EXCEPT !.pc = "release"].pc = "release"
          /\ [inv[i] EXCEPT !.pc = "release"].claim = inv[i].claim
          /\ [inv[i] EXCEPT !.pc = "release"].ev = inv[i].ev
      BY <1>t DEF Slots
    <3> QED  BY <1>5, <1>7, <2>1, <3>1 DEF EmitRecord, InTry
  <2>2. CASE ~Holding(inv[i])
    <3>1. \A p \in Pair : locks[p] # i
      BY <1>o, <2>2 DEF OwnerSlot
    <3> QED  BY <1>7, <2>2, <3>1, OwnerMove DEF EmitRecord
  <2> QED  BY <2>1, <2>2
<1>8. ASSUME NEW i \in Invocation, ReleaseLock(i)  PROVE NoLockOutlivesItsRun'
  <2> PICK again \in BOOLEAN :
        ReleaseInflight(PairFor(i), i, again) /\ Becomes(i, IF again THEN inv[i] ELSE Idle)
    BY <1>8 DEF ReleaseLock
  <2>1. \A p \in Pair : locks[p] = i => p = PairFor(i)
    BY <1>o DEF OwnerSlot, PairFor
  <2>2. \A p \in Pair : locks'[p] # i /\ (locks'[p] \in Invocation => locks'[p] = locks[p])
    BY <1>t, <2>1, TableAssumption
    DEF TableAssumption, ReleaseInflight, SetLock, Orphaned
  <2> QED  BY <2>2, OwnerMove
<1> QED
  BY <1>1, <1>2, <1>3, <1>4, <1>6, <1>7, <1>8 DEF WorkerStep, WorkerRun

LEMMA OwnerStep ==
    ASSUME TypeOK, NoLockOutlivesItsRun, [Next]_vars
    PROVE  NoLockOutlivesItsRun'
<1>t. {"free", "orphan", "expired"} \cap Invocation = {}
  BY TableAssumption DEF TableAssumption
<1>1. ASSUME UNCHANGED inv,
             \A p \in Pair : locks'[p] \in Invocation => locks'[p] = locks[p]
      PROVE  NoLockOutlivesItsRun'
  BY <1>1 DEF NoLockOutlivesItsRun
<1>2. CASE HandlerStep /\ UNCHANGED workerVars
  <2>1. UNCHANGED locks
    BY <1>2 DEF HandlerStep, HandlerRun, SlackSend, SlackRetry, HandlerIgnore, HandlerClaim,
                HandlerDispatch, HandlerRespond, HandlerCrash
  <2> QED  BY <1>1, <1>2, <2>1 DEF workerVars
<1>3. CASE Expire
  <2>1. \A p \in Pair : locks'[p] \in Invocation => locks'[p] = locks[p]
    BY <1>3, <1>t
    DEF Expire, SweepEvent, ExpireLock, SweepLock, SetLock, TypeOK, TableTypeOK
  <2> QED  BY <1>1, <1>3, <2>1 DEF Expire, workerVars
<1>4. CASE UNCHANGED vars
  BY <1>1, <1>4 DEF vars
<1> QED
  BY <1>2, <1>3, <1>4, OwnerStepOfWorker DEF Next

\* Under every fault, a lock that still names its owner names a run whose
\* finally block is going to release it (_process_event's try/finally), whatever
\* the claim of that run had answered.
THEOREM LocksHaveALivingOwner == Spec => []NoLockOutlivesItsRun
<1>1. Init => NoLockOutlivesItsRun
  BY TableAssumption DEF TableAssumption, Init, TableInit, NoLockOutlivesItsRun
<1>2. TypeOK /\ NoLockOutlivesItsRun /\ [Next]_vars => NoLockOutlivesItsRun'
  BY OwnerStep
<1> QED
  BY <1>1, <1>2, TypeCorrect, PTL DEF Spec

\* The converse, which needs a store that answers: a run that was told "claimed"
\* still finds its own row under the pair, and nobody deletes it before it does.
LockSlot(slot, i, lk) ==
    /\ slot.claim # "store_error"
    /\ slot.pc \notin InTry => slot.claim = "none"
    /\ slot.pc = "release" => Holding(slot)
    /\ slot.pc \in InTry /\ slot.claim = "identifiers_missing" => PairOf[slot.ev] = NoPair
    /\ slot.pc \in InTry /\ slot.claim = "claimed" =>
          PairOf[slot.ev] \in Pair /\ lk[PairOf[slot.ev]] = i

LockInv == \A i \in Invocation : LockSlot(inv[i], i, locks)

\* A step that leaves the locks of other claimants alone.
LEMMA LockMove ==
    ASSUME TypeOK, LockInv, NEW i \in Invocation, NEW slot, Becomes(i, slot),
           LockSlot(slot, i, locks'),
           \A p \in Pair : locks[p] \in Invocation \ {i} => locks'[p] = locks[p]
    PROVE  LockInv'
<1> SUFFICES ASSUME NEW j \in Invocation  PROVE LockSlot(inv'[j], j, locks')
  BY DEF LockInv
<1>1. inv' = [inv EXCEPT ![i] = slot] /\ inv \in [Invocation -> Slots]
  BY DEF Becomes, TypeOK, WorkerTypeOK
<1>2. CASE i = j
  BY <1>1, <1>2
<1>3. CASE i # j
  <2>1. inv'[j] = inv[j] /\ LockSlot(inv[j], j, locks)
    BY <1>1, <1>3 DEF LockInv
  <2> QED  BY <1>3, <2>1 DEF LockSlot
<1> QED  BY <1>2, <1>3

LEMMA LockStepOfWorker ==
    ASSUME "store_error" \notin Faults, "lost_reply" \notin Faults,
           TypeOK, LockInv, WorkerStep
    PROVE  LockInv'
<1>t. /\ inv \in [Invocation -> Slots]
      /\ locks \in [Pair -> LockOwners]
      /\ {"free", "orphan", "expired"} \cap Invocation = {}
      /\ NoPair \notin Pair
  BY TableAssumption DEF TableAssumption, TypeOK, TableTypeOK, WorkerTypeOK
<1>f. ~Fault("store_error") /\ ~Fault("lost_reply")
  BY DEF Fault
<1>s. ASSUME NEW i \in Invocation  PROVE LockSlot(inv[i], i, locks)
  BY <1>s DEF LockInv
<1>i. ASSUME NEW i, NEW lk, NEW e, NEW n
      PROVE  /\ LockSlot(Idle, i, lk)
             /\ LockSlot(Fresh(e, "start", n), i, lk)
             /\ LockSlot(Fresh(e, "retry", n), i, lk)
  BY DEF LockSlot, Idle, Fresh, InTry
<1>1. ASSUME NEW i \in Invocation, NEW e \in Event, WorkerStart(i, e)  PROVE LockInv'
  BY <1>1, <1>i, LockMove DEF WorkerStart
<1>2. ASSUME NEW i \in Invocation, WorkerCrash(i)  PROVE LockInv'
  <2>1. \A p \in Pair : locks[p] \in Invocation \ {i} => locks'[p] = locks[p]
    BY <1>2 DEF WorkerCrash, Orphaned
  <2> QED  BY <1>2, <1>i, <2>1, LockMove DEF WorkerCrash
<1>3. ASSUME NEW i \in Invocation, WorkerRetry(i)  PROVE LockInv'
  <2>1. LockSlot([inv[i] EXCEPT !.pc = "start"], i, locks)
    BY <1>3, <1>t, <1>s DEF WorkerRetry, At, LockSlot, Slots, InTry
  <2> QED  BY <1>3, <2>1, LockMove DEF WorkerRetry
<1>4. ASSUME NEW i \in Invocation, CheckCompleted(i)  PROVE LockInv'
  <2>n. inv[i].pc = "start" /\ inv[i].claim = "none"
    BY <1>4, <1>s DEF CheckCompleted, At, LockSlot, InTry
  <2>1. LockSlot([inv[i] EXCEPT !.pc = "lock"], i, locks)
    BY <1>t, <2>n DEF LockSlot, Slots, InTry
  <2>2. LockSlot([inv[i] EXCEPT !.pc = "post", !.reply = "notice"], i, locks)
    BY <1>t, <2>n DEF LockSlot, Slots, InTry
  <2>3. UNCHANGED locks
    BY <1>4 DEF CheckCompleted
  <2> QED  BY <1>4, <1>i, <2>1, <2>2, <2>3, LockMove DEF CheckCompleted
<1>5. ASSUME NEW i \in Invocation, ClaimLock(i)  PROVE LockInv'
  <2> DEFINE next(reason) ==
        IF reason = "in_progress"
        THEN [inv[i] EXCEPT !.pc = "post", !.claim = reason, !.reply = "notice"]
        ELSE [inv[i] EXCEPT !.pc = "query", !.claim = reason]
  <2> PICK reason \in InflightReasons :
        ClaimInflight(PairFor(i), i, reason) /\ Becomes(i, next(reason))
    BY <1>5 DEF ClaimLock
  <2>1. inv[i].pc = "lock" /\ inv[i].ev \in Event /\ PairFor(i) \in Pair \cup {NoPair}
    BY <1>5, SlotTyped DEF ClaimLock, At
  <2>2. /\ next(reason).claim = reason
        /\ next(reason).ev = inv[i].ev
        /\ next(reason).pc = IF reason = "in_progress" THEN "post" ELSE "query"
    BY <1>t DEF Slots
  <2>3. /\ reason # "store_error"
        /\ reason = "identifiers_missing" => PairFor(i) = NoPair
        /\ reason = "claimed" => PairFor(i) \in Pair /\ locks'[PairFor(i)] = i
    BY <1>t, <1>f, <2>1 DEF ClaimInflight, SetLock
  <2>4. LockSlot(next(reason), i, locks')
    BY <2>2, <2>3 DEF LockSlot, InTry, PairFor
  <2>5. \A p \in Pair : locks[p] \in Invocation \ {i} => locks'[p] = locks[p]
    BY <1>t, <1>f DEF ClaimInflight, SetLock
  <2> QED  BY <2>4, <2>5, LockMove
<1>6. ASSUME NEW i \in Invocation, inv[i].pc \in InTry,
             NEW slot, Becomes(i, slot), UNCHANGED locks,
             slot.pc \in InTry, slot.pc = "release" => Holding(slot),
             slot.claim = inv[i].claim, slot.ev = inv[i].ev
      PROVE  LockInv'
  <2>1. LockSlot(slot, i, locks')
    BY <1>6, <1>s DEF LockSlot
  <2> QED  BY <1>6, <2>1, LockMove
<1>7. ASSUME NEW i \in Invocation, RunQuery(i) \/ PostReply(i) \/ MarkDone(i)
      PROVE  LockInv'
  <2>0. inv[i].pc \in InTry /\ UNCHANGED locks
    BY <1>7 DEF RunQuery, PostReply, MarkDone, At, InTry
  <2>1. ASSUME NEW label \in InTry
        PROVE  /\ [inv[i] EXCEPT !.pc = label].pc = label
               /\ [inv[i] EXCEPT !.pc = label].claim = inv[i].claim
               /\ [inv[i] EXCEPT !.pc = label].ev = inv[i].ev
    BY <1>t DEF Slots
  <2>2. CASE RunQuery(i)
    <3> PICK reply \in Replies : Becomes(i, [inv[i] EXCEPT !.pc = "post", !.reply = reply])
      BY <2>2 DEF RunQuery
    <3>1. /\ [inv[i] EXCEPT !.pc = "post", !.reply = reply].pc = "post"
          /\ [inv[i] EXCEPT !.pc = "post", !.reply = reply].claim = inv[i].claim
          /\ [inv[i] EXCEPT !.pc = "post", !.reply = reply].ev = inv[i].ev
      BY <1>t DEF Slots
    <3> QED  BY <1>6, <2>0, <3>1 DEF InTry
  <2>3. CASE PostReply(i)
    <3>1. /\ [inv[i] EXCEPT !.pc = "mark", !.posted = TRUE].pc = "mark"
          /\ [inv[i] EXCEPT !.pc = "mark", !.posted = TRUE].claim = inv[i].claim
          /\ [inv[i] EXCEPT !.pc = "mark", !.posted = TRUE].ev = inv[i].ev
      BY <1>t DEF Slots
    <3>2. PICK slot \in {[inv[i] EXCEPT !.pc = "mark", !.posted = TRUE],
                         [inv[i] EXCEPT !.pc = "mark"]} : Becomes(i, slot)
      BY <2>3 DEF PostReply
    <3>3. slot.pc = "mark" /\ slot.claim = inv[i].claim /\ slot.ev = inv[i].ev
      BY <2>1, <3>1, <3>2 DEF InTry
    <3> QED  BY <1>6, <2>0, <3>2, <3>3 DEF InTry
  <2>4. CASE MarkDone(i)
    <3>1. Becomes(i, [inv[i] EXCEPT !.pc = "emit"])
      BY <2>4 DEF MarkDone
    <3>2. "emit" \in InTry
      BY DEF InTry
    <3> QED  BY <1>6, <2>0, <2>1, <3>1, <3>2
  <2> QED  BY <1>7, <2>2, <2>3, <2>4
<1>8. ASSUME NEW i \in Invocation, EmitRecord(i)  PROVE LockInv'
  <2>0. inv[i].pc \in InTry /\ UNCHANGED locks
    BY <1>8 DEF EmitRecord, At, InTry
  <2>1. CASE Holding(inv[i])
    <3>1. /\ [inv[i] EXCEPT !.pc = "release"].pc = "release"
          /\ [inv[i] EXCEPT !.pc = "release"].claim = inv[i].claim
          /\ [inv[i] EXCEPT !.pc = "release"].ev = inv[i].ev
      BY <1>t DEF Slots
    <3>2. Holding([inv[i] EXCEPT !.pc = "release"])
      BY <2>1, <3>1 DEF Holding
    <3> QED  BY <1>6, <1>8, <2>0, <2>1, <3>1, <3>2 DEF EmitRecord, InTry
  <2>2. CASE ~Holding(inv[i])
    BY <1>8, <1>i, <2>0, <2>2, LockMove DEF EmitRecord
  <2> QED  BY <2>1, <2>2
<1>9. ASSUME NEW i \in Invocation, ReleaseLock(i)  PROVE LockInv'
  <2> PICK again \in BOOLEAN :
        ReleaseInflight(PairFor(i), i, again) /\ Becomes(i, IF again THEN inv[i] ELSE Idle)
    BY <1>9 DEF ReleaseLock
  <2>1. ~again
    BY <1>f DEF ReleaseInflight
  <2>2. inv[i].claim \in {"claimed", "identifiers_missing"}
    BY <1>9, <1>s DEF ReleaseLock, At, LockSlot, Holding
  <2>3. PairFor(i) \in Pair => locks[PairFor(i)] = i
    BY <1>9, <1>t, <1>s, <2>2 DEF ReleaseLock, At, LockSlot, InTry, PairFor
  <2>4. \A p \in Pair : locks[p] \in Invocation \ {i} => locks'[p] = locks[p]
    BY <1>t, <1>f, <2>3 DEF ReleaseInflight, SetLock
  <2> QED  BY <1>i, <2>1, <2>4, LockMove
<1> QED
  BY <1>1, <1>2, <1>3, <1>4, <1>5, <1>7, <1>8, <1>9 DEF WorkerStep, WorkerRun

LEMMA LockStep ==
    ASSUME "store_error" \notin Faults, "lost_reply" \notin Faults,
           TypeOK, LockInv, [Next]_vars
    PROVE  LockInv'
<1>t. {"free", "orphan", "expired"} \cap Invocation = {}
  BY TableAssumption DEF TableAssumption
<1>1. ASSUME UNCHANGED inv,
             \A p \in Pair : locks[p] \in Invocation => locks'[p] = locks[p]
      PROVE  LockInv'
  BY <1>1 DEF LockInv, LockSlot
<1>2. CASE HandlerStep /\ UNCHANGED workerVars
  <2>1. UNCHANGED locks
    BY <1>2 DEF HandlerStep, HandlerRun, SlackSend, SlackRetry, HandlerIgnore, HandlerClaim,
                HandlerDispatch, HandlerRespond, HandlerCrash
  <2> QED  BY <1>1, <1>2, <2>1 DEF workerVars
<1>3. CASE Expire
  <2>1. \A p \in Pair : locks[p] \in Invocation => locks'[p] = locks[p]
    BY <1>3, <1>t
    DEF Expire, SweepEvent, ExpireLock, SweepLock, SetLock, TypeOK, TableTypeOK
  <2> QED  BY <1>1, <1>3, <2>1 DEF Expire, workerVars
<1>4. CASE UNCHANGED vars
  BY <1>1, <1>4 DEF vars
<1> QED
  BY <1>2, <1>3, <1>4, LockStepOfWorker DEF Next

\* Two queries of one (user, thread) pair that both won claim_inflight_query never
\* run at the same time, as long as the store answers every request: a request
\* that fails or is sent again breaks it, as slackbot_lockless_release shows.
THEOREM OneQueryPerPair ==
    ASSUME "store_error" \notin Faults, "lost_reply" \notin Faults
    PROVE  Spec => []LockExclusive
<1>1. Init => LockInv
  <2> SUFFICES ASSUME Init, NEW i \in Invocation  PROVE LockSlot(inv[i], i, locks)
    BY DEF LockInv
  <2>1. inv[i] = Idle
    BY DEF Init, WorkerInit
  <2> QED  BY <2>1 DEF LockSlot, Idle, InTry
<1>2. TypeOK /\ LockInv /\ [Next]_vars => LockInv'
  BY LockStep
<1>3. LockInv => LockExclusive
  BY DEF LockInv, LockSlot, LockExclusive, InQuery, PairFor, InTry
<1> QED
  BY <1>1, <1>2, <1>3, TypeCorrect, PTL DEF Spec

-----------------------------------------------------------------------------
(* No question is lost on the way *)

\* The faults that can lose one: a store or a Lambda call that does not do what
\* its caller was told, a handler that dies with a claim, a row deleted early.
LosingFaults == {"store_error", "lost_reply", "handler_crash", "dispatch_error", "early_sweep"}

\* Deliveries beyond those Slack made have not begun.
UnsentInv ==
    \A e \in Event : \A k \in Delivery : k > sends[e] => hpc[e][k] = "unsent"

\* Every retry of an invocation is paid for by a fault.
TriesInv == \A i \in Invocation : inv[i].tries <= faults

\* A run past its mark has marked its event, and the row stays as long as it runs.
MarkedInv ==
    \A i \in Invocation :
        inv[i].pc \in {"emit", "release"} => events[inv[i].ev] = "completed"

Waiting(e) == \E k \in Delivery : hpc[e][k] = "received"

\* The two legs of the way: from Slack to the claim, and from the claim to a reply.
MentionInv ==
    \A e \in Questions :
        /\ sends[e] > 0 => Waiting(e) \/ events[e] # "absent"
        /\ events[e] # "absent" => InWork(e) \/ Served(e)

LEMMA UnsentStep == TypeOK /\ UnsentInv /\ [Next]_vars => UnsentInv'
<1> SUFFICES ASSUME TypeOK, UnsentInv, [Next]_vars  PROVE UnsentInv'
  OBVIOUS
<1>t. /\ sends \in [Event -> 0..MaxSends] /\ MaxSends \in Nat
      /\ hpc \in [Event -> [Delivery -> HandlerPCs]]
  BY HandlerAssumption DEF HandlerAssumption, TypeOK, HandlerTypeOK
<1>1. ASSUME UNCHANGED <<sends, hpc>>  PROVE UnsentInv'
  BY <1>1 DEF UnsentInv
<1>2. ASSUME NEW e \in Event, SlackSend(e) \/ SlackRetry(e)  PROVE UnsentInv'
  <2>1. /\ sends' = [sends EXCEPT ![e] = sends[e] + 1]
        /\ hpc' = [hpc EXCEPT ![e] = [@ EXCEPT ![sends[e] + 1] = "received"]]
    BY <1>2, <1>t DEF SlackSend, SlackRetry, Goto
  <2> QED  BY <1>t, <2>1 DEF UnsentInv, Delivery
<1>3. ASSUME NEW e \in Event, NEW k \in Delivery, HandlerRun(e, k) \/ HandlerCrash(e, k)
      PROVE  UnsentInv'
  <2>1. hpc[e][k] # "unsent" /\ UNCHANGED sends
    BY <1>3 DEF HandlerRun, HandlerIgnore, HandlerClaim, HandlerDispatch, HandlerRespond,
                HandlerCrash
  <2>2. PICK label : hpc' = [hpc EXCEPT ![e] = [@ EXCEPT ![k] = label]]
    BY <1>3 DEF HandlerRun, HandlerIgnore, HandlerClaim, HandlerDispatch, HandlerRespond,
                HandlerCrash, Goto
  <2> QED  BY <1>t, <2>1, <2>2 DEF UnsentInv, Delivery
<1> QED
  BY <1>1, <1>2, <1>3 DEF Next, HandlerStep, Expire, handlerVars, vars

LEMMA FaultsGrow ==
    ASSUME TypeOK, [Next]_vars
    PROVE  faults' \in Nat /\ faults' >= faults
<1>t. faults \in Nat
  BY TableAssumption DEF TableAssumption, TypeOK, TableTypeOK
<1>f. \A kind : Fault(kind) \/ NoFault => faults' \in Nat /\ faults' >= faults
  BY <1>t DEF Fault, NoFault
<1>1. HandlerStep => NoFault \/ \E kind : Fault(kind)
  BY DEF HandlerStep, HandlerRun, SlackSend, SlackRetry, HandlerIgnore, HandlerClaim,
         HandlerDispatch, HandlerRespond, HandlerCrash, ClaimEvent, NoFault
<1>2. WorkerStep => NoFault \/ \E kind : Fault(kind)
  <2>1. ASSUME NEW i \in Invocation, NEW e \in Event, WorkerStart(i, e)
        PROVE  NoFault \/ \E kind : Fault(kind)
    BY <2>1 DEF WorkerStart, Dequeue
  <2>2. ASSUME NEW i \in Invocation, WorkerCrash(i) \/ WorkerRetry(i)
        PROVE  NoFault \/ \E kind : Fault(kind)
    BY <2>2 DEF WorkerCrash, WorkerRetry, NoFault
  <2>3. ASSUME NEW i \in Invocation, WorkerRun(i)
        PROVE  NoFault \/ \E kind : Fault(kind)
    BY <2>3 DEF WorkerRun, CheckCompleted, ReadCompleted, ClaimLock, ClaimInflight, RunQuery,
                PostReply, MarkDone, MarkCompleted, EmitRecord, ReleaseLock, ReleaseInflight,
                NoFault
  <2> QED  BY <2>1, <2>2, <2>3 DEF WorkerStep
<1>3. Expire => NoFault \/ \E kind : Fault(kind)
  BY DEF Expire, SweepEvent, ExpireLock, SweepLock, NoFault
<1>4. UNCHANGED vars => NoFault
  BY DEF vars, NoFault
<1> QED  BY <1>f, <1>1, <1>2, <1>3, <1>4 DEF Next

LEMMA TriesStep == TypeOK /\ TriesInv /\ [Next]_vars => TriesInv'
<1> SUFFICES ASSUME TypeOK, TriesInv, [Next]_vars  PROVE TriesInv'
  OBVIOUS
<1>t. inv \in [Invocation -> Slots] /\ faults \in Nat /\ MaxRetries \in Nat
  BY TableAssumption, WorkerAssumption
  DEF TableAssumption, WorkerAssumption, TypeOK, TableTypeOK, WorkerTypeOK
<1>f. faults' \in Nat /\ faults' >= faults
  BY FaultsGrow
<1>s. \A i \in Invocation : inv[i].tries \in Nat /\ inv[i].tries <= faults
  BY <1>t DEF TriesInv, Slots
<1>g. \A n \in Nat : n <= faults => n <= faults'
  BY <1>t, <1>f
<1>1. ASSUME UNCHANGED inv  PROVE TriesInv'
  BY <1>1, <1>g, <1>s DEF TriesInv
<1>2. ASSUME NEW i \in Invocation, NEW slot, Becomes(i, slot), slot.tries <= faults'
      PROVE  TriesInv'
  BY <1>2, <1>t, <1>g, <1>s DEF TriesInv, Becomes
<1>i. Idle.tries = 0 /\ \A e, label, n : Fresh(e, label, n).tries = n
  BY DEF Idle, Fresh
<1>3. ASSUME NEW i \in Invocation, NEW e \in Event, WorkerStart(i, e)  PROVE TriesInv'
  BY <1>2, <1>3, <1>f, <1>i DEF WorkerStart
<1>4. ASSUME NEW i \in Invocation, WorkerCrash(i)  PROVE TriesInv'
  <2>1. faults' = faults + 1
    BY <1>4 DEF WorkerCrash, Fault
  <2>2. inv[i].tries + 1 <= faults'
    BY <1>t, <1>s, <2>1
  <2> QED  BY <1>2, <1>4, <1>f, <1>i, <2>2 DEF WorkerCrash
<1>5. ASSUME NEW i \in Invocation, WorkerRun(i) \/ WorkerRetry(i)  PROVE TriesInv'
  <2>1. PICK slot : Becomes(i, slot) /\ slot.tries \in {inv[i].tries, 0}
    <3> USE <1>t, <1>i DEF Slots
    <3>1. CASE CheckCompleted(i)
      <4>1. \A label : [inv[i] EXCEPT !.pc = label].tries = inv[i].tries
        OBVIOUS
      <4>2. [inv[i] EXCEPT !.pc = "post", !.reply = "notice"].tries = inv[i].tries
        OBVIOUS
      <4>3. PICK done \in BOOLEAN :
              Becomes(i, IF done \/ inv[i].ev \in NoChannel THEN Idle
                         ELSE IF inv[i].ev \in Denied
                              THEN [inv[i] EXCEPT !.pc = "post", !.reply = "notice"]
                              ELSE [inv[i] EXCEPT !.pc = "lock"])
        BY <3>1 DEF CheckCompleted
      <4> QED  BY <4>1, <4>2, <4>3
    <3>2. CASE ClaimLock(i)
      <4>1. \A reason :
              /\ [inv[i] EXCEPT !.pc = "query", !.claim = reason].tries = inv[i].tries
              /\ [inv[i] EXCEPT !.pc = "post", !.claim = reason, !.reply = "notice"].tries
                    = inv[i].tries
        OBVIOUS
      <4> QED  BY <3>2, <4>1 DEF ClaimLock
    <3>3. CASE RunQuery(i)
      <4>1. \A reply : [inv[i] EXCEPT !.pc = "post", !.reply = reply].tries = inv[i].tries
        OBVIOUS
      <4> QED  BY <3>3, <4>1 DEF RunQuery
    <3>4. CASE PostReply(i)
      <4>1. /\ [inv[i] EXCEPT !.pc = "mark", !.posted = TRUE].tries = inv[i].tries
            /\ [inv[i] EXCEPT !.pc = "mark"].tries = inv[i].tries
        OBVIOUS
      <4> QED  BY <3>4, <4>1 DEF PostReply
    <3>5. CASE MarkDone(i) \/ WorkerRetry(i)
      BY <3>5 DEF MarkDone, WorkerRetry
    <3>6. CASE EmitRecord(i)
      BY <3>6 DEF EmitRecord
    <3>7. CASE ReleaseLock(i)
      BY <3>7 DEF ReleaseLock
    <3> QED  BY <1>5, <3>1, <3>2, <3>3, <3>4, <3>5, <3>6, <3>7 DEF WorkerRun
  <2>2. slot.tries <= faults'
    BY <1>f, <1>g, <1>s, <2>1
  <2> QED  BY <1>2, <2>1, <2>2
<1> QED
  BY <1>1, <1>3, <1>4, <1>5 DEF Next, WorkerStep, Expire, workerVars, vars

\* What no step takes back, as long as rows are swept only when all is quiet.
LEMMA RowsStay ==
    ASSUME "early_sweep" \notin Faults, TypeOK, WinnerInv, [Next]_vars, NEW e \in Event
    PROVE  /\ events[e] # "absent" => events'[e] # "absent"
           /\ events[e] = "completed" /\ ~Quiet(e) => events'[e] = "completed"
           /\ events[e] \in {"completed", "swept"} => events'[e] \in {"completed", "swept"}
<1>t. events \in [Event -> RowStates]
  BY DEF TypeOK, TableTypeOK
<1>1. CASE UNCHANGED events
  BY <1>1
<1>2. ASSUME NEW f \in Event, NEW k \in Delivery, NEW reason,
             hpc[f][k] = "received", ClaimEvent(f, reason)
      PROVE  events'[e] = events[e] \/ (events[e] = "absent" /\ events'[e] = "claimed")
  <2>1. events[f] # "swept"
    BY <1>2 DEF WinnerInv, Quiet, SlackQuiet
  <2> QED
    BY <1>2, <1>t, <2>1 DEF ClaimEvent, SetRow, Exists, RowStates
<1>3. ASSUME NEW i \in Invocation, MarkDone(i)
      PROVE  events'[e] \in {events[e], "completed"}
  BY <1>3, <1>t DEF MarkDone, MarkCompleted, SetRow
<1>4. ASSUME NEW f \in Event, SweepEvent(f, Quiet(f))
      PROVE  events'[e] = events[e] \/ (Quiet(e) /\ events'[e] = "swept")
  BY <1>4, <1>t DEF SweepEvent, SetRow, Fault
<1>5. HandlerStep => UNCHANGED events
                     \/ \E f \in Event, k \in Delivery : HandlerClaim(f, k)
  BY DEF HandlerStep, HandlerRun, SlackSend, SlackRetry, HandlerIgnore,
         HandlerDispatch, HandlerRespond, HandlerCrash
<1>6. WorkerStep => UNCHANGED events \/ \E i \in Invocation : MarkDone(i)
  BY DEF WorkerStep, WorkerRun, WorkerStart, WorkerCrash, WorkerRetry, CheckCompleted,
         ReadCompleted, ClaimLock, RunQuery, PostReply, EmitRecord, ReleaseLock
<1>7. Expire => UNCHANGED events \/ \E f \in Event : SweepEvent(f, Quiet(f))
  BY DEF Expire, ExpireLock, SweepLock
<1>8. CASE HandlerStep
  BY <1>1, <1>2, <1>5, <1>8 DEF HandlerClaim
<1>9. CASE WorkerStep
  BY <1>1, <1>3, <1>6, <1>9
<1>10. CASE Expire
  BY <1>1, <1>4, <1>7, <1>10
<1>11. UNCHANGED vars => UNCHANGED events
  BY DEF vars
<1> QED
  BY <1>1, <1>8, <1>9, <1>10, <1>11 DEF Next

LEMMA MarkedStep ==
    ASSUME "early_sweep" \notin Faults, "store_error" \notin Faults,
           TypeOK, WinnerInv, MarkedInv, [Next]_vars
    PROVE  MarkedInv'
<1> DEFINE Late == {"emit", "release"}
<1>t. inv \in [Invocation -> Slots]
  BY DEF TypeOK, WorkerTypeOK
\* a slot that was past its mark keeps its event, and its event the mark
<1>1. ASSUME NEW j \in Invocation, inv[j].pc \in Late, inv'[j].ev = inv[j].ev
      PROVE  events'[inv'[j].ev] = "completed"
  <2>1. inv[j].ev \in Event /\ events[inv[j].ev] = "completed"
    BY <1>1, SlotTyped DEF MarkedInv
  <2>2. ~Quiet(inv[j].ev)
    BY DEF Quiet, WorkerQuiet
  <2> QED  BY <1>1, <2>1, <2>2, RowsStay
<1>2. ASSUME UNCHANGED inv  PROVE MarkedInv'
  BY <1>1, <1>2 DEF MarkedInv
<1>3. ASSUME NEW i \in Invocation, NEW slot, Becomes(i, slot),
             slot.pc \in Late => \/ events'[slot.ev] = "completed"
                                 \/ inv[i].pc \in Late /\ slot.ev = inv[i].ev
      PROVE  MarkedInv'
  <2> SUFFICES ASSUME NEW j \in Invocation, inv'[j].pc \in Late
               PROVE  events'[inv'[j].ev] = "completed"
    BY DEF MarkedInv
  <2>1. CASE j = i
    <3>1. inv'[j] = slot
      BY <1>3, <1>t, <2>1 DEF Becomes
    <3> QED  BY <1>1, <1>3, <2>1, <3>1
  <2>2. CASE j # i
    <3>1. inv'[j] = inv[j]
      BY <1>3, <1>t, <2>2 DEF Becomes
    <3> QED  BY <1>1, <3>1
  <2> QED  BY <2>1, <2>2
<1>i. Idle.pc = "idle" /\ \A e, label, n : Fresh(e, label, n).pc = label
  BY DEF Idle, Fresh
<1>4. ASSUME NEW i \in Invocation, WorkerCrash(i) \/ \E e \in Event : WorkerStart(i, e)
      PROVE  MarkedInv'
  BY <1>3, <1>4, <1>i DEF WorkerCrash, WorkerStart
<1>5. ASSUME NEW i \in Invocation, WorkerRetry(i)  PROVE MarkedInv'
  <2>1. [inv[i] EXCEPT !.pc = "start"].pc = "start"
    BY <1>t DEF Slots
  <2> QED  BY <1>3, <1>5, <2>1 DEF WorkerRetry
<1>6. ASSUME NEW i \in Invocation, WorkerRun(i)  PROVE MarkedInv'
  <2>p. ASSUME NEW label
        PROVE  /\ [inv[i] EXCEPT !.pc = label].pc = label
               /\ [inv[i] EXCEPT !.pc = label].ev = inv[i].ev
    BY <1>t DEF Slots
  <2>1. CASE MarkDone(i)
    <3>1. inv[i].ev \in Event
      BY <2>1, SlotTyped DEF MarkDone, At
    <3>2. events'[inv[i].ev] = "completed"
      BY <2>1, <3>1
      DEF MarkDone, MarkCompleted, SetRow, Fault, TypeOK, TableTypeOK
    <3> QED  BY <1>3, <2>p, <2>1, <3>2 DEF MarkDone
  <2>2. CASE EmitRecord(i)
    <3>1. inv[i].pc = "emit"
      BY <2>2 DEF EmitRecord, At
    <3> QED  BY <1>3, <1>i, <2>p, <2>2, <3>1 DEF EmitRecord
  <2>3. CASE ReleaseLock(i)
    <3>1. inv[i].pc = "release"
      BY <2>3 DEF ReleaseLock, At
    <3> QED  BY <1>3, <1>i, <2>3, <3>1 DEF ReleaseLock
  <2>4. CASE CheckCompleted(i)
    <3>1. [inv[i] EXCEPT !.pc = "post", !.reply = "notice"].pc = "post"
      BY <1>t DEF Slots
    <3>2. PICK done \in BOOLEAN :
            Becomes(i, IF done \/ inv[i].ev \in NoChannel THEN Idle
                       ELSE IF inv[i].ev \in Denied
                            THEN [inv[i] EXCEPT !.pc = "post", !.reply = "notice"]
                            ELSE [inv[i] EXCEPT !.pc = "lock"])
      BY <2>4 DEF CheckCompleted
    <3> QED  BY <1>3, <1>i, <2>p, <3>1, <3>2
  <2>5. CASE ClaimLock(i)
    <3>1. \A reason :
            /\ [inv[i] EXCEPT !.pc = "query", !.claim = reason].pc = "query"
            /\ [inv[i] EXCEPT !.pc = "post", !.claim = reason, !.reply = "notice"].pc = "post"
      BY <1>t DEF Slots
    <3> QED  BY <1>3, <2>5, <3>1 DEF ClaimLock
  <2>6. CASE RunQuery(i)
    <3>1. \A reply : [inv[i] EXCEPT !.pc = "post", !.reply = reply].pc = "post"
      BY <1>t DEF Slots
    <3> QED  BY <1>3, <2>6, <3>1 DEF RunQuery
  <2>7. CASE PostReply(i)
    <3>1. [inv[i] EXCEPT !.pc = "mark", !.posted = TRUE].pc = "mark"
      BY <1>t DEF Slots
    <3> QED  BY <1>3, <2>p, <2>7, <3>1 DEF PostReply
  <2> QED
    BY <1>6, <2>1, <2>2, <2>3, <2>4, <2>5, <2>6, <2>7 DEF WorkerRun
<1> QED
  BY <1>2, <1>4, <1>5, <1>6 DEF Next, WorkerStep, Expire, workerVars, vars

\* The first leg, handler and Slack: a delivery that stops waiting leaves a row,
\* a row leaves a dispatch, and a dispatch leaves a request in the queue.
LEMMA FirstLeg ==
    ASSUME LosingFaults \cap Faults = {}, TypeOK, UnsentInv,
           HandlerStep, UNCHANGED workerVars, NEW e \in Questions
    PROVE  /\ sends'[e] > 0 => sends[e] > 0 \/ Waiting(e)'
           /\ Waiting(e) => Waiting(e)' \/ events'[e] # "absent"
           /\ events'[e] # "absent" => events[e] # "absent" \/ InWork(e)'
           /\ InWork(e) => InWork(e)'
<1> DEFINE Goal == /\ sends'[e] > 0 => sends[e] > 0 \/ Waiting(e)'
                   /\ Waiting(e) => Waiting(e)' \/ events'[e] # "absent"
                   /\ events'[e] # "absent" => events[e] # "absent" \/ InWork(e)'
                   /\ InWork(e) => InWork(e)'
<1>t. /\ sends \in [Event -> 0..MaxSends] /\ MaxSends \in Nat \ {0}
      /\ events \in [Event -> RowStates]
      /\ hpc \in [Event -> [Delivery -> HandlerPCs]]
      /\ queue \in [Event -> Nat]
      /\ e \in Event /\ e \notin SelfMessages /\ e \notin Anonymous
  BY HandlerAssumption
  DEF HandlerAssumption, TypeOK, TableTypeOK, HandlerTypeOK, QueueTypeOK, Questions
<1>f. /\ ~Fault("store_error") /\ ~Fault("lost_reply") /\ ~Fault("handler_crash")
      /\ ~Fault("dispatch_error")
  BY DEF Fault, LosingFaults
<1>w. UNCHANGED inv
  BY DEF workerVars
<1> USE DEF Waiting, InWork, WorkerQuiet
<1>1. ASSUME NEW f \in Event, SlackSend(f) \/ SlackRetry(f)  PROVE Goal
  <2>1. /\ sends' = [sends EXCEPT ![f] = sends[f] + 1]
        /\ hpc' = [hpc EXCEPT ![f] = [@ EXCEPT ![sends[f] + 1] = "received"]]
        /\ sends[f] + 1 \in Delivery
        /\ UNCHANGED <<events, queue>>
    BY <1>1, <1>t DEF SlackSend, SlackRetry, Goto, Delivery
  <2>2. hpc[f][sends[f] + 1] = "unsent"
    BY <1>t, <2>1 DEF UnsentInv
  <2>3. CASE f = e
    <3>1. Waiting(e)'
      BY <1>t, <2>1, <2>3
    <3>2. InWork(e) => InWork(e)'
      BY <1>t, <1>w, <2>1, <2>2, <2>3
    <3> QED  BY <2>1, <3>1, <3>2
  <2>4. CASE f # e
    BY <1>t, <1>w, <2>1, <2>4
  <2> QED  BY <2>3, <2>4
<1>2. ASSUME NEW f \in Event, NEW k \in Delivery, HandlerRun(f, k), f # e  PROVE Goal
  <2>1. sends' = sends
    BY <1>2 DEF HandlerRun, HandlerIgnore, HandlerClaim, HandlerDispatch, HandlerRespond
  <2>2. hpc'[e] = hpc[e]
    BY <1>2, <1>t DEF HandlerRun, HandlerIgnore, HandlerClaim, HandlerDispatch,
                      HandlerRespond, Goto
  <2>3. events'[e] = events[e]
    BY <1>2, <1>t DEF HandlerRun, HandlerIgnore, HandlerClaim, HandlerDispatch,
                      HandlerRespond, ClaimEvent, SetRow
  <2>4. queue'[e] = queue[e]
    BY <1>2, <1>t DEF HandlerRun, HandlerIgnore, HandlerClaim, HandlerDispatch,
                      HandlerRespond, Enqueue
  <2> QED  BY <1>w, <2>1, <2>2, <2>3, <2>4
<1>3. ASSUME NEW k \in Delivery, HandlerClaim(e, k)  PROVE Goal
  <2> PICK reason \in ClaimReasons :
        ClaimEvent(e, reason) /\ Goto(e, k, IF reason = "claimed" THEN "dispatch" ELSE "respond")
    BY <1>3 DEF HandlerClaim
  <2>1. \/ reason = "duplicate" /\ UNCHANGED events /\ events[e] # "absent"
        \/ reason = "claimed" /\ events' = [events EXCEPT ![e] = "claimed"]
    BY <1>f, <1>t DEF ClaimEvent, Exists, SetRow
  <2>2. hpc[e][k] = "received" /\ UNCHANGED <<sends, queue>>
    BY <1>3 DEF HandlerClaim
  <2>3. events'[e] # "absent"
    BY <1>t, <2>1
  <2>4. InWork(e) => InWork(e)'
    BY <1>t, <1>w, <2>2 DEF Goto
  <2>5. reason = "claimed" => InWork(e)'
    BY <1>t DEF Goto
  <2> QED  BY <2>1, <2>2, <2>3, <2>4, <2>5
<1>4. ASSUME NEW k \in Delivery, HandlerDispatch(e, k)  PROVE Goal
  <2>1. queue'[e] > 0
    BY <1>f, <1>t, <1>4 DEF HandlerDispatch, Enqueue
  <2>2. hpc[e][k] = "dispatch" /\ UNCHANGED <<events, sends>>
    BY <1>4 DEF HandlerDispatch
  <2>3. Waiting(e) => Waiting(e)'
    BY <1>4, <1>t, <2>2 DEF HandlerDispatch, Goto
  <2>4. InWork(e)'
    BY <1>t, <2>1
  <2> QED  BY <2>2, <2>3, <2>4
<1>5. ASSUME NEW k \in Delivery, HandlerRespond(e, k)  PROVE Goal
  BY <1>5, <1>t, <1>w DEF HandlerRespond, Goto
<1>6. ASSUME NEW k \in Delivery, HandlerIgnore(e, k)  PROVE Goal
  BY <1>6, <1>t DEF HandlerIgnore
<1>7. ASSUME NEW f \in Event, NEW k \in Delivery  PROVE ~HandlerCrash(f, k)
  BY <1>f DEF HandlerCrash
<1> QED
  BY <1>1, <1>2, <1>3, <1>4, <1>5, <1>6, <1>7 DEF HandlerStep, HandlerRun

\* The second leg, the worker: a run that ends has served its event, or Lambda
\* has a retry left for it.
LEMMA SecondLeg ==
    ASSUME LosingFaults \cap Faults = {},
           "worker_crash" \in Faults => MaxFaults <= MaxRetries,
           TypeOK, RunInv, TriesInv, MarkedInv,
           WorkerStep, UNCHANGED handlerVars, NEW e \in Questions
    PROVE  /\ events'[e] # "absent" => events[e] # "absent" \/ InWork(e)'
           /\ InWork(e) => InWork(e)' \/ Served(e)
<1> DEFINE Goal == /\ events'[e] # "absent" => events[e] # "absent" \/ InWork(e)'
                   /\ InWork(e) => InWork(e)' \/ Served(e)
<1>t. /\ events \in [Event -> RowStates]
      /\ queue \in [Event -> Nat]
      /\ inv \in [Invocation -> Slots]
      /\ faults \in Nat /\ MaxFaults \in Nat /\ MaxRetries \in Nat
      /\ e \in Event /\ e \notin NoChannel
  BY TableAssumption, WorkerAssumption
  DEF TableAssumption, WorkerAssumption, TypeOK, TableTypeOK, QueueTypeOK, WorkerTypeOK,
      Questions
<1>h. UNCHANGED hpc
  BY DEF handlerVars
<1> USE DEF InWork, WorkerQuiet
<1>1. ASSUME NEW i \in Invocation, NEW slot, Becomes(i, slot), slot.ev = inv[i].ev,
             UNCHANGED queue
      PROVE  (InWork(e) => InWork(e)') /\ (inv[i].ev = e => InWork(e)')
  BY <1>1, <1>t, <1>h DEF Becomes
<1>2. ASSUME NEW i \in Invocation, NEW slot, Becomes(i, slot),
             UNCHANGED <<events, queue>>, inv[i].ev = e => slot.ev = e \/ Served(e)
      PROVE  Goal
  BY <1>2, <1>t, <1>h DEF Becomes
<1>i. \A f, label, n : Fresh(f, label, n).ev = f
  BY DEF Idle, Fresh
<1>3. ASSUME NEW i \in Invocation, NEW f \in Event, WorkerStart(i, f)  PROVE Goal
  <2>1. inv'[i].ev = f /\ UNCHANGED events
    BY <1>3, <1>t, <1>i DEF WorkerStart, Becomes
  <2>2. inv[i].ev # e
    BY <1>3, <1>t, WorkerAssumption DEF WorkerAssumption, WorkerStart, At, Slots
  <2>3. \A j \in Invocation : inv[j].ev = e => inv'[j].ev = e
    BY <1>3, <1>t, <2>2 DEF WorkerStart, Becomes
  <2>4. f # e => queue'[e] = queue[e]
    BY <1>3, <1>t DEF WorkerStart, Dequeue
  <2> QED  BY <1>h, <2>1, <2>3, <2>4
<1>4. ASSUME NEW i \in Invocation, WorkerCrash(i)  PROVE Goal
  <2>1. inv[i].tries < MaxRetries
    BY <1>4, <1>t DEF WorkerCrash, Fault, TriesInv, Slots
  <2> QED  BY <1>2, <1>4, <1>i, <2>1 DEF WorkerCrash
<1>p. ASSUME NEW i \in Invocation, NEW label
      PROVE  [inv[i] EXCEPT !.pc = label].ev = inv[i].ev
  BY <1>t DEF Slots
<1>5. ASSUME NEW i \in Invocation, WorkerRetry(i)  PROVE Goal
  BY <1>2, <1>5, <1>p DEF WorkerRetry
<1>6. ASSUME NEW i \in Invocation, CheckCompleted(i)  PROVE Goal
  <2>1. PICK done \in BOOLEAN :
          /\ ReadCompleted(inv[i].ev, done)
          /\ Becomes(i, IF done \/ inv[i].ev \in NoChannel THEN Idle
                        ELSE IF inv[i].ev \in Denied
                             THEN [inv[i] EXCEPT !.pc = "post", !.reply = "notice"]
                             ELSE [inv[i] EXCEPT !.pc = "lock"])
    BY <1>6 DEF CheckCompleted
  <2>2. UNCHANGED <<events, queue>>
    BY <1>6, <2>1 DEF CheckCompleted, ReadCompleted
  <2>3. inv[i].ev = e /\ done => Served(e)
    BY <1>t, <2>1 DEF ReadCompleted, RunInv, Served
  <2>4. [inv[i] EXCEPT !.pc = "post", !.reply = "notice"].ev = inv[i].ev
    BY <1>t DEF Slots
  <2> QED  BY <1>2, <1>p, <1>t, <2>1, <2>2, <2>3, <2>4
<1>7. ASSUME NEW i \in Invocation, ClaimLock(i)  PROVE Goal
  <2>1. \A reason :
          /\ [inv[i] EXCEPT !.pc = "query", !.claim = reason].ev = inv[i].ev
          /\ [inv[i] EXCEPT !.pc = "post", !.claim = reason, !.reply = "notice"].ev = inv[i].ev
    BY <1>t DEF Slots
  <2> QED  BY <1>2, <1>7, <2>1 DEF ClaimLock
<1>8. ASSUME NEW i \in Invocation, RunQuery(i)  PROVE Goal
  <2>1. \A reply : [inv[i] EXCEPT !.pc = "post", !.reply = reply].ev = inv[i].ev
    BY <1>t DEF Slots
  <2> QED  BY <1>2, <1>8, <2>1 DEF RunQuery
<1>9. ASSUME NEW i \in Invocation, PostReply(i)  PROVE Goal
  <2>1. [inv[i] EXCEPT !.pc = "mark", !.posted = TRUE].ev = inv[i].ev
    BY <1>t DEF Slots
  <2> QED  BY <1>2, <1>9, <1>p, <2>1 DEF PostReply
<1>10. ASSUME NEW i \in Invocation, MarkDone(i)  PROVE Goal
  <2>1. (InWork(e) => InWork(e)') /\ (inv[i].ev = e => InWork(e)')
    BY <1>1, <1>10, <1>p DEF MarkDone
  <2>2. inv[i].ev # e => events'[e] = events[e]
    BY <1>10, <1>t DEF MarkDone, MarkCompleted, SetRow
  <2> QED  BY <2>1, <2>2
<1>11. ASSUME NEW i \in Invocation, EmitRecord(i) \/ ReleaseLock(i)  PROVE Goal
  <2>1. inv[i].pc \in {"emit", "release"}
    BY <1>11 DEF EmitRecord, ReleaseLock, At
  <2>2. inv[i].ev = e => Served(e)
    BY <1>t, <2>1 DEF MarkedInv, RunInv, Served
  <2>3. UNCHANGED <<events, queue>>
    BY <1>11 DEF EmitRecord, ReleaseLock
  <2>4. PICK slot : Becomes(i, slot)
    BY <1>11 DEF EmitRecord, ReleaseLock
  <2> QED  BY <1>2, <2>2, <2>3, <2>4
<1> QED
  BY <1>3, <1>4, <1>5, <1>6, <1>7, <1>8, <1>9, <1>10, <1>11 DEF WorkerStep, WorkerRun

LEMMA ServedStep ==
    ASSUME "early_sweep" \notin Faults, TypeOK, WinnerInv, [Next]_vars,
           NEW e \in Event, Served(e)
    PROVE  Served(e)'
<1>1. tried \subseteq tried'
  <2>1. WorkerStep => tried \subseteq tried'
    BY DEF WorkerStep, WorkerRun, WorkerStart, WorkerCrash, WorkerRetry, CheckCompleted,
           ClaimLock, RunQuery, PostReply, MarkDone, EmitRecord, ReleaseLock
  <2> QED  BY <2>1 DEF Next, Expire, workerVars, vars
<1> QED
  BY <1>1, RowsStay DEF Served

LEMMA MentionStep ==
    ASSUME LosingFaults \cap Faults = {},
           "worker_crash" \in Faults => MaxFaults <= MaxRetries,
           TypeOK, WinnerInv, RunInv, UnsentInv, TriesInv, MarkedInv, MentionInv,
           [Next]_vars
    PROVE  MentionInv'
<1> SUFFICES ASSUME NEW e \in Questions
             PROVE  /\ sends'[e] > 0 => Waiting(e)' \/ events'[e] # "absent"
                    /\ events'[e] # "absent" => InWork(e)' \/ Served(e)'
  BY DEF MentionInv
<1>i. /\ sends[e] > 0 => Waiting(e) \/ events[e] # "absent"
      /\ events[e] # "absent" => InWork(e) \/ Served(e)
      /\ e \in Event
  BY DEF MentionInv, Questions
<1>e. "early_sweep" \notin Faults
  BY DEF LosingFaults
<1>s. Served(e) => Served(e)'
  BY <1>e, <1>i, ServedStep
<1>r. events[e] # "absent" => events'[e] # "absent"
  BY <1>e, <1>i, RowsStay
<1>1. CASE HandlerStep /\ UNCHANGED workerVars
  BY <1>1, <1>i, <1>s, <1>r, FirstLeg
<1>2. CASE WorkerStep /\ UNCHANGED handlerVars
  <2>1. /\ events'[e] # "absent" => events[e] # "absent" \/ InWork(e)'
        /\ InWork(e) => InWork(e)' \/ Served(e)
    BY <1>2, SecondLeg
  <2>2. sends' = sends /\ (Waiting(e) <=> Waiting(e)')
    BY <1>2 DEF handlerVars, Waiting
  <2> QED  BY <1>i, <1>s, <1>r, <2>1, <2>2
<1>3. CASE Expire \/ UNCHANGED vars
  <2>1. sends' = sends /\ (Waiting(e) <=> Waiting(e)') /\ (InWork(e) <=> InWork(e)')
    BY <1>3 DEF Expire, handlerVars, workerVars, vars, Waiting, InWork, WorkerQuiet
  <2>2. events'[e] # "absent" => events[e] # "absent"
    BY <1>3, <1>i
    DEF Expire, SweepEvent, ExpireLock, SweepLock, SetRow, Exists, vars, TypeOK, TableTypeOK
  <2> QED  BY <1>i, <1>s, <1>r, <2>1, <2>2
<1> QED
  BY <1>1, <1>2, <1>3 DEF Next

\* However handlers run late or are delivered again, workers die, requests are
\* doubled, posts fail and replicas lag: a question Slack has sent is waiting for
\* a claim, or somebody has it, or a reply was tried and marked. Excluded are the
\* faults known to lose one, and deaths of workers beyond Lambda's retries
\* (_claim_or_fail_safe, _dispatch_to_worker, _process_event).
THEOREM QuestionsAreNotLost ==
    ASSUME LosingFaults \cap Faults = {},
           "worker_crash" \in Faults => MaxFaults <= MaxRetries
    PROVE  Spec => []NoMentionLost
<1> DEFINE MInv == WinnerInv /\ RunInv /\ UnsentInv /\ TriesInv /\ MarkedInv /\ MentionInv
<1>0. "early_sweep" \notin Faults /\ "store_error" \notin Faults
  BY DEF LosingFaults
<1>1. Init => MInv
  <2> SUFFICES ASSUME Init  PROVE UnsentInv /\ TriesInv /\ MarkedInv /\ MentionInv
    BY WinnerInit, RunInit
  <2>1. \A i \in Invocation : inv[i].pc = "idle" /\ inv[i].tries = 0
    BY DEF Init, WorkerInit, Idle
  <2>2. \A e \in Event : /\ sends[e] = 0 /\ events[e] = "absent"
                         /\ \A k \in Delivery : hpc[e][k] = "unsent"
    BY DEF Init, TableInit, HandlerInit
  <2>3. faults = 0
    BY DEF Init, TableInit
  <2> QED
    BY <2>1, <2>2, <2>3 DEF UnsentInv, TriesInv, MarkedInv, MentionInv, Questions
<1>2. TypeOK /\ MInv /\ [Next]_vars => MInv'
  <2> SUFFICES ASSUME TypeOK, MInv, [Next]_vars  PROVE MInv'
    OBVIOUS
  <2>1. WinnerInv' /\ RunInv' /\ UnsentInv' /\ TriesInv'
    BY <1>0, WinnerStep, RunStep, UnsentStep, TriesStep
  <2>2. MarkedInv' /\ MentionInv'
    BY <1>0, MarkedStep, MentionStep
  <2> QED  BY <2>1, <2>2
<1>3. MInv => NoMentionLost
  BY DEF MentionInv, NoMentionLost, Waiting
<1> QED
  BY <1>1, <1>2, <1>3, TypeCorrect, PTL DEF Spec
=============================================================================
