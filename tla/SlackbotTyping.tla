------------------------------ MODULE SlackbotTyping ------------------------------
(*****************************************************************************)
(* Type correctness of Slackbot, for every number of events, deliveries,      *)
(* worker containers, retries and faults: one lemma per layer, one step per   *)
(* action.                                                                    *)
(*****************************************************************************)
EXTENDS Slackbot, TLAPS

LEMMA FaultTyped ==
    ASSUME TypeOK, NEW kind, Fault(kind) \/ NoFault
    PROVE  faults' \in 0..MaxFaults
BY TableAssumption DEF TypeOK, TableTypeOK, Fault, NoFault

LEMMA ClaimEventTyped ==
    ASSUME TypeOK, NEW e \in Event, NEW reason \in ClaimReasons, ClaimEvent(e, reason)
    PROVE  events' \in [Event -> RowStates] /\ faults' \in 0..MaxFaults
<1>1. faults' \in 0..MaxFaults
  BY FaultTyped DEF ClaimEvent
<1>2. events' \in [Event -> RowStates]
  BY DEF ClaimEvent, SetRow, TypeOK, TableTypeOK, RowStates
<1> QED  BY <1>1, <1>2

LEMMA ClaimInflightTyped ==
    ASSUME TypeOK, NEW p \in Pair \cup {NoPair}, NEW i \in Invocation, NEW reason,
           ClaimInflight(p, i, reason)
    PROVE  locks' \in [Pair -> LockOwners] /\ faults' \in 0..MaxFaults
<1>1. faults' \in 0..MaxFaults
  BY FaultTyped DEF ClaimInflight
<1>2. locks' \in [Pair -> LockOwners]
  BY DEF ClaimInflight, SetLock, TypeOK, TableTypeOK, LockOwners
<1> QED  BY <1>1, <1>2

LEMMA OrphanedTyped ==
    ASSUME TypeOK, NEW i \in Invocation
    PROVE  Orphaned(i) \in [Pair -> LockOwners]
BY DEF Orphaned, TypeOK, TableTypeOK, LockOwners

LEMMA ReleaseInflightTyped ==
    ASSUME TypeOK, NEW p \in Pair \cup {NoPair}, NEW i \in Invocation,
           NEW again \in BOOLEAN, ReleaseInflight(p, i, again)
    PROVE  locks' \in [Pair -> LockOwners] /\ faults' \in 0..MaxFaults
<1>1. faults' \in 0..MaxFaults
  BY FaultTyped DEF ReleaseInflight
<1>2. locks' \in [Pair -> LockOwners]
  BY OrphanedTyped DEF ReleaseInflight, SetLock, TypeOK, TableTypeOK, LockOwners
<1> QED  BY <1>1, <1>2

LEMMA HandlerTyped == TypeOK /\ HandlerStep /\ UNCHANGED workerVars => TypeOK'
<1> SUFFICES ASSUME TypeOK, HandlerStep, UNCHANGED workerVars
             PROVE  TypeOK'
  OBVIOUS
<1> USE HandlerAssumption DEF HandlerAssumption
<1>w. WorkerTypeOK'
  BY DEF TypeOK, WorkerTypeOK, workerVars
<1>g. ASSUME NEW e \in Event, NEW k \in Delivery, NEW label \in HandlerPCs, Goto(e, k, label)
      PROVE  hpc' \in [Event -> [Delivery -> HandlerPCs]]
  BY <1>g DEF Goto, TypeOK, HandlerTypeOK
<1>1. ASSUME NEW e \in Event, SlackSend(e)  PROVE TypeOK'
  <2>1. hpc' \in [Event -> [Delivery -> HandlerPCs]]
    BY <1>1, <1>g DEF SlackSend, Delivery, HandlerPCs
  <2>2. sends' \in [Event -> 0..MaxSends]
    BY <1>1 DEF SlackSend, TypeOK, HandlerTypeOK
  <2> QED
    BY <1>1, <1>w, <2>1, <2>2
    DEF SlackSend, TypeOK, TableTypeOK, QueueTypeOK, HandlerTypeOK
<1>2. ASSUME NEW e \in Event, SlackRetry(e)  PROVE TypeOK'
  <2>1. sends[e] + 1 \in Delivery /\ sends[e] + 1 \in 0..MaxSends
    BY <1>2 DEF SlackRetry, Delivery, TypeOK, HandlerTypeOK
  <2>2. hpc' \in [Event -> [Delivery -> HandlerPCs]]
    BY <1>2, <1>g, <2>1 DEF SlackRetry, HandlerPCs
  <2>3. faults' \in 0..MaxFaults
    BY <1>2, FaultTyped DEF SlackRetry
  <2>4. sends' \in [Event -> 0..MaxSends]
    BY <1>2, <2>1 DEF SlackRetry, TypeOK, HandlerTypeOK
  <2> QED
    BY <1>2, <1>w, <2>2, <2>3, <2>4
    DEF SlackRetry, TypeOK, TableTypeOK, QueueTypeOK, HandlerTypeOK
<1>3. ASSUME NEW e \in Event, NEW k \in Delivery, HandlerIgnore(e, k)  PROVE TypeOK'
  <2>1. hpc' \in [Event -> [Delivery -> HandlerPCs]]
    BY <1>3, <1>g DEF HandlerIgnore, HandlerPCs
  <2> QED
    BY <1>3, <1>w, <2>1
    DEF HandlerIgnore, TypeOK, TableTypeOK, QueueTypeOK, HandlerTypeOK
<1>4. ASSUME NEW e \in Event, NEW k \in Delivery, HandlerClaim(e, k)  PROVE TypeOK'
  <2> PICK reason \in ClaimReasons :
        /\ ClaimEvent(e, reason)
        /\ Goto(e, k, IF reason = "claimed" THEN "dispatch" ELSE "respond")
        /\ wins' = [wins EXCEPT ![e] = IF reason = "claimed" THEN @ + 1 ELSE @]
    BY <1>4 DEF HandlerClaim
  <2>1. hpc' \in [Event -> [Delivery -> HandlerPCs]]
    BY <1>g DEF HandlerPCs
  <2>2. wins' \in [Event -> Nat]
    BY DEF TypeOK, HandlerTypeOK
  <2> QED
    BY <1>4, <1>w, <2>1, <2>2, ClaimEventTyped
    DEF HandlerClaim, TypeOK, TableTypeOK, QueueTypeOK, HandlerTypeOK
<1>5. ASSUME NEW e \in Event, NEW k \in Delivery, HandlerDispatch(e, k)  PROVE TypeOK'
  <2>1. hpc' \in [Event -> [Delivery -> HandlerPCs]]
    BY <1>5, <1>g DEF HandlerDispatch, HandlerPCs
  <2>2. queue' \in [Event -> Nat]
    BY <1>5 DEF HandlerDispatch, Enqueue, TypeOK, QueueTypeOK
  <2>3. faults' \in 0..MaxFaults
    BY <1>5, FaultTyped DEF HandlerDispatch
  <2> QED
    BY <1>5, <1>w, <2>1, <2>2, <2>3
    DEF HandlerDispatch, TypeOK, TableTypeOK, QueueTypeOK, HandlerTypeOK
<1>6. ASSUME NEW e \in Event, NEW k \in Delivery, HandlerRespond(e, k)  PROVE TypeOK'
  <2>1. hpc' \in [Event -> [Delivery -> HandlerPCs]]
    BY <1>6, <1>g DEF HandlerRespond, HandlerPCs
  <2>2. acked' \in [Event -> BOOLEAN]
    BY <1>6 DEF HandlerRespond, TypeOK, HandlerTypeOK
  <2> QED
    BY <1>6, <1>w, <2>1, <2>2
    DEF HandlerRespond, TypeOK, TableTypeOK, QueueTypeOK, HandlerTypeOK
<1>7. ASSUME NEW e \in Event, NEW k \in Delivery, HandlerCrash(e, k)  PROVE TypeOK'
  <2>1. hpc' \in [Event -> [Delivery -> HandlerPCs]]
    BY <1>7, <1>g DEF HandlerCrash, HandlerPCs
  <2>2. faults' \in 0..MaxFaults
    BY <1>7, FaultTyped DEF HandlerCrash
  <2> QED
    BY <1>7, <1>w, <2>1, <2>2
    DEF HandlerCrash, TypeOK, TableTypeOK, QueueTypeOK, HandlerTypeOK
<1> QED
  BY <1>1, <1>2, <1>3, <1>4, <1>5, <1>6, <1>7 DEF HandlerStep, HandlerRun

\* What a container holds after it moves to a well-formed slot.
LEMMA BecomesTyped ==
    ASSUME TypeOK, NEW i \in Invocation, NEW slot \in Slots, Becomes(i, slot)
    PROVE  inv' \in [Invocation -> Slots]
BY DEF Becomes, TypeOK, WorkerTypeOK

LEMMA SlotTyped ==
    ASSUME TypeOK, NEW i \in Invocation, inv[i].pc # "idle"
    PROVE  /\ inv[i] \in Slots
           /\ inv[i].ev \in Event
           /\ PairFor(i) \in Pair \cup {NoPair}
BY WorkerAssumption DEF TypeOK, WorkerTypeOK, PairFor, WorkerAssumption, Slots

LEMMA IdleTyped == Idle \in Slots /\ Idle.pc = "idle"
BY WorkerAssumption DEF WorkerAssumption, Idle, Slots, WorkerPCs

LEMMA FreshTyped ==
    ASSUME NEW e \in Event, NEW label \in WorkerPCs \ {"idle", "post"}, NEW n \in 0..MaxRetries
    PROVE  Fresh(e, label, n) \in Slots /\ Fresh(e, label, n).ev = e
BY WorkerAssumption DEF WorkerAssumption, Fresh, Idle, Slots

LEMMA WorkerTyped == TypeOK /\ WorkerStep /\ UNCHANGED handlerVars => TypeOK'
<1> SUFFICES ASSUME TypeOK, WorkerStep, UNCHANGED handlerVars
             PROVE  TypeOK'
  OBVIOUS
<1>h. HandlerTypeOK'
  BY DEF TypeOK, HandlerTypeOK, handlerVars
<1>1. ASSUME NEW i \in Invocation, NEW e \in Event, WorkerStart(i, e)  PROVE TypeOK'
  <2>1. 0 \in 0..MaxRetries
    BY WorkerAssumption DEF WorkerAssumption
  <2>2. inv' \in [Invocation -> Slots]
    BY <1>1, <2>1, FreshTyped, BecomesTyped DEF WorkerStart, WorkerPCs
  <2>3. queue' \in [Event -> Nat]
    BY <1>1 DEF WorkerStart, Dequeue, TypeOK, QueueTypeOK
  <2>4. faults' \in 0..MaxFaults
    BY <1>1, FaultTyped DEF WorkerStart, Dequeue
  <2> QED
    BY <1>1, <1>h, <2>2, <2>3, <2>4
    DEF WorkerStart, TypeOK, TableTypeOK, QueueTypeOK, WorkerTypeOK
<1>2. ASSUME NEW i \in Invocation, WorkerCrash(i)  PROVE TypeOK'
  <2>1. inv[i] \in Slots /\ inv[i].ev \in Event
    BY <1>2, SlotTyped DEF WorkerCrash
  <2> DEFINE next == IF inv[i].tries < MaxRetries
                     THEN Fresh(inv[i].ev, "retry", inv[i].tries + 1) ELSE Idle
  <2>2. inv[i].tries < MaxRetries => inv[i].tries + 1 \in 0..MaxRetries
    BY <2>1, WorkerAssumption DEF Slots, WorkerAssumption
  <2>3. next \in Slots
    BY <2>1, <2>2, FreshTyped, IdleTyped DEF WorkerPCs
  <2>4. inv' \in [Invocation -> Slots]
    BY <1>2, <2>3, BecomesTyped DEF WorkerCrash
  <2>5. faults' \in 0..MaxFaults /\ locks' \in [Pair -> LockOwners]
    BY <1>2, FaultTyped, OrphanedTyped DEF WorkerCrash
  <2> QED
    BY <1>2, <1>h, <2>4, <2>5
    DEF WorkerCrash, TypeOK, TableTypeOK, QueueTypeOK, WorkerTypeOK
<1>3. ASSUME NEW i \in Invocation, WorkerRetry(i)  PROVE TypeOK'
  <2>1. inv[i] \in Slots /\ inv[i].ev \in Event
    BY <1>3, SlotTyped DEF WorkerRetry, At
  <2> DEFINE next == [inv[i] EXCEPT !.pc = "start"]
  <2>2. next \in Slots
    BY <2>1 DEF Slots, WorkerPCs
  <2>3. inv' \in [Invocation -> Slots]
    BY <1>3, <2>2, BecomesTyped DEF WorkerRetry
  <2> QED
    BY <1>3, <1>h, <2>3
    DEF WorkerRetry, TypeOK, TableTypeOK, QueueTypeOK, WorkerTypeOK
<1>4. ASSUME NEW i \in Invocation, CheckCompleted(i)  PROVE TypeOK'
  <2>1. inv[i] \in Slots /\ inv[i].ev \in Event
    BY <1>4, SlotTyped DEF CheckCompleted, At
  <2> DEFINE next(done) ==
        IF done \/ inv[i].ev \in NoChannel THEN Idle
        ELSE IF inv[i].ev \in Denied
             THEN [inv[i] EXCEPT !.pc = "post", !.reply = "notice"]
             ELSE [inv[i] EXCEPT !.pc = "lock"]
  <2> PICK done \in BOOLEAN : ReadCompleted(inv[i].ev, done) /\ Becomes(i, next(done))
    BY <1>4 DEF CheckCompleted
  <2>2. next(done) \in Slots
    <3>1. [inv[i] EXCEPT !.pc = "lock"] \in Slots
      BY <2>1 DEF Slots, WorkerPCs
    <3>2. [inv[i] EXCEPT !.pc = "post", !.reply = "notice"] \in Slots
      BY <2>1 DEF Slots, WorkerPCs, Replies
    <3> QED  BY <3>1, <3>2, IdleTyped
  <2>3. inv' \in [Invocation -> Slots]
    BY <2>2, BecomesTyped
  <2>4. UNCHANGED events /\ faults' \in 0..MaxFaults
    BY FaultTyped DEF ReadCompleted
  <2> QED
    BY <1>4, <1>h, <2>3, <2>4
    DEF CheckCompleted, TypeOK, TableTypeOK, QueueTypeOK, WorkerTypeOK
<1>5. ASSUME NEW i \in Invocation, ClaimLock(i)  PROVE TypeOK'
  <2>1. inv[i] \in Slots /\ inv[i].ev \in Event /\ PairFor(i) \in Pair \cup {NoPair}
    BY <1>5, SlotTyped DEF ClaimLock, At
  <2> DEFINE next(reason) ==
        IF reason = "in_progress"
        THEN [inv[i] EXCEPT !.pc = "post", !.claim = reason, !.reply = "notice"]
        ELSE [inv[i] EXCEPT !.pc = "query", !.claim = reason]
  <2> PICK reason \in InflightReasons :
        ClaimInflight(PairFor(i), i, reason) /\ Becomes(i, next(reason))
    BY <1>5 DEF ClaimLock
  <2>2. next(reason) \in Slots
    BY <2>1 DEF Slots, WorkerPCs, Replies
  <2>3. inv' \in [Invocation -> Slots]
    BY <2>2, BecomesTyped
  <2>4. locks' \in [Pair -> LockOwners] /\ faults' \in 0..MaxFaults
    BY <2>1, ClaimInflightTyped
  <2> QED
    BY <1>5, <1>h, <2>3, <2>4
    DEF ClaimLock, TypeOK, TableTypeOK, QueueTypeOK, WorkerTypeOK
<1>6. ASSUME NEW i \in Invocation, RunQuery(i)  PROVE TypeOK'
  <2>1. inv[i] \in Slots /\ inv[i].ev \in Event
    BY <1>6, SlotTyped DEF RunQuery, At
  <2> PICK reply \in Replies : Becomes(i, [inv[i] EXCEPT !.pc = "post", !.reply = reply])
    BY <1>6 DEF RunQuery
  <2> DEFINE next == [inv[i] EXCEPT !.pc = "post", !.reply = reply]
  <2>2. next \in Slots
    BY <2>1 DEF Slots, WorkerPCs
  <2>3. inv' \in [Invocation -> Slots]
    BY <2>2, BecomesTyped
  <2> QED
    BY <1>6, <1>h, <2>3
    DEF RunQuery, TypeOK, TableTypeOK, QueueTypeOK, WorkerTypeOK
<1>7. ASSUME NEW i \in Invocation, PostReply(i)  PROVE TypeOK'
  <2>1. inv[i] \in Slots /\ inv[i].ev \in Event
    BY <1>7, SlotTyped DEF PostReply, At
  <2>2. PICK sent \in BOOLEAN : Becomes(i, [inv[i] EXCEPT !.pc = "mark", !.posted = sent])
    <3>1. inv[i] = [inv[i] EXCEPT !.posted = inv[i].posted] /\ inv[i].posted \in BOOLEAN
      BY <2>1 DEF Slots
    <3>2. CASE Becomes(i, [inv[i] EXCEPT !.pc = "mark", !.posted = TRUE])
      BY <3>2
    <3>3. CASE Becomes(i, [inv[i] EXCEPT !.pc = "mark"])
      <4>1. [inv[i] EXCEPT !.pc = "mark"]
              = [inv[i] EXCEPT !.pc = "mark", !.posted = inv[i].posted]
        BY <2>1 DEF Slots
      <4> QED  BY <3>1, <3>3, <4>1
    <3> QED  BY <1>7, <3>2, <3>3 DEF PostReply
  <2> DEFINE next == [inv[i] EXCEPT !.pc = "mark", !.posted = sent]
  <2>3. next \in Slots
    BY <2>1, <2>2 DEF Slots, WorkerPCs
  <2>4. inv' \in [Invocation -> Slots]
    BY <2>2, <2>3, BecomesTyped
  <2>5. inv[i].reply \in Replies
    BY <1>7, <2>1 DEF PostReply, At, Slots
  <2>6. faults' \in 0..MaxFaults /\ tried' \subseteq Event
    BY <1>7, <2>1, FaultTyped DEF PostReply, TypeOK, WorkerTypeOK
  <2>7. delivered' \in [Event -> SUBSET Replies]
    BY <1>7, <2>1, <2>5 DEF PostReply, TypeOK, WorkerTypeOK
  <2> QED
    BY <1>7, <1>h, <2>4, <2>6, <2>7
    DEF PostReply, TypeOK, TableTypeOK, QueueTypeOK, WorkerTypeOK
<1>8. ASSUME NEW i \in Invocation, MarkDone(i)  PROVE TypeOK'
  <2>1. inv[i] \in Slots /\ inv[i].ev \in Event
    BY <1>8, SlotTyped DEF MarkDone, At
  <2> DEFINE next == [inv[i] EXCEPT !.pc = "emit"]
  <2>2. next \in Slots
    BY <2>1 DEF Slots, WorkerPCs
  <2>3. inv' \in [Invocation -> Slots]
    BY <1>8, <2>2, BecomesTyped DEF MarkDone
  <2>4. faults' \in 0..MaxFaults
    BY <1>8, FaultTyped DEF MarkDone, MarkCompleted
  <2>5. events' \in [Event -> RowStates]
    BY <1>8, <2>1 DEF MarkDone, MarkCompleted, SetRow, RowStates, TypeOK, TableTypeOK
  <2> QED
    BY <1>8, <1>h, <2>3, <2>4, <2>5
    DEF MarkDone, TypeOK, TableTypeOK, QueueTypeOK, WorkerTypeOK
<1>9. ASSUME NEW i \in Invocation, EmitRecord(i)  PROVE TypeOK'
  <2>1. inv[i] \in Slots /\ inv[i].ev \in Event
    BY <1>9, SlotTyped DEF EmitRecord, At
  <2> DEFINE next == IF Holding(inv[i]) THEN [inv[i] EXCEPT !.pc = "release"] ELSE Idle
  <2>2. next \in Slots
    BY <2>1, IdleTyped DEF Slots, WorkerPCs
  <2>3. inv' \in [Invocation -> Slots]
    BY <1>9, <2>2, BecomesTyped DEF EmitRecord
  <2>4. records' \in [Event -> SUBSET Outcomes]
    BY <1>9, <2>1 DEF EmitRecord, EffectiveOutcome, Outcomes, TypeOK, WorkerTypeOK
  <2> QED
    BY <1>9, <1>h, <2>3, <2>4
    DEF EmitRecord, TypeOK, TableTypeOK, QueueTypeOK, WorkerTypeOK
<1>10. ASSUME NEW i \in Invocation, ReleaseLock(i)  PROVE TypeOK'
  <2>1. inv[i] \in Slots /\ inv[i].ev \in Event /\ PairFor(i) \in Pair \cup {NoPair}
    BY <1>10, SlotTyped DEF ReleaseLock, At
  <2> PICK again \in BOOLEAN :
        ReleaseInflight(PairFor(i), i, again) /\ Becomes(i, IF again THEN inv[i] ELSE Idle)
    BY <1>10 DEF ReleaseLock
  <2> DEFINE next == IF again THEN inv[i] ELSE Idle
  <2>2. next \in Slots
    BY <2>1, IdleTyped
  <2>3. inv' \in [Invocation -> Slots]
    BY <2>2, BecomesTyped
  <2>4. locks' \in [Pair -> LockOwners] /\ faults' \in 0..MaxFaults
    BY <2>1, ReleaseInflightTyped
  <2> QED
    BY <1>10, <1>h, <2>3, <2>4
    DEF ReleaseLock, TypeOK, TableTypeOK, QueueTypeOK, WorkerTypeOK
<1> QED
  BY <1>1, <1>2, <1>3, <1>4, <1>5, <1>6, <1>7, <1>8, <1>9, <1>10 DEF WorkerStep, WorkerRun

LEMMA ExpireTyped == TypeOK /\ Expire => TypeOK'
<1> SUFFICES ASSUME TypeOK, Expire  PROVE TypeOK'
  OBVIOUS
<1>1. HandlerTypeOK' /\ WorkerTypeOK' /\ QueueTypeOK'
  BY DEF Expire, TypeOK, HandlerTypeOK, WorkerTypeOK, QueueTypeOK, handlerVars, workerVars
<1>2. ASSUME NEW e \in Event, SweepEvent(e, Quiet(e))  PROVE TableTypeOK'
  <2>1. faults' \in 0..MaxFaults
    BY <1>2, FaultTyped DEF SweepEvent
  <2> QED
    BY <1>2, <2>1 DEF SweepEvent, SetRow, RowStates, TypeOK, TableTypeOK
<1>3. ASSUME NEW p \in Pair, ExpireLock(p) \/ SweepLock(p)  PROVE TableTypeOK'
  BY <1>3 DEF ExpireLock, SweepLock, SetLock, LockOwners, TypeOK, TableTypeOK
<1> QED
  BY <1>1, <1>2, <1>3 DEF Expire, TypeOK

LEMMA InitTyped == Init => TypeOK
<1> SUFFICES ASSUME Init  PROVE TypeOK
  OBVIOUS
<1>1. TableTypeOK
  BY TableAssumption
  DEF TableAssumption, Init, TableInit, TableTypeOK, RowStates, LockOwners
<1>2. QueueTypeOK
  BY DEF Init, QueueInit, QueueTypeOK
<1>3. HandlerTypeOK
  BY HandlerAssumption
  DEF HandlerAssumption, Init, HandlerInit, HandlerTypeOK, HandlerPCs, Delivery
<1>4. WorkerTypeOK
  BY IdleTyped DEF Init, WorkerInit, WorkerTypeOK
<1> QED  BY <1>1, <1>2, <1>3, <1>4 DEF TypeOK

LEMMA NextTyped == TypeOK /\ [Next]_vars => TypeOK'
<1>1. ASSUME TypeOK, UNCHANGED vars  PROVE TypeOK'
  BY <1>1
  DEF vars, TypeOK, TableTypeOK, QueueTypeOK, HandlerTypeOK, WorkerTypeOK
<1> QED
  BY <1>1, HandlerTyped, WorkerTyped, ExpireTyped DEF Next

\* Every reachable state is well formed: in particular no invocation is retried
\* more often than Lambda's MaxRetries and Slack sends at most MaxSends times.
THEOREM TypeCorrect == Spec => []TypeOK
BY InitTyped, NextTyped, PTL DEF Spec
=============================================================================
