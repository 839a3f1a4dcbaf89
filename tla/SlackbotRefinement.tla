---------------------------- MODULE SlackbotRefinement ----------------------------
(*****************************************************************************)
(* Slackbot implements QuestionLifecycle, for every value of its constants,   *)
(* as long as the store reads what was written, answers, and keeps a row      *)
(* while its event is under way. Crashes, repeated deliveries, lost replies   *)
(* and failed posts are all allowed.                                          *)
(*****************************************************************************)
EXTENDS SlackbotProofs

\* The two sides of the refinement mapping.
Phase == [e \in Event |-> PhaseOf(e)]
Open == {ie \in Invocation \X Event : Committed(ie[1], ie[2])}

\* An event with an attempted reply was won.
TriedInv == \A e \in tried : wins[e] > 0

LEMMA TriedInit == Init => TriedInv
BY DEF Init, WorkerInit, TriedInv

LEMMA TriedStep ==
    ASSUME TypeOK, WorkInv, TriedInv, [Next]_vars
    PROVE  TriedInv'
<1>t. wins \in [Event -> Nat] /\ inv \in [Invocation -> Slots] /\ tried \subseteq Event
  BY DEF TypeOK, HandlerTypeOK, WorkerTypeOK
<1>1. CASE HandlerStep /\ UNCHANGED workerVars
  <2>1. UNCHANGED tried
    BY <1>1 DEF workerVars
  <2>2. UNCHANGED wins \/ \E e \in Event, k \in Delivery : HandlerClaim(e, k)
    BY <1>1 DEF HandlerStep, HandlerRun, SlackSend, SlackRetry, HandlerIgnore,
                HandlerDispatch, HandlerRespond, HandlerCrash
  <2>3. ASSUME NEW f \in Event, NEW k \in Delivery, HandlerClaim(f, k), NEW e \in Event
        PROVE  wins'[e] >= wins[e] /\ wins'[e] \in Nat
    BY <1>t, <2>3 DEF HandlerClaim
  <2> QED  BY <1>t, <2>1, <2>2, <2>3 DEF TriedInv
<1>2. CASE WorkerStep /\ UNCHANGED handlerVars
  <2>1. UNCHANGED wins
    BY <1>2 DEF handlerVars
  <2>2. UNCHANGED tried \/ \E i \in Invocation : PostReply(i)
    BY <1>2 DEF WorkerStep, WorkerRun, WorkerStart, WorkerCrash, WorkerRetry, CheckCompleted,
                ClaimLock, RunQuery, MarkDone, EmitRecord, ReleaseLock
  <2>3. ASSUME NEW i \in Invocation, PostReply(i)
        PROVE  wins[inv[i].ev] > 0 /\ tried' = tried \cup {inv[i].ev}
    <3>1. inv[i].ev \in Event
      BY <2>3, SlotTyped DEF PostReply, At
    <3> QED  BY <2>3, <3>1 DEF PostReply, WorkInv, Won
  <2> QED  BY <2>1, <2>2, <2>3 DEF TriedInv
<1>3. CASE Expire \/ UNCHANGED vars
  BY <1>3 DEF Expire, vars, handlerVars, workerVars, TriedInv
<1> QED  BY <1>1, <1>2, <1>3 DEF Next

-----------------------------------------------------------------------------
(* How a move of one container changes Open *)

Working == {"lock", "query", "post", "mark", "emit", "release"}

LEMMA OpenKept ==
    ASSUME TypeOK, NEW i \in Invocation, NEW slot, Becomes(i, slot),
           slot.pc \in Working <=> inv[i].pc \in Working,
           slot.pc \in Working => slot.ev = inv[i].ev
    PROVE  Open' = Open
<1>1. inv' = [inv EXCEPT ![i] = slot] /\ inv \in [Invocation -> Slots]
  BY DEF Becomes, TypeOK, WorkerTypeOK
<1>2. ASSUME NEW j \in Invocation, NEW e \in Event  PROVE Committed(j, e)' <=> Committed(j, e)
  BY <1>1 DEF Committed, Working
<1> QED  BY <1>2 DEF Open

LEMMA OpenEnds ==
    ASSUME TypeOK, NEW i \in Invocation, NEW slot, Becomes(i, slot),
           inv[i].pc \in Working, slot.pc \notin Working
    PROVE  <<i, inv[i].ev>> \in Open /\ Open' = Open \ {<<i, inv[i].ev>>}
<1>1. inv' = [inv EXCEPT ![i] = slot] /\ inv \in [Invocation -> Slots]
  BY DEF Becomes, TypeOK, WorkerTypeOK
<1>2. inv[i].ev \in Event
  BY SlotTyped DEF Working
<1>3. ASSUME NEW j \in Invocation, NEW e \in Event
      PROVE  Committed(j, e)' <=> Committed(j, e) /\ <<j, e>> # <<i, inv[i].ev>>
  BY <1>1 DEF Committed, Working
<1>4. Committed(i, inv[i].ev)
  BY DEF Committed, Working
<1> QED  BY <1>2, <1>3, <1>4 DEF Open

LEMMA OpenBegins ==
    ASSUME TypeOK, NEW i \in Invocation, NEW slot, Becomes(i, slot),
           inv[i].pc \notin Working, slot.pc \in Working, slot.ev \in Event
    PROVE  /\ \A e \in Event : <<i, e>> \notin Open
           /\ Open' = Open \cup {<<i, slot.ev>>}
<1>1. inv' = [inv EXCEPT ![i] = slot] /\ inv \in [Invocation -> Slots]
  BY DEF Becomes, TypeOK, WorkerTypeOK
<1>2. ASSUME NEW j \in Invocation, NEW e \in Event
      PROVE  Committed(j, e)' <=> Committed(j, e) \/ <<j, e>> = <<i, slot.ev>>
  BY <1>1 DEF Committed, Working
<1>3. \A e \in Event : ~Committed(i, e)
  BY DEF Committed, Working
<1> QED  BY <1>2, <1>3 DEF Open

-----------------------------------------------------------------------------
(* Every step is a step of the lifecycle, or none *)

\* The actions of Lifecycle, in terms of Phase and Open.
LAccept(e) ==
    /\ Phase[e] = "new"
    /\ Phase' = [Phase EXCEPT ![e] = "accepted"]
    /\ UNCHANGED Open

LForget(e) ==
    /\ Phase[e] # "forgotten"
    /\ \A i \in Invocation : <<i, e>> \notin Open
    /\ Phase' = [Phase EXCEPT ![e] = "forgotten"]
    /\ UNCHANGED Open

LBegin(i, e) ==
    /\ Phase[e] \in {"accepted", "replied"}
    /\ \A f \in Event : <<i, f>> \notin Open
    /\ Open' = Open \cup {<<i, e>>}
    /\ UNCHANGED Phase

LMove(i, e, from, to) ==
    /\ <<i, e>> \in Open
    /\ Phase[e] = from
    /\ Phase' = [Phase EXCEPT ![e] = to]
    /\ UNCHANGED Open

LEnd(i, e) ==
    /\ <<i, e>> \in Open
    /\ Open' = Open \ {<<i, e>>}
    /\ UNCHANGED Phase

LStutter == UNCHANGED Phase /\ UNCHANGED Open

LStep ==
    \/ LStutter
    \/ \E e \in Event :
          \/ LAccept(e) \/ LForget(e)
          \/ \E i \in Invocation :
                \/ LBegin(i, e) \/ LEnd(i, e)
                \/ LMove(i, e, "accepted", "replied")
                \/ LMove(i, e, "replied", "settled")

LEMMA LifecycleSteps == LStep => [Lifecycle!Next]_(Lifecycle!vars)
<1>1. LStutter => UNCHANGED Lifecycle!vars
  BY DEF LStutter, Lifecycle!vars, Phase, Open
<1>2. ASSUME NEW e \in Event, LAccept(e)  PROVE Lifecycle!Accept(e)
  BY <1>2 DEF LAccept, Lifecycle!Accept, Lifecycle!Move, Phase, Open
<1>3. ASSUME NEW e \in Event, LForget(e)  PROVE Lifecycle!Forget(e)
  BY <1>3 DEF LForget, Lifecycle!Forget, Lifecycle!Move, Phase, Open
<1>4. ASSUME NEW i \in Invocation, NEW e \in Event, LBegin(i, e)  PROVE Lifecycle!Begin(i, e)
  BY <1>4 DEF LBegin, Lifecycle!Begin, Phase, Open
<1>5. ASSUME NEW i \in Invocation, NEW e \in Event, LEnd(i, e)  PROVE Lifecycle!End(i, e)
  BY <1>5 DEF LEnd, Lifecycle!End, Phase, Open
<1>6. ASSUME NEW i \in Invocation, NEW e \in Event, LMove(i, e, "accepted", "replied")
      PROVE  Lifecycle!Reply(i, e)
  BY <1>6 DEF LMove, Lifecycle!Reply, Lifecycle!Move, Phase, Open
<1>7. ASSUME NEW i \in Invocation, NEW e \in Event, LMove(i, e, "replied", "settled")
      PROVE  Lifecycle!Settle(i, e)
  BY <1>7 DEF LMove, Lifecycle!Settle, Lifecycle!Move, Phase, Open
<1> QED
  BY <1>1, <1>2, <1>3, <1>4, <1>5, <1>6, <1>7 DEF LStep, Lifecycle!Next

LEMMA PhaseKept ==
    ASSUME UNCHANGED <<events, wins, tried>>
    PROVE  Phase' = Phase
BY DEF Phase, PhaseOf

LEMMA OpenKeptAlone ==
    ASSUME UNCHANGED inv
    PROVE  Open' = Open
BY DEF Open, Committed

Inv == TypeOK /\ WinnerInv /\ WorkInv /\ RunInv /\ TriedInv

LEMMA HandlerRefines ==
    ASSUME Inv, HandlerStep, UNCHANGED workerVars
    PROVE  LStep
<1> USE DEF Inv
<1>o. UNCHANGED Open /\ UNCHANGED tried
  BY OpenKeptAlone DEF workerVars
<1>1. UNCHANGED <<events, wins>> \/ \E e \in Event, k \in Delivery : HandlerClaim(e, k)
  BY DEF HandlerStep, HandlerRun, SlackSend, SlackRetry, HandlerIgnore, HandlerDispatch,
         HandlerRespond, HandlerCrash
<1>2. CASE UNCHANGED <<events, wins>>
  BY <1>o, <1>2, PhaseKept DEF LStep, LStutter
<1>3. ASSUME NEW e \in Event, NEW k \in Delivery, HandlerClaim(e, k)
      PROVE  LStutter \/ LAccept(e)
  <2> PICK reason \in ClaimReasons :
        /\ ClaimEvent(e, reason)
        /\ wins' = [wins EXCEPT ![e] = IF reason = "claimed" THEN @ + 1 ELSE @]
    BY <1>3 DEF HandlerClaim
  <2>t. wins \in [Event -> Nat] /\ events \in [Event -> RowStates]
    BY DEF TypeOK, HandlerTypeOK, TableTypeOK
  <2>1. CASE UNCHANGED events
    <3>1. reason # "claimed" \/ Exists(e)
      BY <2>t, <2>1 DEF ClaimEvent, SetRow, Exists
    <3>2. reason # "claimed"
      BY <3>1 DEF ClaimEvent
    <3> QED  BY <1>o, <2>t, <2>1, <3>2, PhaseKept DEF LStutter
  <2>2. CASE ~UNCHANGED events
    <3>1. ~Exists(e) /\ events' = [events EXCEPT ![e] = "claimed"]
      BY <2>2 DEF ClaimEvent, SetRow, Fault
    <3>2. events[e] = "absent"
      <4>1. events[e] # "swept"
        BY <1>3 DEF HandlerClaim, WinnerInv, Quiet, SlackQuiet
      <4> QED  BY <2>t, <3>1, <4>1 DEF Exists, RowStates
    <3>3. wins[e] = 0 /\ e \notin tried
      BY <3>2 DEF WinnerInv, TriedInv
    <3>4. Phase[e] = "new"
      BY <3>2, <3>3 DEF Phase, PhaseOf
    <3>5. CASE reason = "claimed"
      <4>1. PhaseOf(e)' = "accepted"
        BY <1>o, <2>t, <3>1, <3>3, <3>5 DEF PhaseOf
      <4>2. \A f \in Event \ {e} : PhaseOf(f)' = PhaseOf(f)
        BY <1>o, <2>t, <3>1, <3>5 DEF PhaseOf
      <4>3. Phase' = [Phase EXCEPT ![e] = "accepted"]
        BY <4>1, <4>2 DEF Phase
      <4> QED  BY <1>o, <3>4, <4>3 DEF LAccept
    <3>6. CASE reason # "claimed"
      <4>1. UNCHANGED wins
        BY <2>t, <3>6
      <4>2. \A f \in Event : PhaseOf(f)' = PhaseOf(f)
        BY <1>o, <2>t, <3>1, <3>2, <3>3, <4>1 DEF PhaseOf
      <4> QED  BY <1>o, <4>2 DEF LStutter, Phase
    <3> QED  BY <3>5, <3>6
  <2> QED  BY <2>1, <2>2
<1> QED  BY <1>1, <1>2, <1>3 DEF LStep

LEMMA WorkerRefines ==
    ASSUME "store_error" \notin Faults, "stale_read" \notin Faults,
           Inv, WorkerStep, UNCHANGED handlerVars
    PROVE  LStep
<1> USE DEF Inv
<1>t. /\ inv \in [Invocation -> Slots]
      /\ wins \in [Event -> Nat]
      /\ events \in [Event -> RowStates]
      /\ tried \subseteq Event
      /\ UNCHANGED wins
  BY DEF TypeOK, WorkerTypeOK, HandlerTypeOK, TableTypeOK, handlerVars
<1>p. ASSUME NEW i \in Invocation, NEW slot, Becomes(i, slot),
             slot.pc \in Working <=> inv[i].pc \in Working,
             slot.pc \in Working => slot.ev = inv[i].ev,
             UNCHANGED <<events, tried>>
      PROVE  LStep
  BY <1>t, <1>p, PhaseKept, OpenKept DEF LStep, LStutter
<1>e. ASSUME NEW i \in Invocation, NEW slot, Becomes(i, slot),
             inv[i].pc \in Working, slot.pc \notin Working,
             UNCHANGED <<events, tried>>
      PROVE  LStep
  <2>1. inv[i].ev \in Event
    BY <1>e, SlotTyped DEF Working
  <2> QED  BY <1>t, <1>e, <2>1, PhaseKept, OpenEnds DEF LStep, LEnd
<1>f. ASSUME NEW e, NEW n
      PROVE  /\ Idle.pc \notin Working
             /\ Fresh(e, "start", n).pc \notin Working
             /\ Fresh(e, "retry", n).pc \notin Working
  BY DEF Idle, Fresh, Working
<1>1. ASSUME NEW i \in Invocation, NEW e \in Event, WorkerStart(i, e)  PROVE LStep
  <2>1. inv[i].pc \notin Working
    BY <1>1 DEF WorkerStart, At, Working
  <2> QED  BY <1>1, <1>f, <1>p, <2>1 DEF WorkerStart
<1>2. ASSUME NEW i \in Invocation, WorkerCrash(i)  PROVE LStep
  <2>1. PICK slot : Becomes(i, slot) /\ slot.pc \notin Working
    BY <1>2, <1>f DEF WorkerCrash
  <2> QED  BY <1>2, <1>e, <1>p, <2>1 DEF WorkerCrash
<1>3. ASSUME NEW i \in Invocation, WorkerRetry(i)  PROVE LStep
  <2>1. [inv[i] EXCEPT !.pc = "start"].pc \notin Working /\ inv[i].pc \notin Working
    BY <1>3, <1>t DEF WorkerRetry, At, Slots, Working
  <2> QED  BY <1>3, <1>p, <2>1 DEF WorkerRetry
<1>4. ASSUME NEW i \in Invocation, CheckCompleted(i)  PROVE LStep
  <2>v. inv[i].ev \in Event
    BY <1>4, SlotTyped DEF CheckCompleted, At
  <2> PICK e \in Event : e = inv[i].ev
    BY <2>v
  <2> DEFINE next(done) ==
        IF done \/ e \in NoChannel THEN Idle
        ELSE IF e \in Denied THEN [inv[i] EXCEPT !.pc = "post", !.reply = "notice"]
             ELSE [inv[i] EXCEPT !.pc = "lock"]
  <2>0. e \in Event /\ inv[i].pc \notin Working /\ UNCHANGED <<events, tried>>
    BY <1>4, SlotTyped DEF CheckCompleted, ReadCompleted, At, Working
  <2> PICK done \in BOOLEAN : ReadCompleted(e, done) /\ Becomes(i, next(done))
    BY <1>4 DEF CheckCompleted
  <2>1. done = (events[e] = "completed")
    BY DEF ReadCompleted, Fault
  <2>2. CASE done \/ e \in NoChannel
    BY <1>f, <1>p, <2>0, <2>2
  <2>3. CASE ~done /\ e \notin NoChannel
    <3>1. next(done).pc \in Working /\ next(done).ev = e
      BY <1>t, <2>3 DEF Slots, Working
    <3>2. wins[e] > 0
      BY <2>0 DEF WorkInv, Won
    <3>3. events[e] # "swept"
      BY <2>0 DEF WinnerInv, Quiet, WorkerQuiet
    <3>4. Phase[e] \in {"accepted", "replied"}
      <4>1. PhaseOf(e) \in {"accepted", "replied"}
        <5>1. events[e] # "completed"
          BY <2>1, <2>3
        <5>2. wins[e] # 0
          BY <1>t, <3>2
        <5> QED  BY <3>3, <5>1, <5>2 DEF PhaseOf
      <4> QED  BY <4>1 DEF Phase
    <3>5. /\ \A f \in Event : <<i, f>> \notin Open
          /\ Open' = Open \cup {<<i, e>>}
      BY <2>0, <3>1, OpenBegins
    <3> QED  BY <1>t, <2>0, <3>4, <3>5, PhaseKept DEF LStep, LBegin
  <2> QED  BY <2>2, <2>3
<1>5. ASSUME NEW i \in Invocation, ClaimLock(i)  PROVE LStep
  <2>1. ASSUME NEW reason
        PROVE  /\ [inv[i] EXCEPT !.pc = "query", !.claim = reason].pc = "query"
               /\ [inv[i] EXCEPT !.pc = "query", !.claim = reason].ev = inv[i].ev
               /\ [inv[i] EXCEPT !.pc = "post", !.claim = reason, !.reply = "notice"].pc = "post"
               /\ [inv[i] EXCEPT !.pc = "post", !.claim = reason, !.reply = "notice"].ev
                     = inv[i].ev
    BY <1>t DEF Slots
  <2>2. PICK slot : Becomes(i, slot) /\ slot.pc \in {"query", "post"} /\ slot.ev = inv[i].ev
    BY <1>5, <2>1 DEF ClaimLock
  <2> QED  BY <1>5, <1>p, <2>2 DEF ClaimLock, At, Working
<1>6. ASSUME NEW i \in Invocation, RunQuery(i)  PROVE LStep
  <2>1. ASSUME NEW reply
        PROVE  /\ [inv[i] EXCEPT !.pc = "post", !.reply = reply].pc = "post"
               /\ [inv[i] EXCEPT !.pc = "post", !.reply = reply].ev = inv[i].ev
    BY <1>t DEF Slots
  <2> QED  BY <1>6, <1>p, <2>1 DEF RunQuery, At, Working
<1>7. ASSUME NEW i \in Invocation, PostReply(i)  PROVE LStep
  <2>0. inv[i].ev \in Event /\ inv[i].pc = "post"
    BY <1>7, SlotTyped DEF PostReply, At
  <2> PICK e \in Event : e = inv[i].ev
    BY <2>0
  <2>1. UNCHANGED events /\ tried' = tried \cup {e}
    BY <1>7 DEF PostReply
  <2>2. /\ [inv[i] EXCEPT !.pc = "mark", !.posted = TRUE].pc = "mark"
        /\ [inv[i] EXCEPT !.pc = "mark", !.posted = TRUE].ev = e
        /\ [inv[i] EXCEPT !.pc = "mark"].pc = "mark"
        /\ [inv[i] EXCEPT !.pc = "mark"].ev = e
    BY <1>t DEF Slots
  <2>3. PICK slot : Becomes(i, slot) /\ slot.pc = "mark" /\ slot.ev = e
    BY <1>7, <2>2 DEF PostReply
  <2>4. UNCHANGED Open
    BY <2>0, <2>3, OpenKept DEF Working
  <2>5. <<i, e>> \in Open
    BY <2>0 DEF Open, Committed
  <2>6. CASE e \in tried
    BY <1>t, <2>1, <2>4, <2>6, PhaseKept DEF LStep, LStutter
  <2>7. CASE e \notin tried
    <3>1. events[e] # "completed" /\ events[e] # "swept" /\ wins[e] > 0
      BY <2>0, <2>7 DEF RunInv, WinnerInv, Quiet, WorkerQuiet, WorkInv, Won
    <3>2. PhaseOf(e) = "accepted" /\ PhaseOf(e)' = "replied"
      BY <1>t, <2>1, <2>7, <3>1 DEF PhaseOf
    <3>3. \A f \in Event \ {e} : PhaseOf(f)' = PhaseOf(f)
      BY <1>t, <2>1 DEF PhaseOf
    <3>4. Phase[e] = "accepted" /\ Phase' = [Phase EXCEPT ![e] = "replied"]
      BY <2>0, <3>2, <3>3 DEF Phase
    <3>5. LMove(i, e, "accepted", "replied")
      BY <2>4, <2>5, <3>4 DEF LMove
    <3> QED  BY <2>0, <3>5 DEF LStep
  <2> QED  BY <2>6, <2>7
<1>8. ASSUME NEW i \in Invocation, MarkDone(i)  PROVE LStep
  <2>0. inv[i].ev \in Event /\ inv[i].pc = "mark"
    BY <1>8, SlotTyped DEF MarkDone, At
  <2> PICK e \in Event : e = inv[i].ev
    BY <2>0
  <2>1. events' = [events EXCEPT ![e] = "completed"] /\ UNCHANGED tried
    BY <1>8 DEF MarkDone, MarkCompleted, SetRow, Fault
  <2>2. /\ [inv[i] EXCEPT !.pc = "emit"].pc = "emit"
        /\ [inv[i] EXCEPT !.pc = "emit"].ev = e
    BY <1>t DEF Slots
  <2>3. Becomes(i, [inv[i] EXCEPT !.pc = "emit"])
    BY <1>8 DEF MarkDone
  <2>4. UNCHANGED Open
    BY <2>0, <2>2, <2>3, OpenKept DEF Working
  <2>5. <<i, e>> \in Open
    BY <2>0 DEF Open, Committed
  <2>6. e \in tried /\ events[e] # "swept" /\ wins[e] > 0
    BY <2>0 DEF RunInv, HonestSlot, Posted, WinnerInv, Quiet, WorkerQuiet, WorkInv, Won
  <2>7. PhaseOf(e)' = "settled" /\ PhaseOf(e) \in {"replied", "settled"}
    BY <1>t, <2>0, <2>1, <2>6 DEF PhaseOf
  <2>8. \A f \in Event \ {e} : PhaseOf(f)' = PhaseOf(f)
    BY <1>t, <2>1 DEF PhaseOf
  <2>9. Phase[e] \in {"replied", "settled"} /\ Phase' = [Phase EXCEPT ![e] = "settled"]
    BY <2>0, <2>7, <2>8 DEF Phase
  <2>10. CASE Phase[e] = "replied"
    BY <2>0, <2>4, <2>5, <2>9, <2>10 DEF LStep, LMove
  <2>11. CASE Phase[e] = "settled"
    BY <2>4, <2>9, <2>11 DEF LStep, LStutter, Phase
  <2> QED  BY <2>9, <2>10, <2>11
<1>9. ASSUME NEW i \in Invocation, EmitRecord(i)  PROVE LStep
  <2>0. inv[i].pc \in Working /\ UNCHANGED <<events, tried>>
    BY <1>9 DEF EmitRecord, At, Working
  <2>1. /\ [inv[i] EXCEPT !.pc = "release"].pc \in Working
        /\ [inv[i] EXCEPT !.pc = "release"].ev = inv[i].ev
    BY <1>t DEF Slots, Working
  <2> QED  BY <1>9, <1>e, <1>f, <1>p, <2>0, <2>1 DEF EmitRecord
<1>10. ASSUME NEW i \in Invocation, ReleaseLock(i)  PROVE LStep
  <2>0. inv[i].pc \in Working /\ UNCHANGED <<events, tried>>
    BY <1>10 DEF ReleaseLock, At, Working
  <2> QED  BY <1>10, <1>e, <1>f, <1>p, <2>0 DEF ReleaseLock
<1> QED
  BY <1>1, <1>2, <1>3, <1>4, <1>5, <1>6, <1>7, <1>8, <1>9, <1>10 DEF WorkerStep, WorkerRun

LEMMA ExpireRefines ==
    ASSUME "early_sweep" \notin Faults, Inv, Expire
    PROVE  LStep
<1>o. UNCHANGED Open /\ UNCHANGED <<tried, wins>>
  BY OpenKeptAlone DEF Expire, handlerVars, workerVars
<1>1. ASSUME NEW e \in Event, SweepEvent(e, Quiet(e))  PROVE LStep
  <2>1. Quiet(e) /\ Exists(e) /\ events' = [events EXCEPT ![e] = "swept"]
    BY <1>1 DEF SweepEvent, Fault, SetRow
  <2>2. PhaseOf(e)' = "forgotten" /\ PhaseOf(e) # "forgotten"
    BY <2>1 DEF PhaseOf, Exists, Inv, TypeOK, TableTypeOK
  <2>3. \A f \in Event \ {e} : PhaseOf(f)' = PhaseOf(f)
    BY <1>o, <2>1 DEF PhaseOf, Inv, TypeOK, TableTypeOK
  <2>4. Phase[e] # "forgotten" /\ Phase' = [Phase EXCEPT ![e] = "forgotten"]
    BY <2>2, <2>3 DEF Phase
  <2>5. \A i \in Invocation : <<i, e>> \notin Open
    BY <2>1 DEF Quiet, WorkerQuiet, Open, Committed
  <2> QED  BY <1>o, <2>4, <2>5 DEF LStep, LForget
<1>2. ASSUME UNCHANGED events  PROVE LStep
  BY <1>o, <1>2, PhaseKept DEF LStep, LStutter
<1> QED
  BY <1>1, <1>2 DEF Expire, ExpireLock, SweepLock

LEMMA InitRefines == Init => Lifecycle!Init
<1> SUFFICES ASSUME Init  PROVE Lifecycle!Init
  OBVIOUS
<1>1. \A e \in Event : PhaseOf(e) = "new"
  BY DEF Init, TableInit, HandlerInit, PhaseOf
<1>2. \A i \in Invocation, e \in Event : ~Committed(i, e)
  BY DEF Init, WorkerInit, Idle, Committed
<1> QED  BY <1>1, <1>2 DEF Lifecycle!Init

\* The slackbot keeps the promise of QuestionLifecycle through crashes, repeated
\* deliveries, lost replies and failed posts: an event is accepted once, only an
\* accepted event is worked on, it is settled only after a reply was tried, and
\* no work begins on a settled one.
THEOREM KeepsThePromise ==
    ASSUME "store_error" \notin Faults, "stale_read" \notin Faults, "early_sweep" \notin Faults
    PROVE  Spec => KeepsLifecycle
<1>1. Init => Inv
  BY InitTyped, WinnerInit, WorkInit, RunInit, TriedInit DEF Inv
<1>2. Inv /\ [Next]_vars => Inv'
  BY NextTyped, WinnerStep, WorkStep, RunStep, TriedStep DEF Inv
<1>3. Inv /\ [Next]_vars => [Lifecycle!Next]_(Lifecycle!vars)
  <2>1. ASSUME Inv, UNCHANGED vars  PROVE LStep
    BY <2>1, PhaseKept, OpenKeptAlone DEF vars, LStep, LStutter
  <2>2. ASSUME Inv, Next  PROVE LStep
    BY <2>2, HandlerRefines, WorkerRefines, ExpireRefines DEF Next
  <2> QED  BY <2>1, <2>2, LifecycleSteps
<1> QED
  BY <1>1, <1>2, <1>3, InitRefines, PTL DEF Spec, KeepsLifecycle, Lifecycle!Spec
=============================================================================
