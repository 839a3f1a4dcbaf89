--------------------------- MODULE TokenProviderProofs ---------------------------
(*****************************************************************************)
(* Proofs about TokenProvider, for every set of callers, every bound and all  *)
(* clocks that satisfy its assumptions.                                       *)
(*                                                                           *)
(* The argument: the slot names exactly the refresh that has not run its      *)
(* callback (SlotInv), so no second one can start beside it. Time does not    *)
(* pass beyond the deadline of such a refresh, nor before the waiters of an   *)
(* ended one have resumed (TimeInv, WaitInv), so the token a waiter takes     *)
(* home was issued at most Timeout ago, and one from the cache has more than  *)
(* the leeway left. NeedInv says why the cache is never bypassed: a token     *)
(* still good is the cached one, and then nothing is in flight.               *)
(*****************************************************************************)
EXTENDS TokenProvider, TLAPS

\* The callback of r is still to come.
Active(r) == UnderWay(r) \/ Is(r, "done")

\* The token of r, if it has one, cannot have been issued long ago.
Recent(r) ==
    /\ now <= refreshes[r].sentAt + Timeout
    /\ Is(r, "minted") \/ refreshes[r].outcome = "token"
          => refreshes[r].expires >= refreshes[r].sentAt + drift + Lifetime

BornInv == \A r \in Refresh : r > started => refreshes[r] = Unborn

SlotInv ==
    /\ \A r \in Refresh : Active(r) => r = inflight
    /\ inflight # 0 => Active(inflight)

TimeInv ==
    \A r \in Refresh : Active(r) => refreshes[r].sentAt <= now /\ Recent(r)

WaitInv ==
    \A c \in Caller : waiting[c] # 0 =>
        \/ Active(waiting[c])
        \/ Is(waiting[c], "over") /\ Recent(waiting[c])

\* A refresh task is never cancelled.
OutcomeInv == \A r \in Refresh : refreshes[r].outcome # "cancelled"

NeedInv ==
    \A r \in Refresh :
        r > closedAt /\ Is(r, "over") /\ refreshes[r].outcome = "token" =>
            \/ refreshes[r].expires - now <= Leeway
            \/ r = cached /\ inflight = 0

AnswerInv == HandedOutUsable /\ OwnCancelOnly

IInv ==
    /\ TypeOK
    /\ BornInv
    /\ SlotInv
    /\ TimeInv
    /\ WaitInv
    /\ OutcomeInv
    /\ NeedInv
    /\ AnswerInv

-----------------------------------------------------------------------------
(* Types *)

LEMMA InitTyped == Init => TypeOK
BY ProviderAssumption
   DEF Init, TypeOK, Unborn, NoAnswer, Tasks, Phases, Outcomes, Answers, Refresh

\* What get_token comes to is an outcome and a number.
LEMMA AnswerTyped ==
    ASSUME TypeOK, NEW c \in Caller, NEW r \in Refresh, Answer(c, r)
    PROVE  answers' \in [Caller -> Answers]
<1>1. /\ refreshes[r].outcome \in Outcomes
      /\ refreshes[r].expires \in Int
  BY DEF TypeOK, Tasks
<1>2. There \in Int
  BY ProviderAssumption DEF There, TypeOK
<1> QED  BY <1>1, <1>2 DEF Answer, Answers, TypeOK

LEMMA AwaitTyped ==
    ASSUME TypeOK, NEW c \in Caller, NEW r \in 0..started', started' \in Nat,
           started <= started', Await(c, r)
    PROVE  waiting' \in [Caller -> 0..started'] /\ answers' \in [Caller -> Answers]
<1>1. waiting \in [Caller -> 0..started']
  BY ProviderAssumption DEF TypeOK
<1>2. answers' \in [Caller -> Answers]
  BY DEF Await, NoAnswer, Answers, Outcomes, TypeOK
<1> QED  BY <1>1, <1>2 DEF Await

LEMMA GetTokenTyped == \A c \in Caller : TypeOK /\ GetToken(c) => TypeOK'
<1> SUFFICES ASSUME NEW c \in Caller, TypeOK, GetToken(c)
             PROVE  TypeOK'
  OBVIOUS
<1>0. UNCHANGED <<now, drift, cached, closedAt>> /\ asked' \subseteq Caller
  BY DEF GetToken, TypeOK
<1>1. CASE Valid /\ Answer(c, cached) /\ UNCHANGED <<inflight, started, refreshes, waiting>>
  <2>1. cached \in Refresh
    BY <1>1, ProviderAssumption DEF Valid, TypeOK, Refresh
  <2> QED  BY <1>0, <1>1, <2>1, AnswerTyped DEF TypeOK
<1>2. CASE /\ inflight # 0 /\ Answer(c, inflight)
           /\ UNCHANGED <<inflight, started, refreshes, waiting>>
  <2>1. inflight \in Refresh
    BY <1>2, ProviderAssumption DEF TypeOK, Refresh
  <2> QED  BY <1>0, <1>2, <2>1, AnswerTyped DEF TypeOK
<1>3. CASE Await(c, inflight) /\ UNCHANGED <<inflight, started, refreshes>>
  <2>1. waiting' \in [Caller -> 0..started'] /\ answers' \in [Caller -> Answers]
    <3>1. inflight \in 0..started' /\ started' \in Nat /\ started <= started'
      BY <1>3, ProviderAssumption DEF TypeOK
    <3> QED  BY <1>3, <3>1, AwaitTyped, Zenon
  <2> QED  BY <1>0, <1>3, <2>1 DEF TypeOK
<1>4. CASE /\ started < MaxRefreshes /\ started' = started + 1
           /\ refreshes' = [refreshes EXCEPT ![started + 1] =
                               [@ EXCEPT !.phase = "sent", !.sentAt = now]]
           /\ inflight' = started + 1
           /\ Await(c, started + 1)
  <2>1. started' \in 0..MaxRefreshes /\ started + 1 \in 0..started'
    BY <1>4, ProviderAssumption DEF TypeOK
  <2>2. waiting' \in [Caller -> 0..started'] /\ answers' \in [Caller -> Answers]
    BY <1>4, <2>1, AwaitTyped, ProviderAssumption DEF TypeOK
  <2>3. refreshes' \in [Refresh -> Tasks]
    <3>1. started + 1 \in Refresh /\ refreshes[started + 1] \in Tasks /\ now \in Nat
      BY <1>4, ProviderAssumption DEF Refresh, TypeOK
    <3>2. [refreshes[started + 1] EXCEPT !.phase = "sent", !.sentAt = now] \in Tasks
      BY <3>1 DEF Tasks, Phases
    <3> QED  BY <1>4, <3>1, <3>2 DEF TypeOK
  <2>4. cached' \in 0..started' /\ closedAt' \in 0..started'
    BY <1>0, <1>4, ProviderAssumption DEF TypeOK
  <2> QED  BY <1>0, <1>4, <2>1, <2>2, <2>3, <2>4 DEF TypeOK
<1> QED  BY <1>1, <1>2, <1>3, <1>4 DEF GetToken

LEMMA TaskStepTyped ==
    ASSUME NEW r \in Refresh, TypeOK, BornInv,
           GithubMints(r) \/ ReadResponse(r) \/ RefreshFails(r) \/ RefreshDone(r)
    PROVE  TypeOK'
<1>0. refreshes[r] \in Tasks
  BY DEF TypeOK
<1>1. CASE GithubMints(r)
  <2>1. There + Lifetime \in Int
    BY ProviderAssumption DEF There, TypeOK
  <2>2. refreshes' \in [Refresh -> Tasks]
    BY <1>0, <1>1, <2>1 DEF GithubMints, TypeOK, Tasks, Phases
  <2> QED  BY <1>1, <2>2 DEF GithubMints, TypeOK
<1>2. CASE ReadResponse(r)
  <2>1. refreshes' \in [Refresh -> Tasks]
    BY <1>0, <1>2 DEF ReadResponse, TypeOK, Tasks, Phases, Outcomes
  <2> QED  BY <1>2, <2>1 DEF ReadResponse, TypeOK
<1>3. CASE RefreshFails(r)
  <2>1. refreshes' \in [Refresh -> Tasks]
    BY <1>0, <1>3 DEF RefreshFails, TypeOK, Tasks, Phases, Outcomes
  <2> QED  BY <1>3, <2>1 DEF RefreshFails, TypeOK
<1>4. CASE RefreshDone(r)
  <2>1. refreshes' \in [Refresh -> Tasks]
    BY <1>0, <1>4 DEF RefreshDone, TypeOK, Tasks, Phases
  <2>2. r \in 1..started
    <3>1. ~(r > started)
      BY <1>4 DEF RefreshDone, BornInv, Unborn, Is
    <3> QED  BY <3>1, ProviderAssumption DEF Refresh, TypeOK
  <2>3. cached' \in 0..started' /\ inflight' \in 0..started'
    BY <1>4, <2>2, ProviderAssumption DEF RefreshDone, TypeOK
  <2> QED  BY <1>4, <2>1, <2>3 DEF RefreshDone, TypeOK
<1> QED  BY <1>1, <1>2, <1>3, <1>4

LEMMA TypingStep == TypeOK /\ BornInv /\ [Next]_vars => TypeOK'
<1> SUFFICES ASSUME TypeOK, BornInv, [Next]_vars
             PROVE  TypeOK'
  OBVIOUS
<1>1. ASSUME NEW c \in Caller, GetToken(c)  PROVE TypeOK'
  BY <1>1, GetTokenTyped
<1>2. ASSUME NEW c \in Caller, Resume(c)  PROVE TypeOK'
  <2>1. waiting[c] \in Refresh
    BY <1>2, ProviderAssumption DEF Resume, Refresh, TypeOK
  <2>2. answers' \in [Caller -> Answers]
    <3>1. PICK r \in Refresh : r = waiting[c]
      BY <2>1
    <3> QED  BY <1>2, <3>1, AnswerTyped DEF Resume
  <2>3. waiting' \in [Caller -> 0..started]
    BY <1>2, ProviderAssumption DEF Resume, TypeOK
  <2> QED  BY <1>2, <2>2, <2>3 DEF Resume, TypeOK
<1>3. ASSUME NEW c \in Caller, Cancel(c)  PROVE TypeOK'
  <2>1. waiting' \in [Caller -> 0..started]
    BY <1>3, ProviderAssumption DEF Cancel, Leave, TypeOK
  <2>2. answers' \in [Caller -> Answers]
    <3>1. [NoAnswer EXCEPT !.kind = "cancelled"] = [kind |-> "cancelled", left |-> 0]
      BY DEF NoAnswer
    <3> QED  BY <1>3, <3>1 DEF Cancel, Leave, Answers, Outcomes, TypeOK
  <2> QED  BY <1>3, <2>1, <2>2 DEF Cancel, Leave, TypeOK
<1>4. ASSUME NEW r \in Refresh,
             GithubMints(r) \/ ReadResponse(r) \/ RefreshFails(r) \/ RefreshDone(r)
      PROVE  TypeOK'
  BY <1>4, TaskStepTyped
<1>5. CASE Aclose
  BY <1>5, ProviderAssumption DEF Aclose, TypeOK
<1>6. CASE Tick
  BY <1>6, ProviderAssumption DEF Tick, TypeOK
<1>7. CASE UNCHANGED vars
  BY <1>7 DEF vars, TypeOK
<1> QED  BY <1>1, <1>2, <1>3, <1>4, <1>5, <1>6, <1>7 DEF Next

-----------------------------------------------------------------------------
(* What the steps do to the refreshes *)

\* get_token leaves the refreshes alone or starts the next one.
Starts(c) ==
    /\ ~Valid /\ inflight = 0
    /\ started + 1 \in Refresh
    /\ started' = started + 1
    /\ inflight' = started + 1
    /\ waiting' = [waiting EXCEPT ![c] = started + 1]
    /\ \A s \in Refresh : s # started + 1 => refreshes'[s] = refreshes[s]
    /\ refreshes'[started + 1].phase = "sent"
    /\ refreshes'[started + 1].sentAt = now
    /\ refreshes'[started + 1].outcome = "none"

LEMMA GetTokenEffect ==
    ASSUME TypeOK, BornInv, NEW c \in Caller, GetToken(c)
    PROVE  UNCHANGED <<inflight, started, refreshes>> \/ Starts(c)
<1> SUFFICES ASSUME ~Valid, inflight = 0, started < MaxRefreshes, started' = started + 1,
                    refreshes' = [refreshes EXCEPT ![started + 1] =
                                     [@ EXCEPT !.phase = "sent", !.sentAt = now]],
                    inflight' = started + 1, Await(c, started + 1)
             PROVE  Starts(c)
  BY DEF GetToken
<1>1. started + 1 \in Refresh /\ started + 1 > started
  BY ProviderAssumption DEF Refresh, TypeOK
<1>2. refreshes[started + 1] \in Tasks /\ refreshes[started + 1].outcome = "none"
  BY <1>1 DEF BornInv, Unborn, TypeOK
<1>3. \A s \in Refresh : s # started + 1 => refreshes'[s] = refreshes[s]
  BY DEF TypeOK
<1>4. refreshes'[started + 1] = [refreshes[started + 1] EXCEPT !.phase = "sent", !.sentAt = now]
  BY <1>1 DEF TypeOK
<1>5. /\ refreshes'[started + 1].phase = "sent"
      /\ refreshes'[started + 1].sentAt = now
      /\ refreshes'[started + 1].outcome = "none"
  BY <1>2, <1>4 DEF Tasks
<1> QED  BY <1>1, <1>3, <1>5 DEF Starts, Await

\* A step of refresh r changes no other refresh, keeps when r was sent, and
\* takes it on by one phase.
TaskStep(r) == GithubMints(r) \/ ReadResponse(r) \/ RefreshFails(r) \/ RefreshDone(r)

LEMMA TaskEffect ==
    ASSUME TypeOK, NEW r \in Refresh, TaskStep(r)
    PROVE  /\ \A s \in Refresh : s # r => refreshes'[s] = refreshes[s]
           /\ refreshes'[r].sentAt = refreshes[r].sentAt
           /\ UNCHANGED <<now, drift, started, waiting, answers, asked, closedAt>>
           /\ \/ /\ Is(r, "sent") /\ Is(r, "minted")'
                 /\ refreshes'[r].outcome = refreshes[r].outcome
                 /\ refreshes'[r].expires = There + Lifetime
                 /\ UNCHANGED <<inflight, cached>>
              \/ /\ Is(r, "minted") /\ Is(r, "done")'
                 /\ refreshes'[r].outcome = "token"
                 /\ refreshes'[r].expires = refreshes[r].expires
                 /\ UNCHANGED <<inflight, cached>>
              \/ /\ UnderWay(r) /\ Is(r, "done")'
                 /\ refreshes'[r].outcome = "error"
                 /\ UNCHANGED <<inflight, cached>>
              \/ /\ Is(r, "done") /\ Is(r, "over")'
                 /\ refreshes'[r].outcome = refreshes[r].outcome
                 /\ refreshes'[r].expires = refreshes[r].expires
                 /\ inflight' = IF inflight = r THEN 0 ELSE inflight
                 /\ cached' = IF refreshes[r].outcome = "token" THEN r ELSE cached
<1>0. refreshes[r] \in Tasks
  BY DEF TypeOK
<1>1. CASE GithubMints(r)
  <2>1. refreshes'[r] = [refreshes[r] EXCEPT !.phase = "minted", !.expires = There + Lifetime]
    BY <1>1 DEF GithubMints, TypeOK
  <2> QED  BY <1>0, <1>1, <2>1 DEF GithubMints, TypeOK, Tasks, Is
<1>2. CASE ReadResponse(r)
  <2>1. refreshes'[r] = [refreshes[r] EXCEPT !.phase = "done", !.outcome = "token"]
    BY <1>2 DEF ReadResponse, TypeOK
  <2> QED  BY <1>0, <1>2, <2>1 DEF ReadResponse, TypeOK, Tasks, Is
<1>3. CASE RefreshFails(r)
  <2>1. refreshes'[r] = [refreshes[r] EXCEPT !.phase = "done", !.outcome = "error"]
    BY <1>3 DEF RefreshFails, TypeOK
  <2> QED  BY <1>0, <1>3, <2>1 DEF RefreshFails, TypeOK, Tasks, Is
<1>4. CASE RefreshDone(r)
  <2>1. refreshes'[r] = [refreshes[r] EXCEPT !.phase = "over"]
    BY <1>4 DEF RefreshDone, TypeOK
  <2> QED  BY <1>0, <1>4, <2>1 DEF RefreshDone, TypeOK, Tasks, Is
<1> QED  BY <1>1, <1>2, <1>3, <1>4 DEF TaskStep

\* Every other step leaves the refreshes alone.
Quiet == UNCHANGED <<inflight, started, refreshes>>

LEMMA StepKinds ==
    ASSUME TypeOK, BornInv, [Next]_vars
    PROVE  \/ Quiet
           \/ \E c \in Caller : GetToken(c) /\ Starts(c)
           \/ \E r \in Refresh : TaskStep(r)
BY GetTokenEffect DEF Next, Quiet, TaskStep, Resume, Cancel, Aclose, Tick, vars

LEMMA BornStep == TypeOK /\ BornInv /\ [Next]_vars => BornInv'
<1> SUFFICES ASSUME TypeOK, BornInv, [Next]_vars
             PROVE  BornInv'
  OBVIOUS
<1>1. CASE Quiet
  BY <1>1 DEF Quiet, BornInv
<1>2. ASSUME NEW c \in Caller, Starts(c)  PROVE BornInv'
  BY <1>2, ProviderAssumption DEF Starts, BornInv, Refresh, TypeOK
<1>3. ASSUME NEW r \in Refresh, TaskStep(r)  PROVE BornInv'
  <2>1. ~(r > started)
    BY <1>3, TaskEffect DEF BornInv, Unborn, UnderWay, Is
  <2> QED  BY <1>3, <2>1, TaskEffect DEF BornInv
<1> QED  BY <1>1, <1>2, <1>3, StepKinds

-----------------------------------------------------------------------------
(* The invariant is inductive *)

LEMMA Numbers ==
    ASSUME TypeOK
    PROVE  /\ now \in Int /\ drift \in Int /\ -Backdate <= drift /\ drift <= MaxAhead
           /\ \A r \in Refresh : /\ refreshes[r].sentAt \in Int
                                 /\ refreshes[r].expires \in Int
           /\ Leeway \in Int /\ Lifetime \in Int /\ Timeout \in Int
           /\ Backdate \in Int /\ JwtTTL \in Int /\ MaxAhead \in Int
BY ProviderAssumption DEF TypeOK, Tasks

LEMMA Clocks ==
    ASSUME TypeOK, [Next]_vars
    PROVE  drift' = drift /\ (now' = now \/ Tick)
BY DEF Next, GetToken, Resume, Cancel, GithubMints, ReadResponse, RefreshFails, RefreshDone,
       Aclose, Tick, vars

LEMMA SlotStep == TypeOK /\ BornInv /\ SlotInv /\ [Next]_vars => SlotInv'
<1> SUFFICES ASSUME TypeOK, BornInv, SlotInv, [Next]_vars
             PROVE  SlotInv'
  OBVIOUS
<1> USE DEF SlotInv, Active, UnderWay, Is
<1>1. CASE Quiet
  BY <1>1 DEF Quiet
<1>2. ASSUME NEW c \in Caller, Starts(c)  PROVE SlotInv'
  <2>1. started + 1 # 0
    BY ProviderAssumption DEF TypeOK
  <2>2. ASSUME NEW r \in Refresh, r # started + 1  PROVE ~Active(r)'
    <3>1. ~Active(r)
      BY <1>2 DEF Starts, Refresh
    <3> QED  BY <1>2, <2>2, <3>1 DEF Starts
  <2> QED  BY <1>2, <2>1, <2>2 DEF Starts
<1>3. ASSUME NEW r \in Refresh, TaskStep(r)  PROVE SlotInv'
  <2>1. Active(r) /\ r = inflight /\ r # 0
    BY <1>3, TaskEffect DEF Refresh
  <2>2. \A s \in Refresh : s # r => ~Active(s)'
    BY <1>3, <2>1, TaskEffect
  <2>3. \/ inflight' = inflight /\ Active(r)'
        \/ inflight' = (IF inflight = r THEN 0 ELSE inflight) /\ Is(r, "over")'
    BY <1>3, TaskEffect
  <2> QED  BY <2>1, <2>2, <2>3
<1> QED  BY <1>1, <1>2, <1>3, StepKinds

LEMMA TimeStep == TypeOK /\ BornInv /\ TimeInv /\ [Next]_vars => TimeInv'
<1> SUFFICES ASSUME TypeOK, BornInv, TimeInv, [Next]_vars,
                    NEW r \in Refresh, Active(r)'
             PROVE  (refreshes[r].sentAt <= now /\ Recent(r))'
  BY DEF TimeInv
<1> USE DEF Active, UnderWay, Is, Recent
<1>1. CASE Tick
  <2>1. UnderWay(r) /\ now < refreshes[r].sentAt + Timeout
    BY <1>1 DEF Tick
  <2> QED  BY <1>1, <2>1, Numbers DEF Tick, TimeInv
<1>2. CASE Quiet /\ now' = now
  BY <1>2, Clocks DEF Quiet, TimeInv
<1>3. ASSUME NEW c \in Caller, GetToken(c), Starts(c)
      PROVE  (refreshes[r].sentAt <= now /\ Recent(r))'
  <2>1. UNCHANGED <<now, drift>>
    BY <1>3 DEF GetToken
  <2>2. CASE r = started + 1
    BY <1>3, <2>1, <2>2, Numbers, ProviderAssumption DEF Starts
  <2>3. CASE r # started + 1
    BY <1>3, <2>1, <2>3 DEF Starts, TimeInv
  <2> QED  BY <2>2, <2>3
<1>4. ASSUME NEW s \in Refresh, TaskStep(s)
      PROVE  (refreshes[r].sentAt <= now /\ Recent(r))'
  <2>1. CASE r # s
    BY <1>4, <2>1, TaskEffect DEF TimeInv
  <2>2. CASE r = s
    <3>1. Active(r) /\ refreshes[r].sentAt <= now /\ now <= refreshes[r].sentAt + Timeout
      BY <1>4, <2>2, TaskEffect DEF TimeInv
    <3>2. (refreshes[r].sentAt <= now /\ now <= refreshes[r].sentAt + Timeout)'
      BY <1>4, <2>2, <3>1, TaskEffect
    <3>3. CASE Is(r, "minted")'
      <4>1. refreshes'[r].expires = now + drift + Lifetime
        BY <1>4, <2>2, <3>3, TaskEffect DEF There
      <4> QED  BY <1>4, <2>2, <3>1, <3>2, <4>1, TaskEffect, Numbers
    <3>4. CASE Is(r, "done")' /\ refreshes'[r].outcome = "token"
      <4>1. Is(r, "minted") /\ refreshes'[r].expires = refreshes[r].expires
        BY <1>4, <2>2, <3>4, TaskEffect
      <4> QED  BY <1>4, <2>2, <3>1, <3>2, <4>1, TaskEffect DEF TimeInv
    <3>5. CASE refreshes'[r].outcome = "error" /\ Is(r, "done")'
      BY <3>2, <3>5
    <3> QED  BY <1>4, <2>2, <3>3, <3>4, <3>5, TaskEffect
  <2> QED  BY <2>1, <2>2
<1> QED  BY <1>1, <1>2, <1>3, <1>4, StepKinds, Clocks

\* Who still waits after a step was waiting before, or joins what is in flight.
LEMMA WaitersJoin ==
    ASSUME TypeOK, BornInv, [Next]_vars, NEW c \in Caller, waiting'[c] # 0
    PROVE  waiting'[c] = waiting[c] \/ waiting'[c] = inflight'
<1>1. ASSUME NEW d \in Caller, GetToken(d)
      PROVE  waiting'[c] = waiting[c] \/ waiting'[c] = inflight'
  BY <1>1 DEF GetToken, Await, TypeOK
<1>2. ASSUME NEW d \in Caller, Resume(d) \/ Cancel(d)
      PROVE  waiting'[c] = waiting[c]
  BY <1>2 DEF Resume, Cancel, Leave, TypeOK
<1> QED  BY <1>1, <1>2 DEF Next, GithubMints, ReadResponse, RefreshFails, RefreshDone,
            Aclose, Tick, vars

LEMMA WaitStep ==
    TypeOK /\ BornInv /\ SlotInv /\ TimeInv /\ WaitInv /\ [Next]_vars => WaitInv'
<1> SUFFICES ASSUME TypeOK, BornInv, SlotInv, TimeInv, WaitInv, [Next]_vars,
                    NEW c \in Caller, waiting'[c] # 0
             PROVE  (Active(waiting[c]) \/ (Is(waiting[c], "over") /\ Recent(waiting[c])))'
  BY DEF WaitInv
<1>0. CASE waiting'[c] = inflight' /\ inflight' # 0
  <2>1. SlotInv'
    BY SlotStep
  <2> QED  BY <1>0, <2>1 DEF SlotInv
<1> SUFFICES ASSUME waiting'[c] = waiting[c]
             PROVE  (Active(waiting[c]) \/ (Is(waiting[c], "over") /\ Recent(waiting[c])))'
  BY <1>0, WaitersJoin
<1> DEFINE w == waiting[c]
<1>w. w \in Refresh /\ (Active(w) \/ (Is(w, "over") /\ Recent(w)))
  BY ProviderAssumption DEF WaitInv, Refresh, TypeOK
<1>k. PICK r \in Refresh : r = w
  BY <1>w
<1>r. Active(r) \/ (Is(r, "over") /\ Recent(r))
  BY <1>k, <1>w
<1> SUFFICES Active(r)' \/ (Is(r, "over")' /\ Recent(r)')
  BY <1>k
<1> USE DEF Active, UnderWay, Is, Recent
<1>1. CASE Tick
  <2>1. Active(r)
    BY <1>1, <1>r, <1>k DEF Tick
  <2> QED  BY <1>1, <2>1 DEF Tick
<1>2. CASE Quiet /\ now' = now
  BY <1>2, <1>r, Clocks DEF Quiet
<1>3. ASSUME NEW d \in Caller, GetToken(d), Starts(d)
      PROVE  Active(r)' \/ (Is(r, "over")' /\ Recent(r)')
  <2>1. UNCHANGED <<now, drift>>
    BY <1>3 DEF GetToken
  <2>2. started + 1 > started
    BY ProviderAssumption DEF TypeOK
  <2>3. r # started + 1
    BY <1>3, <1>r, <2>2 DEF Starts, BornInv, Unborn
  <2> QED  BY <1>3, <1>r, <2>1, <2>3 DEF Starts
<1>4. ASSUME NEW s \in Refresh, TaskStep(s)
      PROVE  Active(r)' \/ (Is(r, "over")' /\ Recent(r)')
  <2>1. CASE r # s
    BY <1>4, <1>r, <2>1, TaskEffect
  <2>2. CASE r = s
    <3>1. Active(r) /\ Recent(r)
      BY <1>4, <1>r, <2>2, TaskEffect DEF TimeInv
    <3>2. \/ Active(r)'
          \/ /\ Is(r, "over")'
             /\ refreshes'[r].outcome = refreshes[r].outcome
             /\ refreshes'[r].expires = refreshes[r].expires
             /\ refreshes'[r].sentAt = refreshes[r].sentAt
             /\ now' = now /\ drift' = drift
      BY <1>4, <2>2, TaskEffect
    <3> QED  BY <3>1, <3>2
  <2> QED  BY <2>1, <2>2
<1> QED  BY <1>1, <1>2, <1>3, <1>4, StepKinds, Clocks

LEMMA OutcomeStep == TypeOK /\ BornInv /\ OutcomeInv /\ [Next]_vars => OutcomeInv'
<1> SUFFICES ASSUME TypeOK, BornInv, OutcomeInv, [Next]_vars
             PROVE  OutcomeInv'
  OBVIOUS
<1>1. CASE Quiet
  BY <1>1 DEF Quiet, OutcomeInv
<1>2. ASSUME NEW c \in Caller, Starts(c)  PROVE OutcomeInv'
  BY <1>2 DEF Starts, OutcomeInv
<1>3. ASSUME NEW r \in Refresh, TaskStep(r)  PROVE OutcomeInv'
  BY <1>3, TaskEffect DEF OutcomeInv
<1> QED  BY <1>1, <1>2, <1>3, StepKinds

\* When a refresh starts, every token that is over is due.
LEMMA NothingToUse ==
    ASSUME TypeOK, NeedInv, ~Valid, inflight = 0,
           NEW r \in Refresh, r > closedAt, Is(r, "over"), refreshes[r].outcome = "token"
    PROVE  refreshes[r].expires - now <= Leeway
<1>1. CASE r = cached
  <2>1. ~(refreshes[r].expires - now > Leeway)
    BY <1>1 DEF Valid, Refresh
  <2> QED  BY <2>1, Numbers
<1> QED  BY <1>1 DEF NeedInv

LEMMA NeedStep == TypeOK /\ BornInv /\ SlotInv /\ NeedInv /\ [Next]_vars => NeedInv'
<1> SUFFICES ASSUME TypeOK, BornInv, SlotInv, NeedInv, [Next]_vars,
                    NEW r \in Refresh, r > closedAt', Is(r, "over")',
                    refreshes'[r].outcome = "token"
             PROVE  (refreshes[r].expires - now <= Leeway \/ (r = cached /\ inflight = 0))'
  BY DEF NeedInv
<1> USE DEF Is
<1>1. CASE Tick
  BY <1>1, Numbers DEF Tick, NeedInv
<1>2. CASE Aclose
  <2>1. refreshes[r] = Unborn
    BY <1>2 DEF Aclose, BornInv
  <2> QED  BY <1>2, <2>1 DEF Aclose, Unborn
<1>3. CASE Quiet /\ UNCHANGED <<now, cached, closedAt>>
  BY <1>3 DEF Quiet, NeedInv
<1>4. ASSUME NEW c \in Caller, GetToken(c), Starts(c)
      PROVE  (refreshes[r].expires - now <= Leeway)'
  <2>1. UNCHANGED <<now, cached, closedAt>>
    BY <1>4 DEF GetToken
  <2>2. r # started + 1 /\ refreshes'[r] = refreshes[r]
    BY <1>4 DEF Starts
  <2> QED  BY <1>4, <2>1, <2>2, NothingToUse DEF Starts
<1>5. ASSUME NEW s \in Refresh, TaskStep(s)
      PROVE  (refreshes[r].expires - now <= Leeway \/ (r = cached /\ inflight = 0))'
  <2>1. inflight = s /\ inflight # 0
    BY <1>5, TaskEffect DEF SlotInv, Active, UnderWay, Refresh
  <2>2. CASE r = s
    BY <1>5, <2>1, <2>2, TaskEffect
  <2>3. CASE r # s
    <3>1. refreshes'[r] = refreshes[r] /\ UNCHANGED <<now, closedAt>>
      BY <1>5, <2>3, TaskEffect
    <3> QED  BY <2>1, <3>1 DEF NeedInv
  <2> QED  BY <2>2, <2>3
<1> QED
  <2>1. Quiet => Tick \/ Aclose \/ UNCHANGED <<now, cached, closedAt>> \/ \E s \in Refresh : TaskStep(s)
    BY DEF Next, GetToken, Resume, Cancel, TaskStep, vars
  <2> QED  BY <1>1, <1>2, <1>3, <1>4, <1>5, <2>1, StepKinds

\* A caller that takes home the outcome of a refresh.
LEMMA AnswerGiven ==
    ASSUME TypeOK, OutcomeInv, NEW c \in Caller, NEW r \in Refresh, Answer(c, r),
           refreshes[r].outcome = "token" => refreshes[r].expires > There
    PROVE  /\ answers'[c].kind = "token" => answers'[c].left > 0
           /\ answers'[c].kind # "cancelled"
           /\ \A d \in Caller : d # c => answers'[d] = answers[d]
<1>1. answers'[c] = [kind |-> refreshes[r].outcome,
                     left |-> IF refreshes[r].outcome = "token"
                              THEN refreshes[r].expires - There ELSE 0]
  BY DEF Answer, TypeOK
<1>2. refreshes[r].outcome = "token" => refreshes[r].expires - There > 0
  BY Numbers DEF There
<1> QED  BY <1>1, <1>2 DEF Answer, TypeOK, OutcomeInv

\* A token issued within Timeout, and a cached one with more than the leeway
\* left, are still good on GitHub's clock.
LEMMA RecentIsGood ==
    ASSUME TypeOK, NEW r \in Refresh, Recent(r), refreshes[r].outcome = "token"
    PROVE  refreshes[r].expires > There
BY Numbers, ClockAssumption DEF Recent, There

LEMMA ValidIsGood ==
    ASSUME TypeOK, Valid
    PROVE  cached \in Refresh /\ refreshes[cached].expires > There
<1>1. cached \in Refresh
  BY ProviderAssumption DEF Valid, Refresh, TypeOK
<1> QED  BY <1>1, Numbers, ClockAssumption DEF Valid, There

LEMMA AnswerStep ==
    TypeOK /\ SlotInv /\ TimeInv /\ WaitInv /\ OutcomeInv /\ AnswerInv /\ [Next]_vars
        => AnswerInv'
<1> SUFFICES ASSUME TypeOK, SlotInv, TimeInv, WaitInv, OutcomeInv, AnswerInv, [Next]_vars
             PROVE  AnswerInv'
  OBVIOUS
<1> USE DEF AnswerInv, HandedOutUsable, OwnCancelOnly
<1>a. ASSUME NEW c \in Caller, NEW r \in Refresh, Answer(c, r),
             refreshes[r].outcome = "token" => refreshes[r].expires > There,
             asked' = asked \/ asked' = asked \ {c}
      PROVE  AnswerInv'
  BY <1>a, AnswerGiven
<1>1. ASSUME NEW c \in Caller, GetToken(c)  PROVE AnswerInv'
  <2>0. asked' = asked \ {c}
    BY <1>1 DEF GetToken
  <2>1. CASE Valid /\ Answer(c, cached)
    <3>1. PICK r \in Refresh : r = cached
      BY <2>1, ValidIsGood
    <3> QED  BY <1>a, <2>0, <2>1, <3>1, ValidIsGood
  <2>2. CASE inflight # 0 /\ Is(inflight, "done") /\ Answer(c, inflight)
    <3>1. PICK r \in Refresh : r = inflight
      BY <2>2, ProviderAssumption DEF Refresh, TypeOK
    <3>2. Recent(r)
      BY <2>2, <3>1 DEF TimeInv, Active
    <3> QED  BY <1>a, <2>0, <2>2, <3>1, <3>2, RecentIsGood
  <2>3. CASE \E r : Await(c, r)
    BY <2>0, <2>3 DEF Await, NoAnswer, TypeOK
  <2> QED  BY <1>1, <2>1, <2>2, <2>3 DEF GetToken
<1>2. ASSUME NEW c \in Caller, Resume(c)  PROVE AnswerInv'
  <2>1. PICK r \in Refresh : r = waiting[c]
    BY <1>2, ProviderAssumption DEF Resume, Refresh, TypeOK
  <2>2. Is(r, "over") /\ Recent(r)
    BY <1>2, <2>1 DEF Resume, WaitInv, Active, UnderWay, Is
  <2> QED  BY <1>2, <1>a, <2>1, <2>2, RecentIsGood DEF Resume
<1>3. ASSUME NEW c \in Caller, Cancel(c)  PROVE AnswerInv'
  <2>1. answers'[c] = [NoAnswer EXCEPT !.kind = "cancelled"] /\ answers'[c].kind = "cancelled"
    BY <1>3 DEF Cancel, Leave, NoAnswer, TypeOK
  <2>2. \A d \in Caller : d # c => answers'[d] = answers[d]
    BY <1>3 DEF Cancel, Leave, TypeOK
  <2> QED  BY <1>3, <2>1, <2>2 DEF Cancel, Leave
<1>4. CASE UNCHANGED <<answers, asked>>
  BY <1>4
<1> QED
  BY <1>1, <1>2, <1>3, <1>4
     DEF Next, GithubMints, ReadResponse, RefreshFails, RefreshDone, Aclose, Tick, vars

LEMMA InitInv == Init => IInv
<1> SUFFICES ASSUME Init  PROVE IInv
  OBVIOUS
<1>1. \A r \in Refresh : refreshes[r] = Unborn /\ ~Active(r) /\ ~Is(r, "over")
  BY DEF Init, Active, UnderWay, Is, Unborn
<1>2. AnswerInv
  BY DEF Init, AnswerInv, HandedOutUsable, OwnCancelOnly, NoAnswer
<1>3. inflight = 0 /\ \A c \in Caller : waiting[c] = 0
  BY DEF Init
<1> QED  BY <1>1, <1>2, <1>3, InitTyped
           DEF IInv, BornInv, SlotInv, TimeInv, WaitInv, OutcomeInv, NeedInv, Unborn

LEMMA InvStep == IInv /\ [Next]_vars => IInv'
BY TypingStep, BornStep, SlotStep, TimeStep, WaitStep, OutcomeStep, NeedStep, AnswerStep
   DEF IInv

LEMMA Invariance == Spec => []IInv
BY InitInv, InvStep, PTL DEF Spec

-----------------------------------------------------------------------------
(* The theorems *)

\* TypeOK, for any number of callers, refreshes and clock ticks.
THEOREM TypeCorrect == Spec => []TypeOK
<1>1. IInv => TypeOK
  BY DEF IInv
<1> QED  BY <1>1, Invariance, PTL

\* SingleFlight: concurrent callers of get_token never start a second refresh
\* before the callback of the first has run, whoever is cancelled meanwhile.
THEOREM OneRefresh == Spec => []SingleFlight
<1>1. IInv => SingleFlight
  BY DEF IInv, SlotInv, SingleFlight, Active
<1> QED  BY <1>1, Invariance, PTL

\* HandedOutUsable: get_token never returns a token that is expired on GitHub's
\* clock, as long as that clock is no further ahead than the leeway.
THEOREM TokensAreGood == Spec => []HandedOutUsable
<1>1. IInv => HandedOutUsable
  BY DEF IInv, AnswerInv
<1> QED  BY <1>1, Invariance, PTL

\* OwnCancelOnly: the cancellation of one caller of get_token never reaches
\* another one.
THEOREM CancelStaysLocal == Spec => []OwnCancelOnly
<1>1. IInv => OwnCancelOnly
  BY DEF IInv, AnswerInv
<1> QED  BY <1>1, Invariance, PTL

\* JwtInWindow: the App JWT of _build_app_jwt is accepted for as long as its
\* request may take, with GitHub's clock up to the backdate behind.
THEOREM JwtAccepted == Spec => []JwtInWindow
<1>1. IInv => JwtInWindow
  <2> SUFFICES ASSUME TypeOK, TimeInv, NEW r \in Refresh, UnderWay(r)
               PROVE  Accepts(AppJwt(refreshes[r].sentAt), There)
    BY DEF IInv, JwtInWindow
  <2>1. refreshes[r].sentAt <= now /\ now <= refreshes[r].sentAt + Timeout
    BY DEF TimeInv, Active, Recent
  <2> QED  BY <2>1, Numbers, ClockAssumption DEF Accepts, AppJwt, There
<1> QED  BY <1>1, Invariance, PTL

\* NoNeedlessRefresh: get_token asks GitHub only when every token obtained since
\* the last aclose is within the leeway of its expiry.
THEOREM CacheIsUsed == Spec => NoNeedlessRefresh
<1> DEFINE Needed == started' # started =>
               \A r \in Refresh :
                   r > closedAt /\ Is(r, "over") /\ refreshes[r].outcome = "token"
                       => refreshes[r].expires - now <= Leeway
<1>1. IInv /\ [Next]_vars => [Needed]_vars
  <2> SUFFICES ASSUME IInv, [Next]_vars, started' # started
               PROVE  \A r \in Refresh :
                          r > closedAt /\ Is(r, "over") /\ refreshes[r].outcome = "token"
                              => refreshes[r].expires - now <= Leeway
    OBVIOUS
  <2>1. PICK c \in Caller : Starts(c)
    <3>1. ~Quiet
      BY DEF Quiet
    <3>2. \A r \in Refresh : ~TaskStep(r)
      BY TaskEffect DEF IInv
    <3> QED  BY <3>1, <3>2, StepKinds DEF IInv
  <2> QED  BY <2>1, NothingToUse DEF Starts, IInv
<1>2. [][Next]_vars /\ []IInv => [][Needed]_vars
  BY <1>1, PTL
<1> QED  BY <1>2, Invariance DEF Spec, NoNeedlessRefresh

\* Phases a refresh still has before it, its callback included.
PhasesLeft(task) ==
    IF task.phase = "unborn" THEN 4
    ELSE IF task.phase = "sent" THEN 3
    ELSE IF task.phase = "minted" THEN 2
    ELSE IF task.phase = "done" THEN 1 ELSE 0

\* The slot names a refresh that was started and has its callback before it; a
\* caller waits for that one, or for one it can wake up from; and no refresh ever
\* goes back.
GoesOn ==
    /\ inflight # 0 => inflight \in 1..started /\ PhasesLeft(refreshes[inflight]) \in 1..3
    /\ \A c \in Caller : waiting[c] # 0 => waiting[c] = inflight \/ Is(waiting[c], "over")
    /\ \A r \in Refresh :
          refreshes'[r] # refreshes[r] => PhasesLeft(refreshes'[r]) < PhasesLeft(refreshes[r])

\* Whoever is cancelled, closes the cache or comes too late: the task in the slot
\* ends in at most three steps of its own, the last of which clears the slot, and
\* nobody waits for anything else (get_token, _on_inflight_refresh_done).
THEOREM NobodyWaitsInVain == Spec => [][GoesOn]_vars
<1>1. ASSUME IInv, [Next]_vars  PROVE GoesOn
  <2>0. TypeOK /\ BornInv /\ SlotInv /\ WaitInv
    BY <1>1 DEF IInv
  <2>1. inflight # 0 => inflight \in 1..started /\ PhasesLeft(refreshes[inflight]) \in 1..3
    <3>1. inflight \in 0..started /\ started \in 0..MaxRefreshes
      BY <2>0 DEF TypeOK
    <3> QED  BY <2>0, <3>1 DEF SlotInv, Active, UnderWay, Is, PhasesLeft
  <2>2. ASSUME NEW c \in Caller, waiting[c] # 0
        PROVE  waiting[c] = inflight \/ Is(waiting[c], "over")
    <3>1. PICK r \in Refresh : r = waiting[c]
      BY <2>0, <2>2, ProviderAssumption DEF Refresh, TypeOK
    <3> QED  BY <2>0, <2>2, <3>1 DEF WaitInv, SlotInv
  <2>3. ASSUME NEW r \in Refresh, refreshes'[r] # refreshes[r]
        PROVE  PhasesLeft(refreshes'[r]) < PhasesLeft(refreshes[r])
    <3>1. ~Quiet
      BY <2>3 DEF Quiet
    <3>2. ASSUME NEW c \in Caller, Starts(c)
          PROVE  PhasesLeft(refreshes'[r]) < PhasesLeft(refreshes[r])
      <4>1. r = started + 1 /\ refreshes'[r].phase = "sent"
        BY <2>3, <3>2 DEF Starts
      <4>2. r > started
        BY <2>0, <4>1 DEF TypeOK
      <4>3. refreshes[r].phase = "unborn"
        BY <2>0, <4>2 DEF BornInv, Unborn
      <4> QED  BY <4>1, <4>3 DEF PhasesLeft
    <3>3. ASSUME NEW s \in Refresh, TaskStep(s)
          PROVE  PhasesLeft(refreshes'[r]) < PhasesLeft(refreshes[r])
      <4>1. r = s
        BY <2>0, <2>3, <3>3, TaskEffect
      <4>2. \/ Is(r, "sent") /\ refreshes'[r].phase = "minted"
            \/ UnderWay(r) /\ refreshes'[r].phase = "done"
            \/ Is(r, "done") /\ refreshes'[r].phase = "over"
        BY <2>0, <3>3, <4>1, TaskEffect DEF Is, UnderWay
      <4> QED  BY <4>2 DEF Is, UnderWay, PhasesLeft
    <3> QED  BY <1>1, <2>0, <3>1, <3>2, <3>3, StepKinds
  <2> QED  BY <2>1, <2>2, <2>3 DEF GoesOn
<1>2. IInv /\ [Next]_vars => [GoesOn]_vars
  BY <1>1
<1> QED  BY <1>2, Invariance, PTL DEF Spec

=============================================================================
