----------------------------- MODULE ToolCallsProofs -----------------------------
(*****************************************************************************)
(* Proofs about ToolCalls, for every set of callers, roles and repositories.  *)
(*                                                                           *)
(* Every step of the composition is a step of TokenProvider or leaves it      *)
(* alone, so its invariant IInv holds here too. From it, whatever get_token   *)
(* hands out has more than Timeout left (LongAnswers); a request leaves in    *)
(* the instant its token was handed out, and ends within Timeout (WireInv).   *)
(*****************************************************************************)
EXTENDS ToolCalls, TokenProviderProofs

LongAnswers == \A c \in Caller : answers[c].kind = "token" => answers[c].left > Timeout

WireInv ==
    \A c \in Caller : At(c, "wire") =>
        /\ now <= calls[c].since + Timeout
        /\ calls[c].expires > calls[c].since + drift + Timeout

CallInv ==
    /\ IInv
    /\ LongAnswers
    /\ OwnTypeOK
    /\ OneRecordPerCall
    /\ WireInv

-----------------------------------------------------------------------------
(* The composition and the provider *)

LEMMA StepUsesProvider == [CallNext]_allVars => [Next]_vars
<1> SUFFICES ASSUME [CallNext]_allVars  PROVE [Next]_vars
  OBVIOUS
<1>1. ASSUME NEW c \in Caller, CallStep(c)  PROVE GetToken(c) \/ Cancel(c) \/ UNCHANGED vars
  BY <1>1 DEF CallStep, CallTool, SendRequest, HandleResponse, CancelCall, AskToken
<1>2. ProviderStep => Next
  BY DEF ProviderStep, Next, CallTick
<1> QED  BY <1>1, <1>2 DEF CallNext, allVars, Next

-----------------------------------------------------------------------------
(* What a call does in one step *)

Asks(c) ==
    /\ ~At(c, "ended")
    /\ \E tool \in Tools :
          calls' = [calls EXCEPT ![c] = [@ EXCEPT !.pc = "token", !.tool = tool]]
    /\ UNCHANGED <<audit, now, drift>>

Sends(c) ==
    /\ HasAnswer(c)
    /\ answers[c].kind = "token"
    /\ calls' = [calls EXCEPT ![c] =
                    [@ EXCEPT !.pc = "wire", !.requests = calls[c].requests + 1,
                              !.since = now, !.expires = There + answers[c].left]]
    /\ UNCHANGED <<audit, now, drift>>

Ends(c) ==
    /\ ~At(c, "ended")
    /\ \E entry \in Entries, returned \in BOOLEAN :
          Close(c, entry, returned) /\ (returned => entry = "ok")
    /\ UNCHANGED <<now, drift>>

LEMMA CallKinds ==
    ASSUME NEW c \in Caller, CallStep(c)
    PROVE  Asks(c) \/ Sends(c) \/ Ends(c)
<1>1. ASSUME NEW tool \in Tools, NEW role \in Role \cup {NoRole},
             NEW repo \in Repo \cup {NoRepo}, NEW safe \in BOOLEAN,
             CallTool(c, tool, role, repo, safe)
      PROVE  Asks(c) \/ Ends(c)
  BY <1>1 DEF CallTool, AskToken, GetToken, Asks, Ends, At, vars, End, Entries, AuditOutcomes
<1>2. CASE SendRequest(c)
  BY <1>2 DEF SendRequest, HasAnswer, Sends, Ends, At, vars, End, Entries, AuditOutcomes
<1>3. CASE HandleResponse(c)
  BY <1>3 DEF HandleResponse, AskToken, GetToken, Asks, Ends, At, vars, End, Entries, AuditOutcomes, Tools
<1>4. CASE CancelCall(c)
  BY <1>4 DEF CancelCall, Cancel, Ends, At, vars, End, Entries, AuditOutcomes
<1> QED  BY <1>1, <1>2, <1>3, <1>4 DEF CallStep

\* The call of c after a step of c, and everybody else's.
LEMMA CallEffect ==
    ASSUME OwnTypeOK, TypeOK, NEW c \in Caller, CallStep(c)
    PROVE  /\ \A d \in Caller : d # c => calls'[d] = calls[d] /\ audit'[d] = audit[d]
           /\ calls'[c] \in Calls
           /\ UNCHANGED <<now, drift>>
           /\ \/ /\ audit' = audit /\ ~At(c, "ended") /\ calls'[c].pc = "token"
                 /\ calls'[c].returned = calls[c].returned
              \/ /\ audit' = audit /\ ~At(c, "ended") /\ calls'[c].pc = "wire"
                 /\ calls'[c].returned = calls[c].returned
                 /\ answers[c].kind = "token"
                 /\ calls'[c].since = now
                 /\ calls'[c].expires = There + answers[c].left
              \/ /\ ~At(c, "ended") /\ calls'[c].pc = "ended"
                 /\ \E entry \in Entries :
                       /\ audit' = [audit EXCEPT ![c] = Append(@, entry)]
                       /\ calls'[c].returned => entry = "ok"
<1>0. calls[c] \in Calls
  BY DEF OwnTypeOK
<1>1. CASE Asks(c)
  <2>1. PICK tool \in Tools :
            calls' = [calls EXCEPT ![c] = [@ EXCEPT !.pc = "token", !.tool = tool]]
    BY <1>1 DEF Asks
  <2>2. calls'[c] = [calls[c] EXCEPT !.pc = "token", !.tool = tool]
    BY <2>1 DEF OwnTypeOK
  <2>3. calls'[c] \in Calls /\ calls'[c].pc = "token"
    BY <1>0, <2>2 DEF Calls, CallPCs
  <2> QED  BY <1>1, <2>1, <2>3 DEF Asks, OwnTypeOK
<1>2. CASE Sends(c)
  <2>1. calls'[c] = [calls[c] EXCEPT !.pc = "wire", !.requests = calls[c].requests + 1,
                                     !.since = now, !.expires = There + answers[c].left]
    BY <1>2 DEF Sends, OwnTypeOK
  <2>2. now \in Nat /\ There + answers[c].left \in Int
    BY Numbers, ProviderAssumption DEF There, TypeOK, Answers
  <2>3. calls'[c] = [pc |-> "wire", tool |-> calls[c].tool,
                     requests |-> calls[c].requests + 1, since |-> now,
                     expires |-> There + answers[c].left, returned |-> calls[c].returned]
    BY <1>0, <2>1 DEF Calls
  <2>4. calls[c].requests + 1 \in Nat /\ calls[c].tool \in Tools /\ calls[c].returned \in BOOLEAN
    BY <1>0 DEF Calls
  <2>5. calls'[c] \in Calls
    BY <2>2, <2>3, <2>4 DEF Calls, CallPCs
  <2> QED  BY <1>2, <2>3, <2>5 DEF Sends, OwnTypeOK, HasAnswer, At
<1>3. CASE Ends(c)
  <2>1. PICK entry \in Entries, returned \in BOOLEAN :
            Close(c, entry, returned) /\ (returned => entry = "ok")
    BY <1>3 DEF Ends
  <2>2. calls'[c] = [NoCall EXCEPT !.pc = "ended", !.returned = returned]
    BY <2>1 DEF Close, OwnTypeOK
  <2>3. calls'[c] \in Calls /\ calls'[c].pc = "ended" /\ (~returned => ~calls'[c].returned)
    <3>1. calls'[c] = [pc |-> "ended", tool |-> "list_repos", requests |-> 0, since |-> 0,
                       expires |-> 0, returned |-> returned]
      BY <2>2 DEF NoCall
    <3>2. [pc |-> "ended", tool |-> "list_repos", requests |-> 0, since |-> 0,
           expires |-> 0, returned |-> returned] \in Calls
      BY <2>1 DEF Calls, CallPCs, Tools
    <3>3. calls'[c].pc = "ended"
      BY <3>1
    <3>4. ~returned => ~calls'[c].returned
      <4>1. CASE returned = FALSE
        BY <3>1, <4>1
      <4> QED  BY <4>1
    <3> QED  BY <3>1, <3>2, <3>3, <3>4
  <2> QED  BY <1>3, <2>1, <2>3 DEF Ends, Close, OwnTypeOK
<1> QED  BY <1>1, <1>2, <1>3, CallKinds

-----------------------------------------------------------------------------
(* The invariant is inductive *)

\* A token issued within Timeout, and one with more than the leeway left, both
\* last for another request.
LEMMA RecentIsLong ==
    ASSUME TypeOK, NEW r \in Refresh, Recent(r), refreshes[r].outcome = "token"
    PROVE  refreshes[r].expires - There > Timeout
BY Numbers, RequestAssumption DEF Recent, There

LEMMA ValidIsLong ==
    ASSUME TypeOK, Valid
    PROVE  cached \in Refresh /\ refreshes[cached].expires - There > Timeout
<1>1. cached \in Refresh
  BY ProviderAssumption DEF Valid, Refresh, TypeOK
<1> QED  BY <1>1, Numbers, RequestAssumption DEF Valid, There

LEMMA LongAnswersStep == IInv /\ LongAnswers /\ [Next]_vars => LongAnswers'
<1> SUFFICES ASSUME IInv, LongAnswers, [Next]_vars
             PROVE  LongAnswers'
  OBVIOUS
<1>0. TypeOK /\ TimeInv /\ WaitInv
  BY DEF IInv
<1>a. ASSUME NEW c \in Caller, NEW r \in Refresh, Answer(c, r),
             refreshes[r].outcome = "token" => refreshes[r].expires - There > Timeout
      PROVE  LongAnswers'
  <2>1. answers'[c] = [kind |-> refreshes[r].outcome,
                       left |-> IF refreshes[r].outcome = "token"
                                THEN refreshes[r].expires - There ELSE 0]
    BY <1>0, <1>a DEF Answer, TypeOK
  <2>2. \A d \in Caller : d # c => answers'[d] = answers[d]
    BY <1>0, <1>a DEF Answer, TypeOK
  <2> QED  BY <1>a, <2>1, <2>2 DEF LongAnswers
<1>1. ASSUME NEW c \in Caller, GetToken(c)  PROVE LongAnswers'
  <2>1. CASE Valid /\ Answer(c, cached)
    <3>1. PICK r \in Refresh : r = cached
      BY <1>0, <2>1, ValidIsLong
    <3> QED  BY <1>0, <1>a, <2>1, <3>1, ValidIsLong
  <2>2. CASE inflight # 0 /\ Is(inflight, "done") /\ Answer(c, inflight)
    <3>1. PICK r \in Refresh : r = inflight
      BY <1>0, <2>2, ProviderAssumption DEF Refresh, TypeOK
    <3>2. Recent(r)
      BY <1>0, <2>2, <3>1 DEF TimeInv, Active
    <3> QED  BY <1>0, <1>a, <2>2, <3>1, <3>2, RecentIsLong
  <2>3. CASE \E r : Await(c, r)
    BY <1>0, <2>3 DEF Await, NoAnswer, TypeOK, LongAnswers
  <2> QED  BY <1>1, <2>1, <2>2, <2>3 DEF GetToken
<1>2. ASSUME NEW c \in Caller, Resume(c)  PROVE LongAnswers'
  <2>1. PICK r \in Refresh : r = waiting[c]
    BY <1>0, <1>2, ProviderAssumption DEF Resume, Refresh, TypeOK
  <2>2. Is(r, "over") /\ Recent(r)
    BY <1>0, <1>2, <2>1 DEF Resume, WaitInv, Active, UnderWay, Is
  <2> QED  BY <1>0, <1>2, <1>a, <2>1, <2>2, RecentIsLong DEF Resume
<1>3. ASSUME NEW c \in Caller, Cancel(c)  PROVE LongAnswers'
  <2>1. answers'[c].kind = "cancelled"
    BY <1>0, <1>3 DEF Cancel, Leave, NoAnswer, TypeOK
  <2>2. \A d \in Caller : d # c => answers'[d] = answers[d]
    BY <1>0, <1>3 DEF Cancel, Leave, TypeOK
  <2> QED  BY <2>1, <2>2 DEF LongAnswers
<1>4. CASE UNCHANGED answers
  BY <1>4 DEF LongAnswers
<1> QED
  BY <1>1, <1>2, <1>3, <1>4
     DEF Next, GithubMints, ReadResponse, RefreshFails, RefreshDone, Aclose, Tick, vars

LEMMA CallTypingStep == TypeOK /\ OwnTypeOK /\ [CallNext]_allVars => OwnTypeOK'
<1> SUFFICES ASSUME TypeOK, OwnTypeOK, [CallNext]_allVars
             PROVE  OwnTypeOK'
  OBVIOUS
<1>1. ASSUME NEW c \in Caller, CallStep(c)  PROVE OwnTypeOK'
  <2>1. calls' \in [Caller -> Calls]
    <3>1. \E e : calls' = [calls EXCEPT ![c] = e]
      BY <1>1, CallKinds DEF Asks, Sends, Ends, Close
    <3> QED  BY <1>1, <3>1, CallEffect DEF OwnTypeOK
  <2>2. audit' \in [Caller -> Seq(Entries)]
    <3>1. ASSUME NEW entry \in Entries,
                 audit' = [audit EXCEPT ![c] = Append(@, entry)]
          PROVE  audit' \in [Caller -> Seq(Entries)]
      <4>1. Append(audit[c], entry) \in Seq(Entries)
        BY DEF OwnTypeOK
      <4> QED  BY <3>1, <4>1 DEF OwnTypeOK
    <3> QED  BY <1>1, <3>1, CallEffect DEF OwnTypeOK
  <2> QED  BY <2>1, <2>2 DEF OwnTypeOK
<1>2. CASE UNCHANGED callVars
  BY <1>2 DEF callVars, OwnTypeOK
<1> QED  BY <1>1, <1>2 DEF CallNext, allVars, callVars

LEMMA RecordStep ==
    TypeOK /\ OwnTypeOK /\ OneRecordPerCall /\ [CallNext]_allVars => OneRecordPerCall'
<1> SUFFICES ASSUME TypeOK, OwnTypeOK, OneRecordPerCall, [CallNext]_allVars
             PROVE  OneRecordPerCall'
  OBVIOUS
<1>1. ASSUME NEW c \in Caller, CallStep(c)  PROVE OneRecordPerCall'
  <2> DEFINE Good(d) == /\ Len(audit[d]) = IF At(d, "ended") THEN 1 ELSE 0
                        /\ calls[d].returned => audit[d] = <<"ok">>
  <2>1. ASSUME NEW d \in Caller, d # c
        PROVE  Good(d)'
    BY <1>1, <2>1, CallEffect DEF OneRecordPerCall, At
  <2>2. Len(audit[c]) = 0 /\ audit[c] \in Seq(Entries)
    BY <1>1, CallEffect DEF OneRecordPerCall, OwnTypeOK
  <2>3. ~calls[c].returned
    <3>1. Len(<<"ok">>) = 1
      OBVIOUS
    <3>2. audit[c] = <<"ok">> => Len(audit[c]) = 1
      BY <3>1, Zenon
    <3> QED  BY <2>2, <3>2 DEF OneRecordPerCall
  <2>4. CASE /\ audit' = audit /\ calls'[c].pc \in {"token", "wire"}
             /\ calls'[c].returned = calls[c].returned
    <3>1. Good(c)'
      BY <2>2, <2>3, <2>4 DEF At
    <3> QED  BY <2>1, <3>1 DEF OneRecordPerCall
  <2>5. ASSUME calls'[c].pc = "ended", NEW entry \in Entries,
               audit' = [audit EXCEPT ![c] = Append(@, entry)],
               calls'[c].returned => entry = "ok"
        PROVE  OneRecordPerCall'
    <3>1. audit'[c] = Append(audit[c], entry)
      BY <2>5 DEF OwnTypeOK
    <3>2. audit[c] = <<>>
      BY <2>2
    <3>3. audit'[c] = <<entry>>
      BY <3>1, <3>2
    <3>4. Good(c)'
      BY <2>5, <3>3 DEF At
    <3> QED  BY <2>1, <3>4 DEF OneRecordPerCall
  <2> QED  BY <1>1, <2>4, <2>5, CallEffect
<1>2. CASE UNCHANGED callVars
  BY <1>2 DEF callVars, OneRecordPerCall, At
<1> QED  BY <1>1, <1>2 DEF CallNext, allVars, callVars

LEMMA WireStep ==
    TypeOK /\ LongAnswers /\ OwnTypeOK /\ WireInv /\ [CallNext]_allVars => WireInv'
<1> SUFFICES ASSUME TypeOK, LongAnswers, OwnTypeOK, WireInv, [CallNext]_allVars
             PROVE  WireInv'
  OBVIOUS
<1>1. ASSUME NEW c \in Caller, CallStep(c)  PROVE WireInv'
  <2> SUFFICES ASSUME NEW d \in Caller, At(d, "wire")'
               PROVE  (/\ now <= calls[d].since + Timeout
                       /\ calls[d].expires > calls[d].since + drift + Timeout)'
    BY DEF WireInv
  <2>1. CASE d # c
    BY <1>1, <2>1, CallEffect DEF WireInv, At
  <2>2. CASE d = c
    <3>1. /\ calls'[c].since = now /\ calls'[c].expires = There + answers[c].left
          /\ answers[c].left > Timeout /\ UNCHANGED <<now, drift>>
      BY <1>1, <2>2, CallEffect DEF At, LongAnswers
    <3>2. answers[c].left \in Int
      BY DEF TypeOK, Answers
    <3> QED  BY <2>2, <3>1, <3>2, Numbers, ProviderAssumption DEF There
  <2> QED  BY <2>1, <2>2
<1>2. CASE CallTick /\ UNCHANGED callVars
  <2> SUFFICES ASSUME NEW d \in Caller, At(d, "wire")
               PROVE  /\ now' <= calls[d].since + Timeout
                      /\ calls[d].expires > calls[d].since + drift' + Timeout
    BY <1>2 DEF WireInv, callVars, At
  <2>1. now < calls[d].since + Timeout /\ now' = now + 1 /\ drift' = drift
    BY <1>2 DEF CallTick, Tick
  <2>2. calls[d].since \in Int
    BY DEF OwnTypeOK, Calls
  <2> QED  BY <2>1, <2>2, Numbers DEF WireInv
<1>3. CASE UNCHANGED <<callVars, now, drift>>
  BY <1>3 DEF callVars, WireInv, At
<1>4. ProviderStep => CallTick \/ UNCHANGED <<now, drift>>
  BY DEF ProviderStep, Resume, GithubMints, ReadResponse, RefreshFails, RefreshDone, Aclose
<1> QED  BY <1>1, <1>2, <1>3, <1>4 DEF CallNext, allVars, vars

LEMMA CallInitInv == CallInit => CallInv
<1> SUFFICES ASSUME CallInit  PROVE CallInv
  OBVIOUS
<1>1. IInv
  BY InitInv DEF CallInit
<1>2. LongAnswers
  BY DEF CallInit, Init, LongAnswers, NoAnswer
<1>3. NoCall \in Calls /\ <<>> \in Seq(Entries) /\ Len(<<>>) = 0
  BY DEF NoCall, Calls, CallPCs, Tools
<1>4. OwnTypeOK
  BY <1>3 DEF CallInit, OwnTypeOK
<1>5. \A c \in Caller : calls[c].pc = "idle" /\ ~calls[c].returned /\ audit[c] = <<>>
  BY DEF CallInit, NoCall
<1> QED  BY <1>1, <1>2, <1>3, <1>4, <1>5 DEF CallInv, OneRecordPerCall, WireInv, At

LEMMA CallInvStep == CallInv /\ [CallNext]_allVars => CallInv'
<1> SUFFICES ASSUME CallInv, [CallNext]_allVars
             PROVE  CallInv'
  OBVIOUS
<1>1. [Next]_vars
  BY StepUsesProvider
<1>2. TypeOK
  BY DEF CallInv, IInv
<1> QED  BY <1>1, <1>2, InvStep, LongAnswersStep, CallTypingStep, RecordStep, WireStep
            DEF CallInv

LEMMA CallInvariance == CallSpec => []CallInv
BY CallInitInv, CallInvStep, PTL DEF CallSpec

-----------------------------------------------------------------------------
(* A call and the body of its tool *)

\* Requests that the tool has use for.
MaxRequests(tool) ==
    IF tool = "list_repos" THEN MaxPages ELSE IF tool = "read_file" THEN 2 ELSE 1

\* At token, requests counts what was answered, and there is one more to make; on
\* the wire, it counts that one too.
Counted(call) ==
    /\ call.pc \in {"idle", "ended"} => call.requests = 0
    /\ call.pc = "token" => call.requests < MaxRequests(call.tool)
    /\ call.pc = "wire" => call.requests > 0 /\ call.requests <= MaxRequests(call.tool)
    /\ call.returned => call.pc = "ended"

BodyInv == \A c \in Caller : Counted(calls[c])

\* Steps that a call can still take: two for each request it may make.
StepsLeft(call) ==
    IF call.pc = "idle" THEN 2 * MaxPages + 5
    ELSE IF call.pc = "token" THEN 2 * (MaxRequests(call.tool) - call.requests)
    ELSE IF call.pc = "wire" THEN 2 * (MaxRequests(call.tool) - call.requests) + 1
    ELSE 0

LEMMA RequestBounds ==
    \A tool : MaxRequests(tool) \in 1..(MaxPages + 2)
BY GuardAssumption DEF MaxRequests

LEMMA NothingYet ==
    ASSUME CallInit, NEW c \in Caller
    PROVE  calls[c].pc = "idle" /\ calls[c].requests = 0 /\ calls[c].returned = FALSE
<1>1. calls[c] = NoCall
  BY DEF CallInit
<1> QED  BY <1>1 DEF NoCall

LEMMA BodyInvInit == CallInit => BodyInv
BY NothingYet DEF BodyInv, Counted

\* A step of the call is a step of the body, or the body does not notice; it brings
\* the call nearer to its end.
BodyStep(c) ==
    /\ Body(c)!Next \/ UNCHANGED Body(c)!vars
    /\ Counted(calls'[c])
    /\ calls'[c] # calls[c] => StepsLeft(calls'[c]) < StepsLeft(calls[c])

\* The last step is always one nearer.
LEMMA LastStep ==
    ASSUME OwnTypeOK, BodyInv, NEW c \in Caller, ~At(c, "ended")
    PROVE  StepsLeft(calls[c]) \in Nat \ {0}
<1>1. calls[c] \in Calls /\ Counted(calls[c])
  BY DEF OwnTypeOK, BodyInv
<1>2. calls[c].pc \in {"idle", "token", "wire"} /\ calls[c].requests \in Nat
  BY <1>1 DEF Calls, CallPCs, At
<1>3. PICK m \in 1..(MaxPages + 2) : m = MaxRequests(calls[c].tool)
  BY RequestBounds
<1> QED  BY <1>1, <1>2, <1>3, GuardAssumption DEF Counted, StepsLeft

LEMMA EndingStep ==
    ASSUME OwnTypeOK, BodyInv, NEW c \in Caller, ~At(c, "ended"),
           NEW entry, NEW returned \in BOOLEAN, Close(c, entry, returned)
    PROVE  BodyStep(c)
<1>1. calls'[c] = [NoCall EXCEPT !.pc = "ended", !.returned = returned]
  BY DEF Close, OwnTypeOK
<1>2. /\ calls'[c].pc = "ended" /\ calls'[c].requests = 0
      /\ calls'[c].returned = returned
  BY <1>1 DEF NoCall
<1>3. calls[c].pc \in CallPCs
  BY DEF OwnTypeOK, Calls
<1>4. Body(c)!End(returned)
  BY <1>2, <1>3 DEF Body!End, Body!Ends, Body!NoTool, At, CallPCs
<1>5. StepsLeft(calls'[c]) = 0
  BY <1>2 DEF StepsLeft
<1> QED  BY <1>2, <1>4, <1>5, LastStep DEF BodyStep, Body!Next, Counted

LEMMA AskingStep ==
    ASSUME OwnTypeOK, BodyInv, NEW c \in Caller, NEW tool \in Tools, AskToken(c, tool),
           \/ At(c, "idle")
           \/ /\ At(c, "wire") /\ tool = calls[c].tool
              /\ calls[c].requests < Body(c)!MaxAnswers(tool)
    PROVE  BodyStep(c)
<1>1. calls'[c] = [calls[c] EXCEPT !.pc = "token", !.tool = tool]
  BY DEF AskToken, OwnTypeOK
<1>2. calls[c] \in Calls
  BY DEF OwnTypeOK
<1>3. /\ calls'[c].pc = "token" /\ calls'[c].tool = tool
      /\ calls'[c].requests = calls[c].requests
      /\ calls'[c].returned = calls[c].returned
  BY <1>1, <1>2 DEF Calls
<1>4. ~calls[c].returned
  BY DEF BodyInv, Counted, At
<1>m. PICK m \in 1..(MaxPages + 2) : m = MaxRequests(tool)
  BY RequestBounds
<1>5. CASE At(c, "idle")
  <2>1. calls[c].requests = 0
    BY <1>5 DEF BodyInv, Counted, At
  <2>2. Body(c)!Ask(tool)
    BY <1>3, <1>5, <2>1 DEF Body!Ask, At
  <2>3. Counted(calls'[c])
    BY <1>3, <1>4, <1>m, <2>1 DEF Counted
  <2>4. StepsLeft(calls'[c]) = 2 * m /\ StepsLeft(calls[c]) = 2 * MaxPages + 5
    BY <1>3, <1>5, <1>m, <2>1 DEF StepsLeft, At
  <2>5. StepsLeft(calls'[c]) < StepsLeft(calls[c])
    BY <2>4, GuardAssumption
  <2> QED  BY <2>2, <2>3, <2>5 DEF BodyStep, Body!Next, Tools
<1>6. CASE /\ At(c, "wire") /\ tool = calls[c].tool
           /\ calls[c].requests < Body(c)!MaxAnswers(tool)
  <2>1. calls[c].requests \in Nat
    BY <1>2 DEF Calls
  <2>2. Body(c)!AskNext
    BY <1>3, <1>6, <2>1 DEF Body!AskNext, At
  <2>3. calls[c].requests < m
    BY <1>6, <1>m DEF Body!MaxAnswers, MaxRequests
  <2>4. Counted(calls'[c])
    BY <1>3, <1>4, <1>m, <2>3 DEF Counted
  <2>5. /\ StepsLeft(calls'[c]) = 2 * (m - calls[c].requests)
        /\ StepsLeft(calls[c]) = 2 * (m - calls[c].requests) + 1
    BY <1>3, <1>6, <1>m DEF StepsLeft, At
  <2>6. StepsLeft(calls'[c]) < StepsLeft(calls[c])
    BY <2>1, <2>5
  <2> QED  BY <2>2, <2>4, <2>6 DEF BodyStep, Body!Next
<1> QED  BY <1>5, <1>6

LEMMA SendingStep ==
    ASSUME OwnTypeOK, BodyInv, NEW c \in Caller, Sends(c)
    PROVE  BodyStep(c)
<1>1. calls'[c] = [calls[c] EXCEPT !.pc = "wire", !.requests = calls[c].requests + 1,
                                   !.since = now, !.expires = There + answers[c].left]
  BY DEF Sends, OwnTypeOK
<1>2. calls[c] \in Calls
  BY DEF OwnTypeOK
<1>3. /\ calls'[c].pc = "wire" /\ calls'[c].tool = calls[c].tool
      /\ calls'[c].requests = calls[c].requests + 1
      /\ calls'[c].returned = calls[c].returned
  BY <1>1, <1>2 DEF Calls
<1>4. At(c, "token")
  BY DEF Sends, HasAnswer
<1>5. calls[c].requests \in Nat
  BY <1>2 DEF Calls
<1>6. UNCHANGED Body(c)!vars
  BY <1>3, <1>4, <1>5 DEF Body!vars, At
<1>7. ~calls[c].returned /\ calls[c].requests < MaxRequests(calls[c].tool)
  BY <1>4 DEF BodyInv, Counted, At
<1>m. PICK m \in 1..(MaxPages + 2) : m = MaxRequests(calls[c].tool)
  BY RequestBounds
<1>8. Counted(calls'[c])
  BY <1>3, <1>5, <1>7, <1>m DEF Counted
<1>9. /\ StepsLeft(calls'[c]) = 2 * (m - (calls[c].requests + 1)) + 1
      /\ StepsLeft(calls[c]) = 2 * (m - calls[c].requests)
  BY <1>3, <1>4, <1>m DEF StepsLeft, At
<1>10. StepsLeft(calls'[c]) < StepsLeft(calls[c])
  BY <1>5, <1>9
<1> QED  BY <1>6, <1>8, <1>10 DEF BodyStep

LEMMA OwnStep ==
    ASSUME OwnTypeOK, BodyInv, NEW c \in Caller, CallStep(c)
    PROVE  BodyStep(c)
<1>1. ASSUME ~At(c, "ended"), NEW outcome, NEW returned \in BOOLEAN,
             End(c, outcome, returned)
      PROVE  BodyStep(c)
  BY <1>1, EndingStep DEF End
<1>2. ASSUME NEW tool \in Tools, NEW role \in Role \cup {NoRole},
             NEW repo \in Repo \cup {NoRepo}, NEW safe \in BOOLEAN,
             CallTool(c, tool, role, repo, safe)
      PROVE  BodyStep(c)
  <2>1. At(c, "idle") /\ ~At(c, "ended")
    BY <1>2 DEF CallTool, At
  <2>2. End(c, "denied", FALSE) \/ End(c, "ok", TRUE) \/ AskToken(c, tool)
    BY <1>2 DEF CallTool
  <2> QED  BY <1>1, <2>1, <2>2, AskingStep
<1>3. CASE SendRequest(c)
  <2>1. ~At(c, "ended")
    BY <1>3 DEF SendRequest, HasAnswer, At
  <2>2. Sends(c) \/ End(c, "error", FALSE)
    BY <1>3 DEF SendRequest, Sends, vars
  <2> QED  BY <1>1, <2>1, <2>2, SendingStep
<1>4. CASE HandleResponse(c)
  <2>1. At(c, "wire") /\ ~At(c, "ended")
    BY <1>4 DEF HandleResponse, At
  <2>2. CASE /\ calls[c].tool = "list_repos" /\ calls[c].requests < MaxPages
             /\ AskToken(c, "list_repos")
    <3>1. "list_repos" \in Tools /\ Body(c)!MaxAnswers("list_repos") = MaxPages
      BY DEF Tools, Body!MaxAnswers
    <3> QED  BY <2>1, <2>2, <3>1, AskingStep
  <2>3. CASE /\ calls[c].tool = "read_file" /\ calls[c].requests < 2
             /\ AskToken(c, "read_file")
    <3>1. "read_file" \in Tools /\ Body(c)!MaxAnswers("read_file") = 2
      BY DEF Tools, Body!MaxAnswers
    <3> QED  BY <2>1, <2>3, <3>1, AskingStep
  <2>4. CASE End(c, "ok", TRUE) \/ End(c, "error", FALSE)
    BY <1>1, <2>1, <2>4
  <2> QED  BY <1>4, <2>2, <2>3, <2>4 DEF HandleResponse
<1>5. CASE CancelCall(c)
  <2>1. ~At(c, "ended") /\ End(c, "ok", FALSE)
    BY <1>5 DEF CancelCall, At
  <2> QED  BY <1>1, <2>1
<1> QED  BY <1>2, <1>3, <1>4, <1>5 DEF CallStep

LEMMA BodiesStep ==
    ASSUME TypeOK, OwnTypeOK, BodyInv, [CallNext]_allVars
    PROVE  BodyInv' /\ \A d \in Caller : BodyStep(d)
<1>1. ASSUME NEW d \in Caller, calls'[d] = calls[d]
      PROVE  BodyStep(d)
  <2>1. UNCHANGED Body(d)!vars
    BY <1>1 DEF Body!vars, At
  <2> QED  BY <1>1, <2>1 DEF BodyStep, BodyInv
<1>2. ASSUME NEW d \in Caller  PROVE BodyStep(d)
  <2>1. ASSUME NEW c \in Caller, CallStep(c)  PROVE BodyStep(d)
    BY <1>1, <2>1, CallEffect, OwnStep
  <2>2. CASE UNCHANGED calls
    BY <1>1, <2>2
  <2> QED  BY <2>1, <2>2 DEF CallNext, allVars, callVars
<1>3. BodyInv'
  BY <1>2 DEF BodyStep, BodyInv
<1> QED  BY <1>2, <1>3

LEMMA BodiesInvariance == CallSpec => [](TypeOK /\ OwnTypeOK /\ BodyInv)
<1>1. CallInv => TypeOK /\ OwnTypeOK
  BY DEF CallInv, IInv
<1>2. TypeOK /\ OwnTypeOK /\ BodyInv /\ [CallNext]_allVars => BodyInv'
  BY BodiesStep
<1> QED  BY <1>1, <1>2, BodyInvInit, CallInvariance, PTL DEF CallSpec

LEMMA BodiesBegin == CallInit => \A c \in Caller : Body(c)!Init
BY NothingYet DEF At, Body!Init, Body!NoTool

-----------------------------------------------------------------------------
(* The theorems *)

\* CallTypeOK, for any number of concurrent calls and pages: the state of the
\* calls and of the provider under them stays well formed.
THEOREM CallsTyped == CallSpec => []CallTypeOK
<1>1. CallInv => CallTypeOK
  BY DEF CallInv, IInv, CallTypeOK
<1> QED  BY <1>1, CallInvariance, PTL

\* OneRecordPerCall: the wrapper of guard.py makes one audit record for each
\* call, however the call ends, and returns a result only with its record.
THEOREM RecordedOnce == CallSpec => []OneRecordPerCall
<1>1. CallInv => OneRecordPerCall
  BY DEF CallInv
<1> QED  BY <1>1, CallInvariance, PTL

\* TokenOutlivesRequest: a request of client.py never runs past the expiry of
\* the token it was sent with, on GitHub's clock.
THEOREM TokensOutliveRequests == CallSpec => []TokenOutlivesRequest
<1>1. CallInv => TokenOutlivesRequest
  <2> SUFFICES ASSUME CallInv, NEW c \in Caller, At(c, "wire")
               PROVE  There < calls[c].expires
    BY DEF TokenOutlivesRequest
  <2>1. TypeOK
    BY DEF CallInv, IInv
  <2>2. calls[c].since \in Int /\ calls[c].expires \in Int
    BY DEF CallInv, OwnTypeOK, Calls
  <2> QED  BY <2>1, <2>2, Numbers DEF CallInv, WireInv, There
<1> QED  BY <1>1, CallInvariance, PTL

\* UsesItsParts: whatever the coroutines of the calls do to the provider (guard.py,
\* client.py), TokenProvider allows; and each of them makes the requests of a
\* ToolBody, and ends as one.
THEOREM CallsUseTheirParts == CallSpec => UsesItsParts
<1>1. CallInit => Init /\ \A c \in Caller : Body(c)!Init
  BY BodiesBegin DEF CallInit
<1>4. TypeOK /\ OwnTypeOK /\ BodyInv /\ [CallNext]_allVars
          => [\A c \in Caller : [Body(c)!Next]_(Body(c)!vars)]_allVars
  BY BodiesStep DEF BodyStep
<1>5. CallSpec => Spec
  BY <1>1, StepUsesProvider, PTL DEF CallSpec, Spec
<1>7. CallSpec => [][\A c \in Caller : [Body(c)!Next]_(Body(c)!vars)]_allVars
  BY <1>4, BodiesInvariance, PTL DEF CallSpec
<1>8. CallSpec => \A c \in Caller : Body(c)!Init
  BY <1>1 DEF CallSpec
<1> QED  BY <1>5, <1>7, <1>8 DEF UsesItsParts

RunsDown(c) ==
    /\ calls[c].requests <= MaxRequests(calls[c].tool)
    /\ StepsLeft(calls[c]) \in Nat
    /\ calls'[c] # calls[c] => StepsLeft(calls'[c]) < StepsLeft(calls[c])

\* However long a Link header goes on (client.py, list_installation_repositories)
\* and whatever the calls wait for: whenever the state of a call changes, fewer
\* steps are left to it, and it has made no more requests than its tool has use for.
THEOREM CallsRunDown ==
    CallSpec => [][\A c \in Caller : RunsDown(c)]_allVars
<1>1. ASSUME TypeOK, OwnTypeOK, BodyInv, [CallNext]_allVars, NEW c \in Caller
      PROVE  RunsDown(c)
  <2>1. StepsLeft(calls[c]) \in Nat
    <3>1. At(c, "ended") => StepsLeft(calls[c]) = 0
      BY DEF At, StepsLeft
    <3> QED  BY <1>1, <3>1, LastStep
  <2>2. calls[c].requests <= MaxRequests(calls[c].tool)
    <3>1. calls[c] \in Calls /\ Counted(calls[c])
      BY <1>1 DEF OwnTypeOK, BodyInv
    <3>2. calls[c].pc \in CallPCs /\ calls[c].requests \in Nat
      BY <3>1 DEF Calls
    <3>3. PICK m \in 1..(MaxPages + 2) : m = MaxRequests(calls[c].tool)
      BY RequestBounds
    <3> QED  BY <3>1, <3>2, <3>3 DEF Counted, CallPCs
  <2> QED  BY <1>1, <2>1, <2>2, BodiesStep DEF BodyStep, RunsDown
<1>2. TypeOK /\ OwnTypeOK /\ BodyInv /\ [CallNext]_allVars
          => [\A c \in Caller : RunsDown(c)]_allVars
  BY <1>1
<1> QED  BY <1>2, BodiesInvariance, PTL DEF CallSpec

=============================================================================
