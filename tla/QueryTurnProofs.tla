----------------------------- MODULE QueryTurnProofs -----------------------------
(* The turn of QueryTurn, for every text, limit and number of requests. *)
EXTENDS QueryTurn, ReplyFormatProofs

-----------------------------------------------------------------------------
(* Types *)

\* What the policy makes of a text is a text.
LEMMA PolicyType ==
    ASSUME NEW text \in Seq(Chars), NEW limit \in Nat
    PROVE  ApplyResponseLengthPolicy(text, limit) \in Seq(Chars)
<1>1. CASE limit <= 0
  BY <1>1 DEF ApplyResponseLengthPolicy
<1>2. CASE limit > 0 /\ Len(text) <= limit
  BY <1>2 DEF ApplyResponseLengthPolicy, Fits
<1>3. CASE limit > 0 /\ Len(text) > limit /\ NoticeLength >= limit
  <2>1. ApplyResponseLengthPolicy(text, limit) = BackOffCombiningBoundary(limit, text)
    BY <1>3 DEF ApplyResponseLengthPolicy, Fits
  <2> QED BY <1>3, <2>1, BackedOff
<1>4. CASE Len(text) > limit /\ NoticeLength < limit
  <2>1. Content(text, limit) \in Seq(Chars)
    BY <1>4, ContentInBudget
  <2>2. ApplyResponseLengthPolicy(text, limit) = Content(text, limit) \o TruncationNotice
    BY <1>4, CutReply
  <2> QED BY <2>1, <2>2, NoticeType, Joined
<1> QED BY <1>1, <1>2, <1>3, <1>4, FormatAssumption

LEMMA ReplyType ==
    TypeOK => Reply(ResponseLimit) \in Seq(Chars) /\ Len(Reply(ResponseLimit)) <= ResponseLimit
BY PolicyType, PolicyInLimit, TurnAssumption DEF TypeOK, Reply

LEMMA NoticeIsMessage == \A kind \in MessageKinds : Notice(kind) \in Messages
<1>1. <<>> \in Seq(Chars)
  OBVIOUS
<1> QED BY <1>1 DEF Notice, Messages

LEMMA AskReasonType == \A f \in Failures : AskReason(f) \in AskReasons
<1> SUFFICES ASSUME NEW f \in Failures PROVE AskReason(f) \in AskReasons
  OBVIOUS
<1>1. StatusReason(f) \in AskReasons
  BY DEF StatusReason, AskReasons
<1>2. f.kind \in {"timeout", "connection", "invalid", "status"}
  BY DEF Failures
<1> QED BY <1>1, <1>2 DEF AskReason, AskReasons

LEMMA AdviceType == \A reason \in AskReasons :
    Advice(reason) \in {"spend_limit", "buy_credit", "ask_admin", "retry_later"}
BY DEF Advice, AskReasons

LEMMA PostReasonType ==
    \A reply \in SlackReplies : PostReason(reply) \in PostReasons \cup {"none"}
BY DEF PostReason, PostReasons, SlackReplies, KnownErrors

LEMMA EndingType ==
    ASSUME NEW m \in Messages, NEW o \in Outcomes, NEW r \in Reasons,
           NEW e \in BOOLEAN, NEW u \in BOOLEAN
    PROVE  /\ Ending(m, o, r, e, u) \in Endings
           /\ Ending(m, o, r, e, u).message = m
           /\ Ending(m, o, r, e, u).outcome = o
           /\ Ending(m, o, r, e, u).reason = r
           /\ Ending(m, o, r, e, u).error = e
           /\ Ending(m, o, r, e, u).usage = u
BY DEF Ending, Endings

LEMMA RecordType ==
    ASSUME NEW e \in Endings, NEW f \in PostReasons \cup {"none"}
    PROVE  RecordOf(e, f) \in Records
<1>1. e.outcome \in Outcomes /\ e.reason \in Reasons /\ e.error \in BOOLEAN /\ e.usage \in BOOLEAN
  BY DEF Endings
<1>2. f \in Reasons
  BY DEF Reasons
<1>3. "error" \in Outcomes
  BY DEF Outcomes
<1> QED BY <1>1, <1>2, <1>3 DEF RecordOf, Records

LEMMA NoRecordType == NoRecord \in Records
BY DEF NoRecord, Records, Outcomes, Reasons

LEMMA Appended ==
    ASSUME NEW S, NEW s \in Seq(S), NEW m \in S
    PROVE  /\ Append(s, m) \in Seq(S)
           /\ Len(Append(s, m)) = Len(s) + 1
           /\ Append(s, m)[Len(s) + 1] = m
           /\ \A i \in 1..Len(s) : Append(s, m)[i] = s[i]
BY AppendProperties

-----------------------------------------------------------------------------
(* The inductive invariant *)

\* What may stand in the thread before the final message.
Opening == {<<>>, <<Notice("acknowledgement")>>}

\* The arguments of _post_and_finish agree with what came from Claude.
EndingAgrees ==
    /\ ending.message.kind = "answer" <=> ending.outcome = "ok"
    /\ ending.error => ending.outcome = "error"
    /\ ending.message.kind = "answer" =>
          /\ heard.kind = "response" /\ heard.says # "refusal"
          /\ Len(ending.message.text) <= ResponseLimit
    /\ ending.message.kind = "retry_later" => CuredByWaiting(heard)
    /\ ending.message.kind = "generic_error" => ending.error
    /\ IF ending.error THEN heard \notin Failures /\ ending.reason = "none"
       ELSE ending.outcome = "error" =>
               heard \in Failures /\ ending.reason = AskReason(heard)
    /\ ending.usage <=> heard.kind = "response" /\ ~ending.error

\* The final message was taken, or was not; one that is known to be taken was.
FinalTaken == \E before \in Opening : thread = Append(before, ending.message)

ThreadAgrees ==
    /\ thread \in Opening \/ FinalTaken
    /\ failed = "none" => FinalTaken
    /\ failed = "none" /\ ending.message.kind = "answer" => ending.message.text # <<>>

PhaseAgrees ==
    /\ stage \in {"start", "ask"} => heard = Nothing
    /\ stage = "start" => attempt = 0 /\ thread = <<>>
    /\ stage = "ask" => attempt >= 1
    /\ stage \in {"start", "ask", "post"} => thread \in Opening
    /\ stage \in {"post", "emit", "done"} => EndingAgrees
    /\ stage \in {"emit", "done"} => ThreadAgrees
    /\ record.written => stage = "done" /\ record = RecordOf(ending, failed)

TurnInv == TurnTypeOK /\ PhaseAgrees

-----------------------------------------------------------------------------
(* Types are kept *)

LEMMA InitTyped == TurnInit => TurnTypeOK
<1> SUFFICES ASSUME TurnInit PROVE TurnTypeOK
  OBVIOUS
<1>1. TypeOK
  BY TextTyped DEF TurnInit
<1>2. attempt \in 0..MaxAttempts 
  BY TurnAssumption DEF TurnInit
<1>3. ending \in Endings
  <2>1. /\ Notice("generic_error") \in Messages /\ "error" \in Outcomes /\ "none" \in Reasons
        /\ FALSE \in BOOLEAN
    BY NoticeIsMessage DEF MessageKinds, Outcomes, Reasons
  <2>2. NoEnding \in Endings
    BY <2>1, EndingType DEF NoEnding
  <2> QED BY <2>2 DEF TurnInit
<1>4. record \in Records /\ thread \in Seq(Messages)
  BY NoRecordType DEF TurnInit
<1> QED BY <1>1, <1>2, <1>3, <1>4 DEF TurnInit, TurnTypeOK, Stages

\* The fixed endings.
LEMMA NoticeEnding ==
    ASSUME NEW kind \in MessageKinds, NEW o \in Outcomes, NEW r \in Reasons,
           NEW e \in BOOLEAN, NEW u \in BOOLEAN
    PROVE  Ending(Notice(kind), o, r, e, u) \in Endings
<1>1. Notice(kind) \in Messages
  BY NoticeIsMessage
<1> QED BY <1>1, EndingType

LEMMA ThreadGrows ==
    ASSUME TurnTypeOK, NEW m \in Messages
    PROVE  Append(thread, m) \in Seq(Messages)
BY AppendProperties DEF TurnTypeOK

LEMMA DropTyped == DropText => TypeOK'
BY DEF DropText, TypeOK

LEMMA StepTyped == TurnTypeOK /\ [TurnNext]_turnVars => TurnTypeOK'
<1> SUFFICES ASSUME TurnTypeOK, [TurnNext]_turnVars PROVE TurnTypeOK'
  OBVIOUS
<1>t. MaxAttempts \in Nat \ {0}
  BY TurnAssumption
<1>1. CASE Deny
  <2>1. PICK reason \in {"user_unregistered", "user_unidentified"} :
            EndWith(Ending(Notice("denial"), "denied", reason, FALSE, FALSE))
    BY <1>1 DEF Deny
  <2>2. "denial" \in MessageKinds /\ "denied" \in Outcomes /\ reason \in Reasons
    BY DEF MessageKinds, Outcomes, Reasons
  <2>3. ending' \in Endings
    BY <2>1, <2>2, NoticeEnding DEF EndWith
  <2> QED BY <1>1, <2>1, <2>3 DEF Deny, EndWith, TurnTypeOK, TypeOK, Stages
<1>2. CASE Coalesce
  <2>1. "acknowledgement" \in MessageKinds /\ "denied" \in Outcomes
        /\ "coalesced_in_progress" \in Reasons
    BY DEF MessageKinds, Outcomes, Reasons
  <2>2. ending' \in Endings
    BY <1>2, <2>1, NoticeEnding DEF Coalesce, EndWith
  <2> QED BY <1>2, <2>2 DEF Coalesce, EndWith, TurnTypeOK, TypeOK, Stages
<1>3. CASE Acknowledge
  <2>1. thread' \in Seq(Messages)
    <3>1. Notice("acknowledgement") \in Messages
      BY NoticeIsMessage DEF MessageKinds
    <3> QED BY <1>3, <3>1, ThreadGrows DEF Acknowledge, TurnTypeOK
  <2>3. attempt' \in 0..MaxAttempts
    BY <1>3, <1>t DEF Acknowledge
  <2> QED BY <1>3, <2>1, <2>3 DEF Acknowledge, TurnTypeOK, TypeOK, Stages
<1>4. CASE ClaudeWrites
  <2>1. TypeOK'
    BY <1>4, WriteKeepsType DEF ClaudeWrites, TurnTypeOK
  <2> QED BY <1>4, <2>1 DEF ClaudeWrites, TurnTypeOK
<1>5. CASE AskAgain
  <2>1. TypeOK'
    BY <1>5, DropTyped DEF AskAgain
  <2>3. attempt' \in 0..MaxAttempts
    BY <1>5, <1>t DEF AskAgain, TriesAgain, TurnTypeOK
  <2> QED BY <1>5, <2>1, <2>3 DEF AskAgain, TurnTypeOK
<1>6. CASE AskFails
  <2>1. TypeOK'
    BY <1>6, DropTyped DEF AskFails
  <2>3. PICK f \in Failures :
            /\ heard' = f
            /\ EndWith(Ending(Notice(Advice(AskReason(f))), "error", AskReason(f), FALSE, FALSE))
    BY <1>6 DEF AskFails
  <2>4. AskReason(f) \in AskReasons
    BY AskReasonType
  <2>5. Advice(AskReason(f)) \in MessageKinds /\ "error" \in Outcomes /\ AskReason(f) \in Reasons
    BY <2>4, AdviceType DEF MessageKinds, Outcomes, Reasons
  <2>6. ending' \in Endings
    BY <2>3, <2>5, NoticeEnding DEF EndWith
  <2> QED BY <1>6, <2>1, <2>3, <2>6 DEF AskFails, EndWith, TurnTypeOK, Stages
<1>7. CASE AskSucceeds
  <2>1. TypeOK'
    BY <1>7, DropTyped DEF AskSucceeds
  <2>3. PICK response \in Responses :
            /\ heard' = response
            /\ EndWith(IF IsRefused(response.says)
                       THEN Ending(Notice("refusal"), "denied", "claude_refusal", FALSE, TRUE)
                       ELSE Ending([kind |-> "answer", text |-> Reply(ResponseLimit)],
                                   "ok", "none", FALSE, TRUE))
    BY <1>7 DEF AskSucceeds
  <2>4. Ending(Notice("refusal"), "denied", "claude_refusal", FALSE, TRUE) \in Endings
    <3>1. "refusal" \in MessageKinds /\ "denied" \in Outcomes /\ "claude_refusal" \in Reasons
      BY DEF MessageKinds, Outcomes, Reasons
    <3> QED BY <3>1, NoticeEnding
  <2>5. Ending([kind |-> "answer", text |-> Reply(ResponseLimit)], "ok", "none", FALSE, TRUE)
            \in Endings
    <3>1. Reply(ResponseLimit) \in Seq(Chars)
      BY ReplyType DEF TurnTypeOK
    <3>2. [kind |-> "answer", text |-> Reply(ResponseLimit)] \in Messages
      BY <3>1 DEF Messages, MessageKinds
    <3>3. "ok" \in Outcomes /\ "none" \in Reasons
      BY DEF Outcomes, Reasons
    <3> QED BY <3>2, <3>3, EndingType
  <2>6. ending' \in Endings
    BY <2>3, <2>4, <2>5 DEF EndWith
  <2> QED BY <1>7, <2>1, <2>3, <2>6 DEF AskSucceeds, EndWith, TurnTypeOK, Stages
<1>8. CASE Raise
  <2>1. TypeOK'
    BY <1>8, DropTyped DEF Raise
  <2>3. "generic_error" \in MessageKinds /\ "error" \in Outcomes /\ "none" \in Reasons
    BY DEF MessageKinds, Outcomes, Reasons
  <2>4. ending' \in Endings
    BY <1>8, <2>3, NoticeEnding DEF Raise, Unexpected, EndWith
  <2> QED BY <1>8, <2>1, <2>4 DEF Raise, Unexpected, EndWith, TurnTypeOK, Stages
<1>9. CASE Post
  <2>1. PICK x \in Exchanges(ending.message) :
            /\ thread' = IF x.accepted THEN Append(thread, ending.message) ELSE thread
            /\ failed' = PostReason(x.reply)
    BY <1>9 DEF Post
  <2>2. thread' \in Seq(Messages)
    <3>1. ending.message \in Messages
      BY DEF TurnTypeOK, Endings
    <3> QED BY <2>1, <3>1, ThreadGrows DEF TurnTypeOK
  <2>3. failed' \in PostReasons \cup {"none"}
    <3>1. x.reply \in SlackReplies
      BY DEF Exchanges
    <3> QED BY <2>1, <3>1, PostReasonType
  <2> QED BY <1>9, <2>2, <2>3 DEF Post, TurnTypeOK, TypeOK, Stages
<1>10. CASE Emit
  <2>1. record' \in Records
    BY <1>10, RecordType, NoRecordType DEF Emit, TurnTypeOK
  <2> QED BY <1>10, <2>1 DEF Emit, TurnTypeOK, TypeOK, Stages
<1>11. CASE UNCHANGED turnVars
  BY <1>11 DEF turnVars, TurnTypeOK, TypeOK
<1> QED BY <1>1, <1>2, <1>3, <1>4, <1>5, <1>6, <1>7, <1>8, <1>9, <1>10, <1>11 DEF TurnNext

\* Every variable of the turn keeps its type, for any texts and limits.
THEOREM TurnTyped == TurnSpec => []TurnTypeOK
BY InitTyped, StepTyped, PTL DEF TurnSpec

-----------------------------------------------------------------------------
(* The phases agree *)

LEMMA EndingFields ==
    ASSUME NEW m, NEW o, NEW r, NEW e, NEW u
    PROVE  /\ Ending(m, o, r, e, u).message = m
           /\ Ending(m, o, r, e, u).outcome = o
           /\ Ending(m, o, r, e, u).error = e
           /\ Ending(m, o, r, e, u).usage = u
BY DEF Ending

\* What is told to be worth another try is cured by waiting.
LEMMA AdviceFollowsCause ==
    ASSUME NEW f \in Failures, Advice(AskReason(f)) = "retry_later"
    PROVE  CuredByWaiting(f)
<1>1. f.kind \in {"timeout", "connection", "invalid", "status"}
  BY DEF Failures
<1>2. CASE f.kind \in {"timeout", "connection"}
  BY <1>2 DEF CuredByWaiting
<1>3. CASE f.kind = "invalid"
  BY <1>3 DEF AskReason, Advice
<1>4. CASE f.kind = "status"
  <2>1. AskReason(f) = StatusReason(f)
    BY <1>4 DEF AskReason
  <2>2. StatusReason(f) \in {"rate_limited", "server_error"}
    BY <2>1 DEF StatusReason, Advice
  <2> QED BY <2>2 DEF StatusReason, CuredByWaiting
<1> QED BY <1>1, <1>2, <1>3, <1>4

LEMMA Apart ==
    /\ \A f \in Failures : f.kind # "response"
    /\ \A r \in Responses : r.kind = "response"
    /\ Nothing.kind = "nothing"
    /\ Nothing \notin Failures
<1>1. \A f \in Failures : f.kind # "response"
  <2> SUFFICES ASSUME NEW f \in Failures PROVE f.kind # "response"
    OBVIOUS
  <2>1. f.kind \in {"timeout", "connection", "invalid", "status"}
    BY DEF Failures
  <2> QED BY <2>1
<1>2. \A r \in Responses : r.kind = "response"
  BY DEF Responses
<1>3. Nothing.kind = "nothing"
  BY DEF Nothing
<1>4. Nothing \notin Failures
  <2>1. \A f \in Failures : f.kind # "nothing"
    BY DEF Failures
  <2> QED BY <1>3, <2>1
<1> QED BY <1>1, <1>2, <1>3, <1>4

\* The endings: a message of fixed wording without a response from Claude, a
\* refusal, an exception, an answer.
LEMMA NoticeAgrees ==
    ASSUME NEW kind, kind # "answer", NEW o, o # "ok", NEW r,
           ending' = Ending(Notice(kind), o, r, FALSE, FALSE),
           heard'.kind # "response",
           kind = "retry_later" => CuredByWaiting(heard'),
           kind # "generic_error",
           o = "error" => heard' \in Failures /\ r = AskReason(heard')
    PROVE  EndingAgrees'
<1>1. ending'.message = Notice(kind) /\ ending'.outcome = o /\ ending'.reason = r
  BY DEF Ending
<1>u. ~ending'.usage /\ ~ending'.error
  BY DEF Ending
<1>2. ending'.message.kind = kind
  <2>1. Notice(kind).kind = kind
    BY DEF Notice
  <2> QED BY <1>1, <2>1
<1>3. ending'.usage <=> heard'.kind = "response" /\ ~ending'.error
  BY <1>u, Zenon
<1>4. /\ ending'.error => ending'.outcome = "error"
      /\ IF ending'.error THEN heard' \notin Failures /\ ending'.reason = "none"
         ELSE ending'.outcome = "error" =>
                 heard' \in Failures /\ ending'.reason = AskReason(heard')
  BY <1>u, <1>1
<1> QED BY <1>1, <1>2, <1>3, <1>4 DEF EndingAgrees, CuredByWaiting

LEMMA RefusalAgrees ==
    ASSUME ending' = Ending(Notice("refusal"), "denied", "claude_refusal", FALSE, TRUE),
           heard'.kind = "response"
    PROVE  EndingAgrees'
<1>1. ending'.message = Notice("refusal") /\ ending'.outcome = "denied"
  BY DEF Ending
<1>u. ~ending'.error /\ ending'.usage
  BY DEF Ending
<1>2. ending'.message.kind = "refusal"
  <2>1. Notice("refusal").kind = "refusal"
    BY DEF Notice
  <2> QED BY <1>1, <2>1
<1>3. ending'.usage <=> heard'.kind = "response" /\ ~ending'.error
  BY <1>u, Zenon
<1>4. /\ ending'.error => ending'.outcome = "error"
      /\ IF ending'.error THEN heard' \notin Failures /\ ending'.reason = "none"
         ELSE ending'.outcome = "error" =>
                 heard' \in Failures /\ ending'.reason = AskReason(heard')
  BY <1>u, <1>1
<1> QED BY <1>1, <1>2, <1>3, <1>4 DEF EndingAgrees

LEMMA ExceptionAgrees ==
    ASSUME ending' = Ending(Notice("generic_error"), "error", "none", TRUE, FALSE),
           heard' \notin Failures
    PROVE  EndingAgrees'
<1>1. /\ ending'.message = Notice("generic_error") /\ ending'.outcome = "error"
      /\ ending'.reason = "none"
  BY DEF Ending
<1>u. ending'.error /\ ~ending'.usage
  BY DEF Ending
<1>2. ending'.message.kind = "generic_error"
  <2>1. Notice("generic_error").kind = "generic_error"
    BY DEF Notice
  <2> QED BY <1>1, <2>1
<1>3. ending'.usage <=> heard'.kind = "response" /\ ~ending'.error
  BY <1>u, Zenon
<1>4. /\ ending'.error => ending'.outcome = "error"
      /\ IF ending'.error THEN heard' \notin Failures /\ ending'.reason = "none"
         ELSE ending'.outcome = "error" =>
                 heard' \in Failures /\ ending'.reason = AskReason(heard')
  BY <1>u, <1>1
<1> QED BY <1>1, <1>2, <1>3, <1>4 DEF EndingAgrees

LEMMA AnswerAgrees ==
    ASSUME NEW m, m.kind = "answer", Len(m.text) <= ResponseLimit,
           ending' = Ending(m, "ok", "none", FALSE, TRUE),
           heard'.kind = "response", heard'.says # "refusal"
    PROVE  EndingAgrees'
<1>1. ending'.message = m /\ ending'.outcome = "ok"
  BY DEF Ending
<1>u. ~ending'.error /\ ending'.usage
  BY DEF Ending
<1>2. ending'.usage <=> heard'.kind = "response" /\ ~ending'.error
  BY <1>u, Zenon
<1>4. /\ ending'.error => ending'.outcome = "error"
      /\ IF ending'.error THEN heard' \notin Failures /\ ending'.reason = "none"
         ELSE ending'.outcome = "error" =>
                 heard' \in Failures /\ ending'.reason = AskReason(heard')
  BY <1>u, <1>1
<1> QED BY <1>1, <1>2, <1>4 DEF EndingAgrees

LEMMA InitAgrees == TurnInit => PhaseAgrees
BY DEF TurnInit, PhaseAgrees, Opening, NoRecord

LEMMA StepAgrees == TurnInv /\ [TurnNext]_turnVars => PhaseAgrees'
<1> SUFFICES ASSUME TurnInv, [TurnNext]_turnVars PROVE PhaseAgrees'
  OBVIOUS
<1>t. TurnTypeOK /\ PhaseAgrees
  BY DEF TurnInv
\* Before the message is posted there is no record.
<1>r. stage \in {"start", "ask", "post"} => ~record.written
  BY <1>t DEF PhaseAgrees
<1>1. CASE Deny
  <2>1. PICK reason \in {"user_unregistered", "user_unidentified"} :
            ending' = Ending(Notice("denial"), "denied", reason, FALSE, FALSE)
    BY <1>1 DEF Deny, EndWith
  <2>2. /\ stage = "start" /\ stage' = "post" /\ heard' = Nothing /\ thread' \in Opening
        /\ ~record'.written
    BY <1>1, <1>t, <1>r DEF Deny, EndWith, PhaseAgrees
  <2>3. EndingAgrees'
    <3>1. heard'.kind # "response"
      BY <2>2, Apart
    <3>2. /\ "denial" # "answer" /\ "denied" # "ok" /\ "denial" # "retry_later"
          /\ "denial" # "generic_error" /\ "denied" # "error"
      OBVIOUS
    <3> QED BY <2>1, <3>1, <3>2, NoticeAgrees, Zenon
  <2> QED BY <2>2, <2>3 DEF PhaseAgrees
<1>2. CASE Coalesce
  <2>1. ending' = Ending(Notice("acknowledgement"), "denied", "coalesced_in_progress", FALSE, FALSE)
    BY <1>2 DEF Coalesce, EndWith
  <2>2. /\ stage = "start" /\ stage' = "post" /\ heard' = Nothing /\ thread' \in Opening
        /\ ~record'.written
    BY <1>2, <1>t, <1>r DEF Coalesce, EndWith, PhaseAgrees
  <2>3. EndingAgrees'
    <3>1. heard'.kind # "response"
      BY <2>2, Apart
    <3>2. /\ "acknowledgement" # "answer" /\ "denied" # "ok"
          /\ "acknowledgement" # "retry_later"
          /\ "acknowledgement" # "generic_error" /\ "denied" # "error"
      OBVIOUS
    <3> QED BY <2>1, <3>1, <3>2, NoticeAgrees, Zenon
  <2> QED BY <2>2, <2>3 DEF PhaseAgrees
<1>3. CASE Acknowledge
  <2>1. stage = "start" /\ stage' = "ask" /\ heard' = Nothing /\ attempt' = 1 /\ ~record'.written
    BY <1>3, <1>t, <1>r DEF Acknowledge, PhaseAgrees
  <2>2. thread' \in Opening
    <3>1. thread = <<>>
      BY <2>1, <1>t DEF PhaseAgrees
    <3>2. Append(<<>>, Notice("acknowledgement")) = <<Notice("acknowledgement")>>
      OBVIOUS
    <3> QED BY <1>3, <3>1, <3>2 DEF Acknowledge, Opening
  <2> QED BY <2>1, <2>2 DEF PhaseAgrees
<1>4. CASE ClaudeWrites
  BY <1>4, <1>t, <1>r DEF ClaudeWrites, PhaseAgrees
<1>5. CASE AskAgain
  <2>1. stage = "ask" /\ stage' = "ask" /\ heard' = heard /\ thread' = thread /\ record' = record
        /\ attempt' = attempt + 1
    BY <1>5 DEF AskAgain
  <2>2. attempt' >= 1
    BY <2>1, TurnAssumption, <1>t DEF TurnTypeOK
  <2> QED BY <2>1, <2>2, <1>t, <1>r DEF PhaseAgrees
<1>6. CASE AskFails
  <2>1. PICK f \in Failures :
            /\ heard' = f
            /\ ending' = Ending(Notice(Advice(AskReason(f))), "error", AskReason(f), FALSE, FALSE)
    BY <1>6 DEF AskFails, EndWith
  <2>2. stage = "ask" /\ stage' = "post" /\ thread' \in Opening /\ ~record'.written
    BY <1>6, <1>t, <1>r DEF AskFails, EndWith, PhaseAgrees
  <2>3. /\ Advice(AskReason(f)) \in {"spend_limit", "buy_credit", "ask_admin", "retry_later"}
        /\ Notice(Advice(AskReason(f))).kind = Advice(AskReason(f))
    BY AskReasonType, AdviceType DEF Notice
  <2>4. EndingAgrees'
    BY <2>1, <2>3, Apart, AdviceFollowsCause, NoticeAgrees
  <2> QED BY <2>2, <2>4 DEF PhaseAgrees
<1>7. CASE AskSucceeds
  <2> DEFINE text == Reply(ResponseLimit)
  <2>1. PICK response \in Responses :
            /\ heard' = response
            /\ ending' = IF IsRefused(response.says)
                         THEN Ending(Notice("refusal"), "denied", "claude_refusal", FALSE, TRUE)
                         ELSE Ending([kind |-> "answer", text |-> text], "ok", "none", FALSE, TRUE)
    BY <1>7 DEF AskSucceeds, EndWith
  <2>2. stage = "ask" /\ stage' = "post" /\ thread' \in Opening /\ ~record'.written
    BY <1>7, <1>t, <1>r DEF AskSucceeds, EndWith, PhaseAgrees
  <2>3. Len(text) <= ResponseLimit
    BY <1>t, ReplyType DEF TurnTypeOK
  <2> HIDE DEF text
  <2>4. CASE IsRefused(response.says)
    <3>1. EndingAgrees'
      BY <2>1, <2>4, Apart, RefusalAgrees
    <3> QED BY <2>2, <3>1 DEF PhaseAgrees
  <2>5. CASE ~IsRefused(response.says)
    <3>1. response.says # "refusal"
      BY <2>5 DEF IsRefused
    <3> DEFINE m == [kind |-> "answer", text |-> text]
    <3>3. m.kind = "answer" /\ Len(m.text) <= ResponseLimit
      BY <2>3
    <3>4. ending' = Ending(m, "ok", "none", FALSE, TRUE)
      BY <2>1, <2>5
    <3> HIDE DEF m
    <3>2. EndingAgrees'
      BY <2>1, <3>1, <3>3, <3>4, Apart, AnswerAgrees
    <3> QED BY <2>2, <3>2 DEF PhaseAgrees
  <2> QED BY <2>4, <2>5
<1>8. CASE Raise
  <2>1. ending' = Ending(Notice("generic_error"), "error", "none", TRUE, FALSE) /\ stage' = "post"
    BY <1>8 DEF Raise, Unexpected, EndWith
  <2>2. stage \in {"ask", "post"} /\ thread' \in Opening /\ ~record'.written
    BY <1>8, <1>t, <1>r DEF Raise, PhaseAgrees
  <2>3. EndingAgrees'
    <3>1. heard' = heard
      BY <1>8 DEF Raise
    <3>2. CASE stage = "ask"
      <4>1. heard = Nothing
        BY <1>t, <3>2 DEF PhaseAgrees
      <4> QED BY <2>1, <3>1, <4>1, Apart, ExceptionAgrees
    <3>3. CASE stage = "post" /\ ending.message.kind = "answer"
      <4>1. heard.kind = "response"
        BY <1>t, <3>3 DEF PhaseAgrees, EndingAgrees
      <4> QED BY <2>1, <3>1, <4>1, Apart, ExceptionAgrees
    <3> QED BY <1>8, <3>2, <3>3 DEF Raise
  <2> QED BY <2>1, <2>2, <2>3 DEF PhaseAgrees
<1>9. CASE Post
  <2>1. PICK x \in Exchanges(ending.message) :
            /\ thread' = IF x.accepted THEN Append(thread, ending.message) ELSE thread
            /\ failed' = PostReason(x.reply)
    BY <1>9 DEF Post
  <2>2. /\ stage = "post" /\ stage' = "emit" /\ heard' = heard /\ ending' = ending
        /\ ~record'.written /\ thread \in Opening /\ EndingAgrees
    BY <1>9, <1>t, <1>r DEF Post, PhaseAgrees
  <2>3. EndingAgrees'
    BY <2>2 DEF EndingAgrees
  <2>4. x.accepted => FinalTaken'
    BY <2>1, <2>2 DEF FinalTaken
  <2>5. failed' = "none" => x.reply = "ok"
    BY <2>1 DEF PostReason, Exchanges, SlackReplies, KnownErrors
  <2>6. x.accepted \in BOOLEAN /\ (x.reply = "ok" => x.accepted)
        /\ (ending.message = [kind |-> "answer", text |-> <<>>] => ~x.accepted)
    BY DEF Exchanges
  <2>7. ending.message.kind = "answer" /\ ending.message.text = <<>>
            => ending.message = [kind |-> "answer", text |-> <<>>]
    <3>1. ending.message \in [kind : MessageKinds, text : Seq(Chars)]
      BY <1>t DEF TurnTypeOK, Endings, Messages
    <3> QED BY <3>1
  <2>8. ThreadAgrees'
    <3>1. thread' \in Opening \/ FinalTaken'
      BY <2>1, <2>2, <2>4, <2>6
    <3>2. failed' = "none" => FinalTaken'
      BY <2>4, <2>5, <2>6
    <3>3. failed' = "none" /\ ending'.message.kind = "answer" => ending'.message.text # <<>>
      BY <2>2, <2>5, <2>6, <2>7
    <3> QED BY <3>1, <3>2, <3>3 DEF ThreadAgrees
  <2> QED BY <2>2, <2>3, <2>8 DEF PhaseAgrees
<1>10. CASE Emit
  <2>1. /\ stage = "emit" /\ stage' = "done" /\ EndingAgrees /\ ThreadAgrees
        /\ heard' = heard /\ ending' = ending /\ failed' = failed /\ thread' = thread
    BY <1>10, <1>t DEF Emit, PhaseAgrees
  <2>2. EndingAgrees' /\ ThreadAgrees'
    BY <2>1 DEF EndingAgrees, ThreadAgrees, FinalTaken
  <2>3. record'.written => record' = RecordOf(ending, failed)
    <3>1. ~NoRecord.written
      BY DEF NoRecord
    <3> QED BY <1>10, <3>1 DEF Emit
  <2> QED BY <2>1, <2>2, <2>3 DEF PhaseAgrees
<1>11. CASE UNCHANGED turnVars
  BY <1>11, <1>t DEF turnVars, PhaseAgrees, EndingAgrees, ThreadAgrees, FinalTaken
<1> QED BY <1>1, <1>2, <1>3, <1>4, <1>5, <1>6, <1>7, <1>8, <1>9, <1>10, <1>11 DEF TurnNext

LEMMA TurnInvariant == TurnSpec => []TurnInv
<1>1. TurnInit => TurnInv
  BY InitTyped, InitAgrees DEF TurnInv
<1>2. TurnInv /\ [TurnNext]_turnVars => TurnInv'
  BY StepTyped, StepAgrees DEF TurnInv
<1> QED BY <1>1, <1>2, PTL DEF TurnSpec

-----------------------------------------------------------------------------
(* What follows from the invariant *)

LEMMA OpeningShape ==
    ASSUME NEW before \in Opening
    PROVE  /\ before \in Seq(Messages)
           /\ \A i \in 1..Len(before) : before[i].kind = "acknowledgement"
<1>1. Notice("acknowledgement") \in Messages
  BY NoticeIsMessage DEF MessageKinds
<1>2. Notice("acknowledgement").kind = "acknowledgement"
  BY DEF Notice
<1>3. CASE before = <<>>
  BY <1>3
<1>4. CASE before = <<Notice("acknowledgement")>>
  BY <1>1, <1>2, <1>4
<1> QED BY <1>3, <1>4 DEF Opening

\* Whatever is not the acknowledgement is the final message, at the end.
LEMMA ThreadShape ==
    ASSUME TurnInv, NEW i \in 1..Len(thread), thread[i].kind # "acknowledgement"
    PROVE  /\ stage \in {"emit", "done"} /\ EndingAgrees
           /\ i = Len(thread) /\ thread[i] = ending.message
<1>1. thread \notin Opening
  BY OpeningShape
<1>2. stage \in {"emit", "done"} /\ EndingAgrees /\ FinalTaken
  BY <1>1 DEF TurnInv, TurnTypeOK, Stages, PhaseAgrees, ThreadAgrees
<1>3. PICK before \in Opening : thread = Append(before, ending.message)
  BY <1>2 DEF FinalTaken
<1>4. before \in Seq(Messages) /\ \A j \in 1..Len(before) : before[j].kind = "acknowledgement"
  BY OpeningShape
<1>5. ending.message \in Messages
  BY DEF TurnInv, TurnTypeOK, Endings
<1>6. /\ Len(thread) = Len(before) + 1 /\ thread[Len(before) + 1] = ending.message
      /\ \A j \in 1..Len(before) : thread[j] = before[j]
  BY <1>3, <1>4, <1>5, Appended
<1>7. i \notin 1..Len(before)
  BY <1>4, <1>6
<1>8. Len(before) \in Nat
  BY <1>4
<1>9. i = Len(before) + 1
  BY <1>6, <1>7, <1>8
<1> QED BY <1>2, <1>6, <1>9

\* A question recorded as answered has its answer in the thread: not empty, in
\* the limit, and of neither a refusal nor a failure.
LEMMA OkShown == TurnInv => OkMeansShown
<1> SUFFICES ASSUME TurnInv, record.written, record.outcome = "ok"
             PROVE  \E i \in 1..Len(thread) :
                        /\ thread[i].kind = "answer"
                        /\ thread[i].text # <<>>
                        /\ Len(thread[i].text) <= ResponseLimit
  BY DEF OkMeansShown
<1>1. stage = "done" /\ record = RecordOf(ending, failed)
  BY DEF TurnInv, PhaseAgrees
<1>2. EndingAgrees /\ ThreadAgrees
  BY <1>1 DEF TurnInv, PhaseAgrees
<1>3. ending.outcome = "ok" /\ failed = "none"
  <2>1. RecordOf(ending, failed).outcome =
            IF ending.outcome = "ok" /\ failed # "none" THEN "error" ELSE ending.outcome
    BY DEF RecordOf
  <2> QED BY <1>1, <2>1
<1>4. ending.message.kind = "answer" /\ Len(ending.message.text) <= ResponseLimit
  BY <1>2, <1>3 DEF EndingAgrees
<1>5. FinalTaken /\ ending.message.text # <<>>
  BY <1>2, <1>3, <1>4 DEF ThreadAgrees
<1>6. PICK before \in Opening : thread = Append(before, ending.message)
  BY <1>5 DEF FinalTaken
<1>7. before \in Seq(Messages) /\ ending.message \in Messages
  BY OpeningShape DEF TurnInv, TurnTypeOK, Endings
<1>8. Len(thread) = Len(before) + 1 /\ thread[Len(before) + 1] = ending.message
  BY <1>6, <1>7, Appended
<1>9. Len(before) + 1 \in 1..Len(thread)
  BY <1>7, <1>8
<1> QED BY <1>4, <1>5, <1>8, <1>9

LEMMA RefusalPrivate == TurnInv => RefusalStaysPrivate
<1> SUFFICES ASSUME TurnInv, NEW i \in 1..Len(thread), thread[i].kind = "answer"
             PROVE  heard.kind = "response" /\ heard.says # "refusal"
  BY DEF RefusalStaysPrivate, Shown
<1>1. EndingAgrees /\ thread[i] = ending.message
  BY ThreadShape
<1> QED BY <1>1 DEF EndingAgrees

LEMMA AdviceSound == TurnInv => AdviceIsSound
<1> SUFFICES ASSUME TurnInv, NEW i \in 1..Len(thread), thread[i].kind \in TellsToRetry
             PROVE  CuredByWaiting(heard) \/ (ending.error /\ heard \notin Failures)
  BY DEF AdviceIsSound, Shown
<1>1. EndingAgrees /\ thread[i] = ending.message
  <2>1. thread[i].kind # "acknowledgement"
    BY DEF TellsToRetry
  <2> QED BY <2>1, ThreadShape
<1> QED BY <1>1 DEF EndingAgrees, TellsToRetry

LEMMA OneFinal == TurnInv => OneFinalMessage
<1> SUFFICES ASSUME TurnInv PROVE OneFinalMessage
  OBVIOUS
<1> DEFINE finals == {i \in 1..Len(thread) : thread[i].kind # "acknowledgement"}
<1>1. finals \subseteq {Len(thread)}
  BY ThreadShape
<1>2. IsFiniteSet({Len(thread)}) /\ Cardinality({Len(thread)}) = 1
  BY FS_Singleton
<1>3. Cardinality(finals) <= 1
  <2> HIDE DEF finals
  <2> QED BY <1>1, <1>2, FS_Subset
<1> QED BY <1>3 DEF OneFinalMessage

LEMMA Spent == TurnInv => SpendingIsRecorded
<1> SUFFICES ASSUME TurnInv, record.written
             PROVE  record.usage <=> heard.kind = "response" /\ ~record.error
  BY DEF SpendingIsRecorded
<1>1. stage = "done" /\ record = RecordOf(ending, failed)
  BY DEF TurnInv, PhaseAgrees
<1>2. ending.usage <=> heard.kind = "response" /\ ~ending.error
  <2>1. EndingAgrees
    BY <1>1 DEF TurnInv, PhaseAgrees
  <2> QED BY <2>1, Zenon DEF EndingAgrees
<1>3. RecordOf(ending, failed).usage = ending.usage /\ RecordOf(ending, failed).error = ending.error
  BY DEF RecordOf
<1>4. record.usage = ending.usage /\ record.error = ending.error
  BY <1>1, <1>3
<1> QED BY <1>2, <1>4, Zenon

LEMMA CauseNamed == TurnInv => ErrorsNameTheCause
<1> SUFFICES ASSUME TurnInv, record.written, record.outcome = "error"
             PROVE  \/ record.error /\ record.reason = "none"
                    \/ /\ ~record.error /\ record.usage
                       /\ failed # "none" /\ record.reason = failed
                    \/ /\ ~record.error /\ ~record.usage
                       /\ heard \in Failures /\ record.reason = AskReason(heard)
  BY DEF ErrorsNameTheCause
<1>1. stage = "done" /\ record = RecordOf(ending, failed)
  BY DEF TurnInv, PhaseAgrees
<1>2. EndingAgrees
  BY <1>1 DEF TurnInv, PhaseAgrees
<1> DEFINE lost == ending.outcome = "ok" /\ failed # "none"
<1>3. /\ record.outcome = IF lost THEN "error" ELSE ending.outcome
      /\ record.reason = IF lost THEN failed ELSE ending.reason
      /\ record.error = ending.error /\ record.usage = ending.usage
  BY <1>1 DEF RecordOf
<1>4. ending.error \in BOOLEAN /\ ending.usage \in BOOLEAN
  BY DEF TurnInv, TurnTypeOK, Endings
<1>5. CASE lost
  <2>1. ending.message.kind = "answer" /\ heard.kind = "response"
    BY <1>2, <1>5 DEF EndingAgrees
  <2>2. ~ending.error
    BY <1>2, <1>5 DEF EndingAgrees
  <2>3. ending.usage
    BY <1>2, <2>1, <2>2, Zenon DEF EndingAgrees
  <2> QED BY <1>3, <1>5, <2>2, <2>3
<1>6. CASE ~lost
  <2>1. ending.outcome = "error" /\ record.reason = ending.reason
    BY <1>3, <1>6
  <2>2. CASE ending.error
    BY <1>2, <1>3, <2>1, <2>2 DEF EndingAgrees
  <2>3. CASE ~ending.error
    <3>1. heard \in Failures /\ ending.reason = AskReason(heard)
      BY <1>2, <2>1, <2>3 DEF EndingAgrees
    <3>2. heard.kind # "response"
      BY <3>1, Apart
    <3>3. ~ending.usage
      BY <1>2, <3>2, Zenon DEF EndingAgrees
    <3> QED BY <1>3, <2>1, <2>3, <3>1, <3>3
  <2> QED BY <1>4, <2>2, <2>3
<1> QED BY <1>5, <1>6

-----------------------------------------------------------------------------
(* The text, and how much of the turn is left *)

\* What any step does to the text.
LEMMA TextSteps ==
    [TurnNext]_turnVars =>
        \/ \E glyph \in Glyphs : Write(glyph)
        \/ DropText
        \/ UNCHANGED <<answer, ends>>
BY DEF TurnNext, turnVars, Deny, Coalesce, Acknowledge, ClaudeWrites, AskAgain, AskFails,
       AskSucceeds, Raise, Post, Emit

TextInv == GlyphInv /\ Len(answer) <= MaxLength

LEMMA TextStart == TurnInit => TextInv
BY NoGlyphYet, FormatAssumption DEF TurnInit, Init, TextInv

LEMMA TextKept == TextInv /\ [TurnNext]_turnVars => TextInv'
<1> SUFFICES ASSUME TextInv, [TurnNext]_turnVars PROVE TextInv'
  OBVIOUS
<1>1. ASSUME NEW glyph \in Glyphs, Write(glyph) PROVE TextInv'
  <2>1. GlyphInv'
    BY <1>1, WriteKnowsItsEnds DEF TextInv
  <2>2. glyph \in Seq(Chars) /\ answer \in Seq(Chars)
    BY FormatAssumption DEF TextInv, GlyphInv, TypeOK
  <2>3. Len(answer') = Len(answer) + Len(glyph)
    BY <1>1, <2>2, Joined DEF Write
  <2> QED BY <1>1, <2>1, <2>3 DEF TextInv, Write
<1>2. CASE DropText
  BY <1>2, FormatAssumption DEF DropText, TextInv, GlyphInv, TypeOK, KnowsItsEnds
<1>3. CASE UNCHANGED <<answer, ends>>
  BY <1>3 DEF TextInv, GlyphInv, TypeOK, KnowsItsEnds
<1> QED BY <1>1, <1>2, <1>3, TextSteps

LEMMA Rounds ==
    ASSUME NEW n \in Nat, NEW k \in Nat, n <= k, NEW t \in Nat
    PROVE  n * t \in Nat /\ k * t \in Nat /\ n * t <= k * t /\ (n + 1) * t = n * t + t
<1>1. PICK d \in Nat : k = n + d
  <2>1. k - n \in Nat /\ k = n + (k - n)
    OBVIOUS
  <2> QED BY <2>1
<1>2. n * t \in Nat /\ d * t \in Nat
  OBVIOUS
<1>3. (n + d) * t = n * t + d * t /\ (n + 1) * t = n * t + t
  OBVIOUS
<1> QED BY <1>1, <1>2, <1>3

\* The most steps a turn can still take: a request costs at most MaxLength glyphs
\* and its end, an answer that is about to be posted may still raise.
StepsLeft ==
    CASE stage = "start" -> MaxAttempts * (MaxLength + 1) + 4
      [] stage = "ask" ->
            (MaxAttempts - attempt) * (MaxLength + 1) + (MaxLength - Len(answer)) + 4
      [] stage = "post" -> IF ending.message.kind = "answer" THEN 3 ELSE 2
      [] stage = "emit" -> 1
      [] OTHER -> 0

LEMMA StepsOfAsk ==
    ASSUME TurnInv, TextInv, stage = "ask"
    PROVE  /\ StepsLeft = (MaxAttempts - attempt) * (MaxLength + 1) + (MaxLength - Len(answer)) + 4
           /\ (MaxAttempts - attempt) * (MaxLength + 1) \in Nat
           /\ Len(answer) \in 0..MaxLength
<1>1. MaxAttempts - attempt \in Nat /\ MaxLength + 1 \in Nat /\ Len(answer) \in 0..MaxLength
  BY TurnAssumption, FormatAssumption DEF TurnInv, TurnTypeOK, TextInv, GlyphInv, TypeOK
<1> QED BY <1>1, Rounds DEF StepsLeft

LEMMA StepsType == TurnInv /\ TextInv => StepsLeft \in Nat
<1> SUFFICES ASSUME TurnInv, TextInv PROVE StepsLeft \in Nat
  OBVIOUS
<1>1. CASE stage = "start"
  <2>1. MaxAttempts \in Nat /\ MaxLength + 1 \in Nat
    BY TurnAssumption, FormatAssumption
  <2>2. MaxAttempts * (MaxLength + 1) \in Nat
    BY <2>1, Rounds
  <2> QED BY <1>1, <2>2 DEF StepsLeft
<1>2. CASE stage = "ask"
  BY <1>2, StepsOfAsk, FormatAssumption
<1>3. CASE stage \notin {"start", "ask"}
  BY <1>3 DEF StepsLeft
<1> QED BY <1>1, <1>2, <1>3

LEMMA StepsGoDown ==
    TurnInv /\ TextInv /\ TurnInv' /\ TextInv' /\ [TurnNext]_turnVars =>
        UNCHANGED turnVars \/ StepsLeft' < StepsLeft
<1> SUFFICES ASSUME TurnInv, TextInv, TurnInv', TextInv', TurnNext
             PROVE  UNCHANGED turnVars \/ StepsLeft' < StepsLeft
  OBVIOUS
<1> DEFINE W == MaxLength + 1
<1>c. MaxAttempts \in Nat \ {0} /\ MaxLength \in Nat /\ W \in Nat
  BY TurnAssumption, FormatAssumption
<1>s. StepsLeft \in Nat
  BY StepsType
\* A turn that asks has at least the end of its request before it.
<1>a. stage = "ask" => StepsLeft >= 4
  BY <1>c, StepsOfAsk
<1>p. stage' = "post" => StepsLeft' \in {2, 3}
  BY DEF StepsLeft
<1>b. stage = "start" => StepsLeft = MaxAttempts * W + 4 /\ MaxAttempts * W \in Nat
  <2>1. MaxAttempts * W \in Nat
    BY <1>c, Rounds
  <2> QED BY <2>1 DEF StepsLeft
<1>1. CASE Deny \/ Coalesce
  <2>1. stage = "start" /\ stage' = "post"
    BY <1>1 DEF Deny, Coalesce, EndWith
  <2> QED BY <2>1, <1>b, <1>p
<1>2. CASE Acknowledge
  <2>1. stage = "start" /\ stage' = "ask" /\ attempt' = 1 /\ answer' = answer
    BY <1>2 DEF Acknowledge
  <2>2. Len(answer) \in 0..MaxLength
    BY DEF TextInv, GlyphInv, TypeOK
  <2>3. StepsLeft' = (MaxAttempts - 1) * W + (MaxLength - Len(answer)) + 4
    BY <2>1 DEF StepsLeft
  <2> DEFINE rest == (MaxAttempts - 1) * W
  <2>4. rest \in Nat /\ MaxAttempts * W = rest + W
    <3>1. MaxAttempts - 1 \in Nat /\ (MaxAttempts - 1) + 1 = MaxAttempts
      BY <1>c
    <3> DEFINE n == MaxAttempts - 1
    <3>2. n \in Nat /\ n <= n
      BY <3>1
    <3> HIDE DEF W
    <3>3. n * W \in Nat /\ (n + 1) * W = n * W + W
      BY <3>2, <1>c, Rounds
    <3> QED BY <3>1, <3>3
  <2>5. StepsLeft = rest + W + 4 /\ StepsLeft' = rest + (MaxLength - Len(answer)) + 4
    BY <2>1, <2>3, <2>4, <1>b
  <2> HIDE DEF rest
  <2> QED BY <2>2, <2>4, <2>5, <1>c
<1>3. CASE ClaudeWrites
  <2>1. PICK glyph \in Glyphs : Write(glyph)
    BY <1>3 DEF ClaudeWrites
  <2>2. /\ stage = "ask" /\ stage' = "ask" /\ attempt' = attempt
        /\ UNCHANGED <<stage, attempt, heard, ending, failed, thread, record>>
    BY <1>3 DEF ClaudeWrites
  <2>3. glyph \in Seq(Chars) /\ answer \in Seq(Chars)
    BY FormatAssumption DEF TextInv, GlyphInv, TypeOK
  <2>4. Len(answer') = Len(answer) + Len(glyph) /\ Len(glyph) \in Nat
    BY <2>1, <2>3, Joined DEF Write
  <2>5. CASE Len(glyph) = 0
    <3>1. glyph = <<>>
      BY <2>3, <2>5, EmptySeq
    <3>2. answer' = answer
      BY <2>1, <2>3, <3>1, ConcatEmptySeq DEF Write
    <3>3. ends' = ends
      <4>1. Len(answer) \in ends /\ Len(answer) \in Nat
        BY <2>3 DEF TextInv, GlyphInv, KnowsItsEnds
      <4> QED BY <2>1, <2>5, <4>1 DEF Write
    <3> QED BY <2>2, <3>2, <3>3 DEF turnVars
  <2>6. CASE Len(glyph) > 0
    <3>1. StepsLeft' = (MaxAttempts - attempt) * W + (MaxLength - Len(answer')) + 4
      BY <2>2 DEF StepsLeft
    <3>2. /\ StepsLeft = (MaxAttempts - attempt) * W + (MaxLength - Len(answer)) + 4
          /\ (MaxAttempts - attempt) * W \in Nat
          /\ Len(answer) \in 0..MaxLength
      BY <2>2, StepsOfAsk
    <3> DEFINE rest == (MaxAttempts - attempt) * W
    <3>3. /\ StepsLeft = rest + (MaxLength - Len(answer)) + 4
          /\ StepsLeft' = rest + (MaxLength - Len(answer')) + 4 /\ rest \in Nat
      BY <3>1, <3>2
    <3> HIDE DEF rest
    <3> QED BY <2>4, <2>6, <3>2, <3>3, <1>c
  <2> QED BY <2>4, <2>5, <2>6
<1>4. CASE AskAgain
  <2>1. stage = "ask" /\ stage' = "ask" /\ attempt' = attempt + 1 /\ answer' = <<>>
    BY <1>4 DEF AskAgain, DropText
  <2>2. attempt \in Nat /\ attempt < MaxAttempts
    BY <1>4, <1>c DEF AskAgain, TriesAgain, TurnInv, TurnTypeOK
  <2> DEFINE n == MaxAttempts - (attempt + 1)
  <2>3. n \in Nat /\ n <= n /\ n + 1 = MaxAttempts - attempt
    BY <2>2, <1>c
  <2>4. StepsLeft' = n * W + MaxLength + 4
    <3>1. StepsLeft' = n * W + (MaxLength - Len(answer')) + 4 /\ Len(answer') = 0
      BY <2>1, EmptySeq DEF StepsLeft
    <3>2. n * W \in Int /\ MaxLength \in Nat
      <4> HIDE DEF W, n
      <4> QED BY <2>3, <1>c, Rounds
    <3> DEFINE rest == n * W
    <3>3. StepsLeft' = rest + (MaxLength - 0) + 4 /\ rest \in Int
      BY <3>1, <3>2
    <3>4. StepsLeft' = rest + MaxLength + 4
      <4> HIDE DEF rest
      <4> QED BY <3>2, <3>3
    <3> QED BY <3>4
  <2>5. /\ StepsLeft = (n + 1) * W + (MaxLength - Len(answer)) + 4
        /\ Len(answer) \in 0..MaxLength
    BY <2>1, <2>3, StepsOfAsk
  <2>6. n * W \in Nat /\ (n + 1) * W = n * W + W
    <3> HIDE DEF W, n
    <3> QED BY <2>3, <1>c, Rounds
  <2> DEFINE rest == n * W
  <2>7. /\ StepsLeft = rest + W + (MaxLength - Len(answer)) + 4
        /\ StepsLeft' = rest + MaxLength + 4 /\ rest \in Nat
    BY <2>4, <2>5, <2>6
  <2> HIDE DEF rest
  <2> QED BY <2>5, <2>7, <1>c
<1>5. CASE AskFails \/ AskSucceeds
  <2>1. stage = "ask" /\ stage' = "post"
    BY <1>5 DEF AskFails, AskSucceeds, EndWith
  <2> QED BY <2>1, <1>a, <1>p, <1>s
<1>6. CASE Raise
  <2>1. stage' = "post" /\ ending'.message.kind = "generic_error"
    BY <1>6 DEF Raise, Unexpected, EndWith, Ending, Notice
  <2>2. StepsLeft' = 2
    BY <2>1 DEF StepsLeft
  <2>3. CASE stage = "ask"
    BY <2>2, <2>3, <1>a, <1>s
  <2>4. CASE stage = "post" /\ ending.message.kind = "answer"
    BY <2>2, <2>4 DEF StepsLeft
  <2> QED BY <1>6, <2>3, <2>4 DEF Raise
<1>7. CASE Post
  <2>1. stage = "post" /\ stage' = "emit"
    BY <1>7 DEF Post
  <2> QED BY <2>1 DEF StepsLeft
<1>8. CASE Emit
  <2>1. stage = "emit" /\ stage' = "done"
    BY <1>8 DEF Emit
  <2> QED BY <2>1 DEF StepsLeft
<1> QED BY <1>1, <1>2, <1>3, <1>4, <1>5, <1>6, <1>7, <1>8 DEF TurnNext

LEMMA TextInvariant == TurnSpec => []TextInv
BY TextStart, TextKept, PTL DEF TurnSpec

-----------------------------------------------------------------------------
(* The theorems *)

\* A question recorded as answered has an answer in the thread, whatever Slack's
\* status codes say, and never for a refusal or a failure.
THEOREM OkIsShown == TurnSpec => []OkMeansShown
BY TurnInvariant, OkShown, PTL

\* Nothing Claude wrote before a refusal or a failure is posted.
THEOREM RefusalsStayPrivate == TurnSpec => []RefusalStaysPrivate
BY TurnInvariant, RefusalPrivate, PTL

\* After a failure the SDK reported, the user is told to try again, in whichever
\* words, only if waiting cures it; without one, only after an exception.
THEOREM AdviceStaysSound == TurnSpec => []AdviceIsSound
BY TurnInvariant, AdviceSound, PTL

\* A thread gets at most one message of a turn besides the acknowledgement.
THEOREM OnlyOneFinal == TurnSpec => []OneFinalMessage
BY TurnInvariant, OneFinal, PTL

\* Reported tokens are recorded, whatever became of the message.
THEOREM SpendingRecorded == TurnSpec => []SpendingIsRecorded
BY TurnInvariant, Spent, PTL

\* A recorded error names the service that failed, whichever else failed after it.
THEOREM CausesNamed == TurnSpec => []ErrorsNameTheCause
BY TurnInvariant, CauseNamed, PTL

\* The length policy keeps its promises inside the turn.
THEOREM RepliesFitInTurn == TurnSpec => [](WithinLimit /\ SaysWhenCut)
<1>1. TurnTypeOK => WithinLimit /\ SaysWhenCut
  BY AnswerInLimit, CutAnnounced DEF TurnTypeOK
<1> QED BY <1>1, TurnTyped, PTL

\* What Claude writes during a turn is cut between glyphs only.
THEOREM GlyphsStayWholeInTurn == TurnSpec => []GlyphsWhole
<1>1. TextInv => GlyphsWhole
  BY CutsAtGlyphs DEF TextInv
<1> QED BY <1>1, TextInvariant, PTL

\* Every step leaves fewer steps to take, so no turn runs on: not by asking Claude
\* again, and not by raising again and again on the way to its final message.
THEOREM TurnsRunDown ==
    TurnSpec => [][(StepsLeft \in Nat) /\ StepsLeft' \in Nat /\ StepsLeft' < StepsLeft]_turnVars
<1>1. TurnSpec => [](TurnInv /\ TextInv /\ StepsLeft \in Nat)
  BY StepsType, TurnInvariant, TextInvariant, PTL
<1> DEFINE I == TurnInv /\ TextInv /\ StepsLeft \in Nat
<1>2. I /\ I' /\ [TurnNext]_turnVars
      => [(StepsLeft \in Nat) /\ StepsLeft' \in Nat /\ StepsLeft' < StepsLeft]_turnVars
  BY StepsGoDown
<1> QED BY <1>1, <1>2, PTL DEF TurnSpec
=============================================================================
