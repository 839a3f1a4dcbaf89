-------------------------------- MODULE QueryTurn --------------------------------
(*****************************************************************************)
(* One question between the two services the worker calls: the                 *)
(* acknowledgement, the request to Claude with the SDK's own retries (ask.py), *)
(* the final message to Slack (slack/client.py) and the observation record     *)
(* (observability.py). SlackWorker has these steps without their data; the     *)
(* completion mark between the message and the record is a step of SlackWorker *)
(* and never fails.                                                            *)
(*****************************************************************************)
EXTENDS ReplyFormat

CONSTANTS
    MaxAttempts,     \* requests the SDK makes: the first and max_retries more
    ResponseLimit    \* settings.max_response_chars

ASSUME TurnAssumption ==
    /\ MaxAttempts \in Nat \ {0}
    /\ ResponseLimit \in Nat

-----------------------------------------------------------------------------
(* What the SDK hands to ask_claude *)

\* The failures the classification tells apart; `says` is the part of the error
\* body it reads.
Failures ==
         [kind : {"timeout", "connection", "invalid"}, status : {0}, says : {"other"}]
    \cup [kind : {"status"}, status : {400}, says : {"usage limits", "low credit", "other"}]
    \cup [kind : {"status"}, status : {429}, says : {"enforced limit", "other"}]
    \cup [kind : {"status"}, status : {401, 409, 500}, says : {"other"}]

\* The SDK asks again by itself after these.
SdkRetries(f) ==
    \/ f.kind \in {"timeout", "connection"}
    \/ f.status \in {408, 409, 429} \/ f.status >= 500

\* What is over after a while, without anybody doing anything about it.
CuredByWaiting(f) ==
    \/ f.kind \in {"timeout", "connection"}
    \/ f.status \in {408, 409} \/ f.status >= 500
    \/ f.status = 429 /\ f.says # "enforced limit"

Stops == {"end_turn", "max_tokens", "refusal"}

Responses == [kind : {"response"}, status : {200}, says : Stops]

Nothing == [kind |-> "nothing", status |-> 0, says |-> "other"]

-----------------------------------------------------------------------------
(* ask.py *)

AskReasons == {"spend_limit_exceeded", "credit_exhausted", "rate_limited",
               "server_error", "timeout", "network_error", "api_error"}

\* Mutant of StatusReason: the error code of a 429 is not looked at.
StatusAlone(f) ==
    IF f.status = 400 /\ f.says = "usage limits" THEN "spend_limit_exceeded"
    ELSE IF f.status = 400 /\ f.says = "low credit" THEN "credit_exhausted"
    ELSE IF f.status = 429 THEN "rate_limited"
    ELSE IF f.status >= 500 THEN "server_error"
    ELSE "api_error"

\* _classify_status_error.
StatusReason(f) ==
    IF f.status = 400 /\ f.says = "usage limits" THEN "spend_limit_exceeded"
    ELSE IF f.status = 400 /\ f.says = "low credit" THEN "credit_exhausted"
    ELSE IF f.status = 429 /\ f.says = "enforced limit" THEN "spend_limit_exceeded"
    ELSE IF f.status = 429 THEN "rate_limited"
    ELSE IF f.status >= 500 THEN "server_error"
    ELSE "api_error"

AskReason(f) ==
    CASE f.kind = "timeout" -> "timeout"
      [] f.kind = "connection" -> "network_error"
      [] f.kind = "status" -> StatusReason(f)
      [] OTHER -> "api_error"

\* The client_message of each reason.
Advice(reason) ==
    CASE reason = "spend_limit_exceeded" -> "spend_limit"
      [] reason = "credit_exhausted" -> "buy_credit"
      [] reason = "api_error" -> "ask_admin"
      [] OTHER -> "retry_later"

\* Mutant of IsRefused: a refusal is one only without text.
IsEmptyRefusal(stop) == stop = "refusal" /\ answer = <<>>

IsRefused(stop) == stop = "refusal"

-----------------------------------------------------------------------------
(* slack/client.py *)

\* Each wording is a kind: "generic_error" is _GENERIC_ERROR_MESSAGE, "retry_later"
\* is _RETRYABLE_CLIENT_MESSAGE.
MessageKinds == {"acknowledgement", "answer", "refusal", "denial", "generic_error",
                 "spend_limit", "buy_credit", "ask_admin", "retry_later"}

Messages == [kind : MessageKinds, text : Seq(Chars)]

\* The wordings that end in "try again shortly" (worker.py:211, ask.py:190).
TellsToRetry == {"retry_later", "generic_error"}

\* A message of fixed wording.
Notice(kind) == [kind |-> kind, text |-> <<>>]

KnownErrors == {"not_in_channel", "channel_not_found"}

SlackReplies == {"ok", "ok_without_ts", "garbage", "other_error", "limited", "http_error",
                 "timeout", "connection"} \cup KnownErrors

\* What Slack does with a message, and what the worker hears of it: a reply that
\* does not come, or cannot be read, says nothing of the message. Slack takes no
\* message without text.
Exchanges(message) ==
    { x \in [accepted : BOOLEAN, reply : SlackReplies] :
        /\ x.reply \in {"ok", "ok_without_ts"} => x.accepted
        /\ x.reply \in {"other_error", "limited"} \cup KnownErrors => ~x.accepted
        /\ message = [kind |-> "answer", text |-> <<>>] => ~x.accepted }

PostReasons == KnownErrors \cup {"slack_error_unknown", "rate_limited", "http_error",
                                 "network_error", "timeout", "invalid_response"}

\* Mutants of PostReason: a 2xx status is a success; Slack's own word is kept.
StatusDecides(reply) ==
    IF reply \in {"timeout", "http_error"} THEN reply
    ELSE IF reply = "connection" THEN "network_error"
    ELSE IF reply = "limited" THEN "rate_limited"
    ELSE "none"
SlacksWord(reply) == IF reply = "ok" THEN "none" ELSE reply

\* post_message and _parse_post_message_response: "none" is ok = True.
PostReason(reply) ==
    CASE reply = "ok" -> "none"
      [] reply \in {"ok_without_ts", "garbage"} -> "invalid_response"
      [] reply = "other_error" -> "slack_error_unknown"
      [] reply = "limited" -> "rate_limited"
      [] reply = "connection" -> "network_error"
      [] OTHER -> reply

-----------------------------------------------------------------------------
(* The arguments of _post_and_finish, and the record *)

Outcomes == {"ok", "denied", "error"}

Reasons == AskReasons \cup PostReasons \cup
    {"none", "claude_refusal", "coalesced_in_progress", "user_unregistered", "user_unidentified"}

\* error: error_kind names an exception; usage: the tokens Claude reported.
Endings == [message : Messages, outcome : Outcomes, reason : Reasons,
            error : BOOLEAN, usage : BOOLEAN]

Ending(message, outcome, reason, error, usage) ==
    [message |-> message, outcome |-> outcome, reason |-> reason,
     error |-> error, usage |-> usage]

NoEnding == Ending(Notice("generic_error"), "error", "none", FALSE, FALSE)

Records == [outcome : Outcomes, reason : Reasons, error : BOOLEAN, usage : BOOLEAN,
            written : BOOLEAN]

NoRecord == [outcome |-> "error", reason |-> "none", error |-> FALSE, usage |-> FALSE,
             written |-> FALSE]

\* Mutant of RecordOf: an answer that did not get out cost nothing.
RecordWithoutUsage(ending, failed) ==
    IF ending.outcome = "ok" /\ failed # "none"
    THEN [NoRecord EXCEPT !.reason = failed, !.written = TRUE]
    ELSE [outcome |-> ending.outcome, reason |-> ending.reason, error |-> ending.error,
          usage |-> ending.usage, written |-> TRUE]

\* Mutant of RecordOf: Slack's reason is the reason of every turn it failed.
RecordOfLastFailure(ending, failed) ==
    [outcome |-> IF ending.outcome = "ok" /\ failed # "none" THEN "error" ELSE ending.outcome,
     reason |-> IF failed # "none" THEN failed ELSE ending.reason,
     error |-> ending.error, usage |-> ending.usage, written |-> TRUE]

\* An answer that did not get out is recorded as an error, with Slack's reason.
RecordOf(ending, failed) ==
    LET lost == ending.outcome = "ok" /\ failed # "none" IN
    [outcome |-> IF lost THEN "error" ELSE ending.outcome,
     reason |-> IF lost THEN failed ELSE ending.reason,
     error |-> ending.error, usage |-> ending.usage, written |-> TRUE]

-----------------------------------------------------------------------------
VARIABLES
    stage,    \* what the turn is about to do
    attempt,  \* requests the SDK has made of Claude
    heard,    \* what the SDK handed over
    ending,   \* the arguments of _post_and_finish
    failed,   \* reason_code of the final message's PostMessageResult
    thread,   \* the messages Slack took, in order
    record    \* the observation record

turnVars == <<stage, attempt, heard, ending, failed, thread, record, answer, ends>>

Stages == {"start", "ask", "post", "emit", "done"}

TurnTypeOK ==
    /\ stage \in Stages
    /\ attempt \in 0..MaxAttempts
    /\ heard \in Failures \cup Responses \cup {Nothing}
    /\ ending \in Endings
    /\ failed \in PostReasons \cup {"none"}
    /\ thread \in Seq(Messages)
    /\ record \in Records
    /\ TypeOK

TurnInit ==
    /\ Init
    /\ stage = "start" /\ attempt = 0 /\ heard = Nothing
    /\ ending = NoEnding /\ failed = "none"
    /\ thread = <<>> /\ record = NoRecord

DropText == answer' = <<>> /\ ends' = {0}

EndWith(e) == stage' = "post" /\ ending' = e

\* resolve_credentials: without a token nobody is asked.
Deny ==
    /\ stage = "start"
    /\ \E reason \in {"user_unregistered", "user_unidentified"} :
          EndWith(Ending(Notice("denial"), "denied", reason, FALSE, FALSE))
    /\ UNCHANGED <<attempt, heard, failed, thread, record, answer, ends>>

\* Another question of the same pair is under way.
Coalesce ==
    /\ stage = "start"
    /\ EndWith(Ending(Notice("acknowledgement"), "denied", "coalesced_in_progress", FALSE, FALSE))
    /\ UNCHANGED <<attempt, heard, failed, thread, record, answer, ends>>

\* The acknowledgement; its failure is logged and forgotten.
Acknowledge ==
    /\ stage = "start"
    /\ \E x \in Exchanges(Notice("acknowledgement")) :
          thread' = IF x.accepted THEN Append(thread, Notice("acknowledgement")) ELSE thread
    /\ stage' = "ask"
    /\ attempt' = 1
    /\ UNCHANGED <<heard, ending, failed, record, answer, ends>>

ClaudeWrites ==
    /\ stage = "ask"
    /\ \E glyph \in Glyphs : Write(glyph)
    /\ UNCHANGED <<stage, attempt, heard, ending, failed, thread, record>>

TriesAgain(f) == SdkRetries(f) /\ attempt < MaxAttempts

\* Inside the SDK: a request fails, what Claude wrote is lost, another follows.
AskAgain ==
    /\ stage = "ask"
    /\ \E f \in Failures : TriesAgain(f)
    /\ attempt' = attempt + 1
    /\ DropText
    /\ UNCHANGED <<stage, heard, ending, failed, thread, record>>

\* ask_claude: the exceptions of the SDK.
AskFails ==
    /\ stage = "ask"
    /\ \E f \in Failures :
          /\ ~TriesAgain(f)
          /\ heard' = f
          /\ EndWith(Ending(Notice(Advice(AskReason(f))), "error", AskReason(f), FALSE, FALSE))
    /\ DropText
    /\ UNCHANGED <<attempt, failed, thread, record>>

\* ask_claude: a response, and the branches of _run_query. An answer may be empty.
AskSucceeds ==
    /\ stage = "ask"
    /\ \E response \in Responses :
          /\ heard' = response
          /\ EndWith(IF IsRefused(response.says)
                     THEN Ending(Notice("refusal"), "denied", "claude_refusal", FALSE, TRUE)
                     ELSE Ending([kind |-> "answer", text |-> Reply(ResponseLimit)],
                                 "ok", "none", FALSE, TRUE))
    /\ DropText
    /\ UNCHANGED <<attempt, failed, thread, record>>

\* Mutant of Unexpected: the answer is given up without a word.
GiveUp ==
    /\ stage' = "given up"
    /\ UNCHANGED ending

\* The except branch of _process_event: a message of its own, which tells the user
\* to try again whatever was raised, and no usage.
Unexpected == EndWith(Ending(Notice("generic_error"), "error", "none", TRUE, FALSE))

\* An exception of another kind, from the request or from an answer that cannot
\* be encoded.
Raise ==
    /\ \/ stage = "ask"
       \/ stage = "post" /\ ending.message.kind = "answer"
    /\ Unexpected
    /\ DropText
    /\ UNCHANGED <<attempt, heard, failed, thread, record>>

\* Mutant of Post: a message is sent again when its result says retryable.
PostUntilHeard ==
    /\ stage = "post"
    /\ \E x \in Exchanges(ending.message) :
          /\ thread' = IF x.accepted THEN Append(thread, ending.message) ELSE thread
          /\ failed' = PostReason(x.reply)
    /\ stage' = IF failed' \in {"timeout", "network_error"} THEN "post" ELSE "emit"
    /\ UNCHANGED <<attempt, heard, ending, record, answer, ends>>

\* The final message, tried once.
Post ==
    /\ stage = "post"
    /\ \E x \in Exchanges(ending.message) :
          /\ thread' = IF x.accepted THEN Append(thread, ending.message) ELSE thread
          /\ failed' = PostReason(x.reply)
    /\ stage' = "emit"
    /\ UNCHANGED <<attempt, heard, ending, record, answer, ends>>

\* emit_query_observation: a record that cannot be built or written is given up.
Emit ==
    /\ stage = "emit"
    /\ record' \in {RecordOf(ending, failed), NoRecord}
    /\ stage' = "done"
    /\ UNCHANGED <<attempt, heard, ending, failed, thread, answer, ends>>

TurnNext ==
    \/ Deny \/ Coalesce \/ Acknowledge
    \/ ClaudeWrites \/ AskAgain \/ AskFails \/ AskSucceeds \/ Raise
    \/ Post \/ Emit

TurnSpec == TurnInit /\ [][TurnNext]_turnVars

\* Every call has its time limit and every answer its last token.
FairTurnSpec == TurnSpec /\ WF_turnVars(TurnNext)

-----------------------------------------------------------------------------
(* Properties *)

Shown(kind) == \E i \in 1..Len(thread) : thread[i].kind = kind

\* A question is recorded as answered only if an answer, not empty and within the
\* limit, stands in the thread: not because a status code was below 400
\* (slack/client.py:4-11), and never for a refusal or a failure.
OkMeansShown ==
    record.written /\ record.outcome = "ok" =>
        \E i \in 1..Len(thread) :
            /\ thread[i].kind = "answer"
            /\ thread[i].text # <<>>
            /\ Len(thread[i].text) <= ResponseLimit

\* Nothing Claude wrote before it refused, and nothing of a request that failed,
\* is ever posted (AC-SB-005-4).
RefusalStaysPrivate ==
    heard.kind # "response" \/ heard.says = "refusal" => ~Shown("answer")

\* A failure that the SDK reports is judged by its cause: once it has, no message
\* tells the user to try again, the generic one included, unless waiting cures it;
\* so never after a spend limit or an empty account, whatever status it came with
\* (EDGE-SB-008, -017). The generic message gives that advice unjudged, but only for
\* an exception of another kind (worker.py:704).
AdviceIsSound ==
    (\E kind \in TellsToRetry : Shown(kind)) =>
        \/ CuredByWaiting(heard)
        \/ ending.error /\ heard \notin Failures

\* A turn puts at most one message besides its acknowledgement into the thread,
\* also when Slack's reply to it is lost.
OneFinalMessage ==
    Cardinality({i \in 1..Len(thread) : thread[i].kind # "acknowledgement"}) <= 1

\* Tokens are recorded when Claude reported them, whatever became of the message,
\* unless the turn ended in an exception; and never otherwise (AC-SB-007-2).
SpendingIsRecorded ==
    record.written => (record.usage <=> heard.kind = "response" /\ ~record.error)

\* A recorded error names what really failed, although Claude and Slack share reason
\* codes ("timeout", "network_error", "rate_limited") and a turn may meet both: with
\* tokens it is the reason of Slack, which lost an answer; without any it is the
\* reason of Claude, also when the message about it was lost as well; an exception
\* has no reason (worker.py:488-491, 704-732).
ErrorsNameTheCause ==
    record.written /\ record.outcome = "error" =>
        \/ record.error /\ record.reason = "none"
        \/ /\ ~record.error /\ record.usage
           /\ failed # "none" /\ record.reason = failed
        \/ /\ ~record.error /\ ~record.usage
           /\ heard \in Failures /\ record.reason = AskReason(heard)

\* Every turn ends, past its final message.
TurnEnds == <>(stage = "done")
=============================================================================
