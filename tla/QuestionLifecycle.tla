---------------------------- MODULE QuestionLifecycle ----------------------------
(*****************************************************************************)
(* What the slackbot promises about one Slack event, with no table, no queue  *)
(* and no retries in sight: an event is accepted at most once, only an        *)
(* accepted event is worked on, it is settled only after a reply was tried,   *)
(* and no work begins on a settled event.                                     *)
(*****************************************************************************)
CONSTANTS Event, Invocation

VARIABLES
    phase,  \* how far each event got
    open    \* who is working on what

vars == <<phase, open>>

Phases == {"new", "accepted", "replied", "settled", "forgotten"}

TypeOK ==
    /\ phase \in [Event -> Phases]
    /\ open \subseteq Invocation \X Event

Init ==
    /\ phase = [e \in Event |-> "new"]
    /\ open = {}

Move(e, label) == phase' = [phase EXCEPT ![e] = label]

Accept(e) ==
    /\ phase[e] = "new"
    /\ Move(e, "accepted")
    /\ UNCHANGED open

\* Each worker works on one event at a time.
Begin(i, e) ==
    /\ phase[e] \in {"accepted", "replied"}
    /\ \A other \in Event : <<i, other>> \notin open
    /\ open' = open \cup {<<i, e>>}
    /\ UNCHANGED phase

Reply(i, e) ==
    /\ <<i, e>> \in open
    /\ phase[e] = "accepted"
    /\ Move(e, "replied")
    /\ UNCHANGED open

Settle(i, e) ==
    /\ <<i, e>> \in open
    /\ phase[e] = "replied"
    /\ Move(e, "settled")
    /\ UNCHANGED open

End(i, e) ==
    /\ <<i, e>> \in open
    /\ open' = open \ {<<i, e>>}
    /\ UNCHANGED phase

\* All trace of the event disappears, and nothing follows.
Forget(e) ==
    /\ phase[e] # "forgotten"
    /\ \A i \in Invocation : <<i, e>> \notin open
    /\ Move(e, "forgotten")
    /\ UNCHANGED open

Next ==
    \E e \in Event :
        \/ Accept(e)
        \/ Forget(e)
        \/ \E i \in Invocation : Begin(i, e) \/ Reply(i, e) \/ Settle(i, e) \/ End(i, e)

Spec == Init /\ [][Next]_vars
=============================================================================
