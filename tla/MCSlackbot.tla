-------------------------------- MODULE MCSlackbot --------------------------------
(* Instances of Slackbot for TLC: which (user, thread) pair each event has.    *)
EXTENDS Slackbot, TLC

CONSTANTS e1, e2, e3, e4, p1, w1, w2

\* Every question comes from one user in one thread.
OnePair == [e \in Event |-> p1]

\* Only e1 has both a user id and a thread.
FirstHasAPair == [e \in Event |-> IF e = e1 THEN p1 ELSE NoPair]

WorkerSymmetry == Permutations({w1, w2})
=============================================================================
