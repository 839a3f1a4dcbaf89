------------------------------ MODULE MCQueryTurn ------------------------------
(* Instances of QueryTurn, and with it of ReplyFormat, for TLC. *)
EXTENDS QueryTurn

\* A letter, a backtick, a letter with an accent, a family of three joined
\* emoji, the two halves of a flag, and a half by itself.
SomeGlyphs == {<<"plain">>, <<"tick">>, <<"plain", "mark">>,
               <<"plain", "joiner", "plain", "joiner", "plain">>, <<"flag", "flag">>,
               <<"flag">>}

SmallLimits == 0..7
=============================================================================
