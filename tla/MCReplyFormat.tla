----------------------------- MODULE MCReplyFormat -----------------------------
(* Instances of ReplyFormat for TLC. *)
EXTENDS ReplyFormat

\* A letter, a backtick, a letter with an accent, a family of three joined
\* emoji, the two halves of a flag, and a half by itself.
SomeGlyphs == {<<"plain">>, <<"tick">>, <<"plain", "mark">>,
               <<"plain", "joiner", "plain", "joiner", "plain">>, <<"flag", "flag">>,
               <<"flag">>}

SmallLimits == 0..8
=============================================================================
