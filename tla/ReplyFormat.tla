------------------------------- MODULE ReplyFormat -------------------------------
(*****************************************************************************)
(* The length policy of a reply (slack/format.py), a pure function. A          *)
(* character is kept as the class the policy tells apart: a zero-width joiner, *)
(* a character that attaches to the one before it (combining mark, variation   *)
(* selector, skin tone), a regional indicator, a backtick, any other. The text *)
(* Claude writes comes glyph by glyph; `ends` remembers where the glyphs end.  *)
(*****************************************************************************)
EXTENDS Integers, Sequences, FiniteSets

CONSTANTS
    Glyphs,        \* what a reader sees as one character, as characters
    NoticeLength,  \* len(TRUNCATION_NOTICE)
    Limits,        \* values of max_response_chars
    MaxLength      \* bound of the model: characters of an answer

Chars == {"plain", "joiner", "mark", "flag", "tick", "newline", "notice"}

ASSUME FormatAssumption ==
    /\ Glyphs \subseteq Seq(Chars)
    /\ NoticeLength \in Nat
    /\ Limits \subseteq Nat
    /\ MaxLength \in Nat

TruncationNotice == [i \in 1..NoticeLength |-> "notice"]

CodeFenceCloser == <<"newline", "tick", "tick", "tick">>

Take(text, n) == SubSeq(text, 1, n)

\* How many characters of class c end at position `end`.
RunBefore(text, end, c) ==
    Cardinality({k \in 1..end : \A j \in k..end : text[j] = c})

-----------------------------------------------------------------------------
(* _back_off_combining_boundary *)

\* _is_combining_boundary_risk: what attaches to the character before it.
CombiningBoundaryRisk == {"joiner", "mark"}

\* Mutant of SplitsGlyph: a flag is two characters like any others.
SplitsMarkedGlyph(source, end) ==
    \/ source[end] = "joiner"
    \/ end < Len(source) /\ source[end + 1] \in CombiningBoundaryRisk

\* The three conditions of the loop: a cut after position `end` would leave a
\* joiner dangling, tear off what attaches, or leave half a flag.
SplitsGlyph(source, end) ==
    \/ source[end] = "joiner"
    \/ /\ end < Len(source)
       /\ \/ source[end + 1] \in CombiningBoundaryRisk
          \/ source[end + 1] = "flag" /\ RunBefore(source, end, "flag") % 2 = 1

\* One character goes per round of the loop, until a cut is allowed or the text
\* is empty: as many as there are ends from which every end on is forbidden.
BackOff(n, source) ==
    n - Cardinality({k \in 1..n : \A end \in k..n : SplitsGlyph(source, end)})

BackOffCombiningBoundary(n, source) == Take(source, BackOff(n, source))

-----------------------------------------------------------------------------
(* _close_unbalanced_fence *)

\* content.count("```"): from the left, without overlaps.
CodeFences(text) ==
    Cardinality({k \in 1..Len(text) :
        text[k] = "tick" /\ RunBefore(text, k, "tick") % 3 = 0})

CloseUnbalancedFence(content, budget) ==
    IF CodeFences(content) % 2 = 0 THEN content
    ELSE IF Len(content) + Len(CodeFenceCloser) <= budget THEN content \o CodeFenceCloser
    ELSE IF Len(CodeFenceCloser) > budget THEN content
    ELSE BackOffCombiningBoundary(budget - Len(CodeFenceCloser), content) \o CodeFenceCloser

-----------------------------------------------------------------------------
(* apply_response_length_policy *)

\* Mutant of ContentBudget: the notice is not paid for.
WholeBudget(maxChars) == maxChars

ContentBudget(maxChars) == maxChars - NoticeLength

\* Mutant of Fits: an answer of just the limit is cut.
FitsBelow(text, maxChars) == Len(text) < maxChars

Fits(text, maxChars) == Len(text) <= maxChars

ApplyResponseLengthPolicy(text, maxChars) ==
    IF maxChars <= 0 THEN <<>>
    ELSE IF Fits(text, maxChars) THEN text
    ELSE IF NoticeLength >= maxChars THEN BackOffCombiningBoundary(maxChars, text)
    ELSE LET budget == ContentBudget(maxChars)
         IN CloseUnbalancedFence(BackOffCombiningBoundary(budget, text), budget)
                \o TruncationNotice

-----------------------------------------------------------------------------
(* Claude's answers *)

VARIABLES
    answer,  \* the text so far
    ends     \* positions at which one of its glyphs ends

vars == <<answer, ends>>

\* A glyph is a base, one character or the two halves of a flag, and what attaches
\* to it or is joined to it.
IsGlyph(text) ==
    \A i \in 1..(Len(text) - 1) :
        \/ text[i] = "joiner"
        \/ text[i + 1] \in CombiningBoundaryRisk
        \/ i = 1 /\ text[1] = "flag" /\ text[2] = "flag"

ASSUME GlyphAssumption == \A glyph \in Glyphs : IsGlyph(glyph)

Init == answer = <<>> /\ ends = {0}

\* Half a flag after an unpaired half completes it: no glyph begins there.
Completes(glyph) ==
    glyph # <<>> /\ glyph[1] = "flag" /\ RunBefore(answer, Len(answer), "flag") % 2 = 1

Write(glyph) ==
    /\ Len(answer) + Len(glyph) <= MaxLength
    /\ ~Completes(glyph)
    /\ answer' = answer \o glyph
    /\ ends' = ends \cup {Len(answer) + Len(glyph)}

Next == \E glyph \in Glyphs : Write(glyph)

Spec == Init /\ [][Next]_vars

-----------------------------------------------------------------------------
(* Properties *)

Reply(limit) == ApplyResponseLengthPolicy(answer, limit)

TypeOK == answer \in Seq(Chars)

\* No reply is longer than the limit, whatever was added to it: the notice and
\* the closing fence are paid for out of the same budget (CTR-SB-005).
WithinLimit == \A limit \in Limits : Len(Reply(limit)) <= limit

\* What is kept of a cut answer ends where one of its glyphs ends, also after
\* the second cut that makes room for a closing fence.
GlyphsWhole ==
    \A limit \in Limits :
        \E end \in ends, closer \in {<<>>, CodeFenceCloser}, notice \in {<<>>, TruncationNotice} :
            Reply(limit) = Take(answer, end) \o closer \o notice

\* The notice is there when something was left out and there is room for it, and
\* an answer that fits is posted as it is (AC-SB-006-2).
SaysWhenCut ==
    \A limit \in Limits :
        IF Len(answer) <= limit THEN Reply(limit) = answer
        ELSE limit > NoticeLength =>
                \E n \in 0..limit : Reply(limit) = Take(Reply(limit), n) \o TruncationNotice

\* A cut never leaves a code fence open before the notice, unless the budget has
\* no room even for the closing fence (format.py:211-214).
FencesClosed ==
    \A limit \in Limits :
        Len(answer) > limit /\ ContentBudget(limit) >= Len(CodeFenceCloser)
            => CodeFences(Reply(limit)) % 2 = 0
=============================================================================
