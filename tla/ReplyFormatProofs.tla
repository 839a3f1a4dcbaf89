---------------------------- MODULE ReplyFormatProofs ----------------------------
(* The length policy of ReplyFormat, for every text, limit and notice. *)
EXTENDS ReplyFormat, FiniteSetTheorems, SequenceTheorems, TLAPS

\* The loop takes away between none and all of the characters.
LEMMA BackOffBounds ==
    ASSUME NEW n \in Nat, NEW source
    PROVE  BackOff(n, source) \in 0..n
<1> DEFINE Dropped == {k \in 1..n : \A end \in k..n : SplitsGlyph(source, end)}
<1>1. IsFiniteSet(1..n) /\ Cardinality(1..n) = n
  BY FS_Interval, 1 \in Int, n \in Int
<1>2. IsFiniteSet(Dropped) /\ Cardinality(Dropped) <= n
  <2>1. Dropped \in SUBSET (1..n)
    OBVIOUS
  <2> QED BY <1>1, <2>1, FS_Subset
<1>3. Cardinality(Dropped) \in Nat
  BY <1>2, FS_CardinalityType
<1>4. BackOff(n, source) = n - Cardinality(Dropped)
  BY DEF BackOff
<1> HIDE DEF Dropped
<1> QED BY <1>2, <1>3, <1>4

LEMMA TakeBounds ==
    ASSUME NEW text \in Seq(Chars), NEW n \in 0..Len(text)
    PROVE  Take(text, n) \in Seq(Chars) /\ Len(Take(text, n)) = n
<1>1. \A i \in 1..n : text[i] \in Chars
  OBVIOUS
<1>2. 1 \in Int /\ n \in Int
  OBVIOUS
<1>3. /\ SubSeq(text, 1, n) \in Seq(Chars)
      /\ Len(SubSeq(text, 1, n)) = IF 1 <= n THEN n - 1 + 1 ELSE 0
  BY <1>1, <1>2, SubSeqProperties
<1> QED BY <1>3 DEF Take

\* A text that is backed off from n characters has at most n.
LEMMA BackedOff ==
    ASSUME NEW text \in Seq(Chars), NEW n \in 0..Len(text)
    PROVE  /\ BackOffCombiningBoundary(n, text) \in Seq(Chars)
           /\ Len(BackOffCombiningBoundary(n, text)) <= n
<1>1. Len(text) \in Nat /\ n \in Nat
  OBVIOUS
<1>2. BackOff(n, text) \in 0..n
  BY <1>1, BackOffBounds
<1>3. BackOff(n, text) \in 0..Len(text)
  BY <1>1, <1>2
<1> QED BY <1>1, <1>2, <1>3, TakeBounds DEF BackOffCombiningBoundary

LEMMA Joined ==
    ASSUME NEW s \in Seq(Chars), NEW t \in Seq(Chars)
    PROVE  /\ s \o t \in Seq(Chars)
           /\ Len(s \o t) = Len(s) + Len(t)
           /\ \A i \in 1..Len(s) : (s \o t)[i] = s[i]
<1>1. /\ s \o t \in Seq(Chars)
      /\ Len(s \o t) = Len(s) + Len(t)
      /\ \A i \in 1..Len(s) + Len(t) :
            (s \o t)[i] = IF i <= Len(s) THEN s[i] ELSE t[i - Len(s)]
  BY ConcatProperties
<1>2. Len(s) \in Nat /\ Len(t) \in Nat
  OBVIOUS
<1> QED BY <1>1, <1>2

LEMMA CloserType == CodeFenceCloser \in Seq(Chars) /\ Len(CodeFenceCloser) = 4
BY DEF CodeFenceCloser, Chars

LEMMA NoticeType == TruncationNotice \in Seq(Chars) /\ Len(TruncationNotice) = NoticeLength
BY FormatAssumption DEF TruncationNotice, Chars

\* Closing the fence stays inside the budget of the content.
LEMMA ClosedInBudget ==
    ASSUME NEW content \in Seq(Chars), NEW budget \in Nat, Len(content) <= budget
    PROVE  /\ CloseUnbalancedFence(content, budget) \in Seq(Chars)
           /\ Len(CloseUnbalancedFence(content, budget)) <= budget
<1> DEFINE short == BackOffCombiningBoundary(budget - Len(CodeFenceCloser), content)
<1>1. CASE CodeFences(content) % 2 = 0
  BY <1>1 DEF CloseUnbalancedFence
<1>2. CASE CodeFences(content) % 2 # 0 /\ Len(content) + Len(CodeFenceCloser) <= budget
  <2>1. CloseUnbalancedFence(content, budget) = content \o CodeFenceCloser
    BY <1>2 DEF CloseUnbalancedFence
  <2>2. /\ content \o CodeFenceCloser \in Seq(Chars)
        /\ Len(content \o CodeFenceCloser) = Len(content) + Len(CodeFenceCloser)
    BY CloserType, Joined
  <2> QED BY <1>2, <2>1, <2>2
<1>3. CASE /\ CodeFences(content) % 2 # 0
           /\ ~(Len(content) + Len(CodeFenceCloser) <= budget)
           /\ Len(CodeFenceCloser) > budget
  BY <1>3 DEF CloseUnbalancedFence
<1>4. CASE /\ CodeFences(content) % 2 # 0
           /\ ~(Len(content) + Len(CodeFenceCloser) <= budget)
           /\ ~(Len(CodeFenceCloser) > budget)
  <2>1. CloseUnbalancedFence(content, budget) = short \o CodeFenceCloser
    BY <1>4 DEF CloseUnbalancedFence
  <2>2. budget - Len(CodeFenceCloser) \in 0..Len(content)
    BY <1>4, CloserType
  <2>3. short \in Seq(Chars) /\ Len(short) <= budget - Len(CodeFenceCloser)
    BY <2>2, BackedOff
  <2> HIDE DEF short
  <2>4. /\ short \o CodeFenceCloser \in Seq(Chars)
        /\ Len(short \o CodeFenceCloser) = Len(short) + Len(CodeFenceCloser)
    BY <2>3, CloserType, Joined
  <2>5. Len(short) \in Nat /\ Len(CodeFenceCloser) = 4
    BY <2>3, CloserType
  <2>6. Len(short) + Len(CodeFenceCloser) <= budget
    BY <2>3, <2>5
  <2> QED BY <2>1, <2>4, <2>6
<1> QED BY <1>1, <1>2, <1>3, <1>4

\* The content in front of the notice.
Content(text, limit) ==
    CloseUnbalancedFence(BackOffCombiningBoundary(ContentBudget(limit), text),
                         ContentBudget(limit))

LEMMA ContentInBudget ==
    ASSUME NEW text \in Seq(Chars), NEW limit \in Nat,
           limit < Len(text), NoticeLength < limit
    PROVE  /\ Content(text, limit) \in Seq(Chars)
           /\ Len(Content(text, limit)) <= limit - NoticeLength
<1>1. /\ ContentBudget(limit) = limit - NoticeLength
      /\ ContentBudget(limit) \in Nat
      /\ ContentBudget(limit) \in 0..Len(text)
  BY FormatAssumption DEF ContentBudget
<1>2. /\ BackOffCombiningBoundary(ContentBudget(limit), text) \in Seq(Chars)
      /\ Len(BackOffCombiningBoundary(ContentBudget(limit), text)) <= ContentBudget(limit)
  BY <1>1, BackedOff
<1> QED BY <1>1, <1>2, ClosedInBudget DEF Content

\* A cut answer with room for the notice is its content and the notice.
LEMMA CutReply ==
    ASSUME NEW text \in Seq(Chars), NEW limit \in Nat,
           limit < Len(text), NoticeLength < limit
    PROVE  ApplyResponseLengthPolicy(text, limit) = Content(text, limit) \o TruncationNotice
BY FormatAssumption DEF ApplyResponseLengthPolicy, Fits, Content

\* The policy keeps the limit, whatever the text, the limit and the notice.
LEMMA PolicyInLimit ==
    ASSUME NEW text \in Seq(Chars), NEW limit \in Nat
    PROVE  Len(ApplyResponseLengthPolicy(text, limit)) <= limit
<1>1. CASE limit <= 0
  BY <1>1 DEF ApplyResponseLengthPolicy
<1>2. CASE limit > 0 /\ Len(text) <= limit
  BY <1>2 DEF ApplyResponseLengthPolicy, Fits
<1>3. CASE limit > 0 /\ Len(text) > limit /\ NoticeLength >= limit
  <2>1. ApplyResponseLengthPolicy(text, limit) = BackOffCombiningBoundary(limit, text)
    BY <1>3 DEF ApplyResponseLengthPolicy, Fits
  <2> QED BY <1>3, <2>1, BackedOff
<1>4. CASE Len(text) > limit /\ NoticeLength < limit
  <2>1. /\ Content(text, limit) \in Seq(Chars)
        /\ Len(Content(text, limit)) <= limit - NoticeLength
    BY <1>4, ContentInBudget
  <2>2. ApplyResponseLengthPolicy(text, limit) = Content(text, limit) \o TruncationNotice
    BY <1>4, CutReply
  <2> QED BY <2>1, <2>2, NoticeType, Joined, FormatAssumption
<1> QED BY <1>1, <1>2, <1>3, <1>4, FormatAssumption

LEMMA TextTyped == Init => TypeOK
BY DEF Init, TypeOK

LEMMA WriteKeepsType ==
    ASSUME TypeOK, NEW glyph \in Glyphs, Write(glyph)
    PROVE  TypeOK'
<1>1. glyph \in Seq(Chars)
  BY FormatAssumption
<1> QED BY <1>1, Joined DEF Write, TypeOK

LEMMA AnswerInLimit == TypeOK => WithinLimit
<1> SUFFICES ASSUME TypeOK, NEW limit \in Limits PROVE Len(Reply(limit)) <= limit
  BY DEF WithinLimit
<1>1. limit \in Nat /\ answer \in Seq(Chars)
  BY FormatAssumption DEF TypeOK
<1> QED BY <1>1, PolicyInLimit DEF Reply

LEMMA CutAnnounced == TypeOK => SaysWhenCut
<1> SUFFICES ASSUME TypeOK, NEW limit \in Limits
             PROVE  IF Len(answer) <= limit THEN Reply(limit) = answer
                    ELSE limit > NoticeLength =>
                          \E n \in 0..limit :
                              Reply(limit) = Take(Reply(limit), n) \o TruncationNotice
  BY DEF SaysWhenCut
<1>1. limit \in Nat /\ answer \in Seq(Chars)
  BY FormatAssumption DEF TypeOK
<1>2. ASSUME Len(answer) <= limit PROVE Reply(limit) = answer
  <2>1. CASE limit <= 0
    <3>1. Len(answer) = 0
      BY <1>1, <1>2, <2>1
    <3>2. answer = <<>>
      BY <1>1, <3>1, EmptySeq
    <3> QED BY <2>1, <3>2 DEF Reply, ApplyResponseLengthPolicy
  <2>2. CASE limit > 0
    BY <1>1, <1>2, <2>2 DEF Reply, ApplyResponseLengthPolicy, Fits
  <2> QED BY <1>1, <2>1, <2>2
<1>3. ASSUME Len(answer) > limit, limit > NoticeLength
      PROVE  \E n \in 0..limit : Reply(limit) = Take(Reply(limit), n) \o TruncationNotice
  <2> DEFINE content == Content(answer, limit)
  <2>1. content \in Seq(Chars) /\ Len(content) <= limit - NoticeLength
    BY <1>1, <1>3, ContentInBudget, FormatAssumption
  <2>2. Reply(limit) = content \o TruncationNotice
    BY <1>1, <1>3, CutReply, FormatAssumption DEF Reply
  <2> HIDE DEF content
  <2>3. Take(content \o TruncationNotice, Len(content)) = content
    <3> DEFINE whole == content \o TruncationNotice
               part == Take(whole, Len(content))
    <3>1. /\ whole \in Seq(Chars)
          /\ Len(whole) = Len(content) + NoticeLength
          /\ \A i \in 1..Len(content) : whole[i] = content[i]
      BY <2>1, NoticeType, Joined, FormatAssumption
    <3> HIDE DEF whole
    <3>2. Len(content) \in 0..Len(whole)
      BY <2>1, <3>1, FormatAssumption
    <3>3. part \in Seq(Chars) /\ Len(part) = Len(content)
      BY <3>1, <3>2, TakeBounds
    <3>4. \A i \in 1..Len(content) : part[i] = whole[i]
      <4>1. \A i \in 1..Len(content) : whole[i] \in Chars
        BY <3>1, <3>2
      <4>2. \A i \in 1..(Len(content) - 1 + 1) :
                SubSeq(whole, 1, Len(content))[i] = whole[1 + i - 1]
        BY <4>1, <2>1, SubSeqProperties
      <4> QED BY <2>1, <4>2 DEF Take
    <3> HIDE DEF part
    <3>5. part = content
      BY <2>1, <3>1, <3>3, <3>4, SeqEqual
    <3> QED BY <3>5 DEF part, whole
  <2>4. Len(content) \in 0..limit
    BY <1>1, <2>1, FormatAssumption
  <2> QED BY <2>2, <2>3, <2>4
<1>4. Len(answer) <= limit \/ Len(answer) > limit
  BY <1>1
<1> QED BY <1>1, <1>2, <1>3, <1>4

LEMMA Typed == Spec => []TypeOK
<1>1. TypeOK /\ [Next]_vars => TypeOK'
  <2> SUFFICES ASSUME TypeOK, [Next]_vars PROVE TypeOK'
    OBVIOUS
  <2>1. CASE Next
    BY <2>1, WriteKeepsType DEF Next
  <2>2. CASE UNCHANGED vars
    BY <2>2 DEF vars, TypeOK
  <2> QED BY <2>1, <2>2
<1> QED BY <1>1, TextTyped, PTL DEF Spec

\* No reply is longer than the limit: neither the notice nor a closing fence
\* that was added after the cut can push it over (CTR-SB-005).
THEOREM RepliesFit == Spec => []WithinLimit
BY AnswerInLimit, Typed, PTL

\* An answer that fits is posted as it is; one that does not ends in the notice
\* when the limit has room for it (AC-SB-006-2).
THEOREM CutsAreAnnounced == Spec => []SaysWhenCut
BY CutAnnounced, Typed, PTL
-----------------------------------------------------------------------------
(* Glyphs *)

\* A run of one class depends on the text up to its end only.
LEMMA RunPrefix ==
    ASSUME NEW s, NEW t, NEW end \in Nat, NEW c, \A i \in 1..end : t[i] = s[i]
    PROVE  RunBefore(t, end, c) = RunBefore(s, end, c)
<1>1. ASSUME NEW k \in 1..end
      PROVE  (\A j \in k..end : t[j] = c) <=> (\A j \in k..end : s[j] = c)
  BY <1>1
<1>2. {k \in 1..end : \A j \in k..end : t[j] = c} = {k \in 1..end : \A j \in k..end : s[j] = c}
  BY <1>1
<1> QED BY <1>2 DEF RunBefore

\* One more character of the class makes the run one longer.
LEMMA RunGrows ==
    ASSUME NEW text, NEW end \in Nat, NEW c, text[end + 1] = c
    PROVE  /\ RunBefore(text, end, c) \in Nat
           /\ RunBefore(text, end + 1, c) = RunBefore(text, end, c) + 1
<1> DEFINE Run(n) == {k \in 1..n : \A j \in k..n : text[j] = c}
<1>1. Run(end + 1) = Run(end) \cup {end + 1}
  <2>1. ASSUME NEW k \in 1..end
        PROVE  k \in Run(end + 1) <=> k \in Run(end)
    BY <2>1
  <2>2. end + 1 \in Run(end + 1)
    OBVIOUS
  <2>3. Run(end + 1) \subseteq 1..(end + 1) /\ Run(end) \subseteq 1..end
    OBVIOUS
  <2> HIDE DEF Run
  <2>4. 1..(end + 1) = (1..end) \cup {end + 1}
    OBVIOUS
  <2> QED BY <2>1, <2>2, <2>3, <2>4
<1>2. IsFiniteSet(Run(end)) /\ end + 1 \notin Run(end)
  <2>1. Run(end) \in SUBSET (1..end)
    OBVIOUS
  <2>2. IsFiniteSet(1..end)
    BY FS_Interval, 1 \in Int, end \in Int
  <2> QED BY <2>1, <2>2, FS_Subset
<1>3. RunBefore(text, end, c) = Cardinality(Run(end))
      /\ RunBefore(text, end + 1, c) = Cardinality(Run(end + 1))
  BY DEF RunBefore
<1> HIDE DEF Run
<1>4. Cardinality(Run(end)) \in Nat
  BY <1>2, FS_CardinalityType
<1>5. Cardinality(Run(end) \cup {end + 1}) = Cardinality(Run(end)) + 1
  BY <1>2, FS_AddElement
<1> QED BY <1>1, <1>3, <1>4, <1>5

\* Whether a cut splits a glyph is seen in the text up to the next character.
LEMMA SplitsPrefix ==
    ASSUME NEW s \in Seq(Chars), NEW t \in Seq(Chars), NEW end \in Nat \ {0},
           end < Len(s), end < Len(t), \A i \in 1..(end + 1) : t[i] = s[i]
    PROVE  SplitsGlyph(t, end) <=> SplitsGlyph(s, end)
<1>1. t[end] = s[end] /\ t[end + 1] = s[end + 1]
  OBVIOUS
<1>2. \A i \in 1..end : t[i] = s[i]
  OBVIOUS
<1>3. RunBefore(t, end, "flag") = RunBefore(s, end, "flag")
  BY <1>2, RunPrefix
<1> QED BY <1>1, <1>3 DEF SplitsGlyph

\* Every place in the text is marked as the end of a glyph, or no cut may be there.
KnowsItsEnds(text, marks) ==
    /\ {0, Len(text)} \subseteq marks
    /\ \A end \in 1..(Len(text) - 1) : end \in marks \/ SplitsGlyph(text, end)

\* The loop stops at the first place from the right where a cut is allowed.
LEMMA BackOffStops ==
    ASSUME NEW n \in Nat, NEW source
    PROVE  /\ BackOff(n, source) \in 0..n
           /\ BackOff(n, source) = 0 \/ ~SplitsGlyph(source, BackOff(n, source))
<1> DEFINE Dropped == {k \in 1..n : \A end \in k..n : SplitsGlyph(source, end)}
           m == BackOff(n, source)
<1>1. m \in 0..n
  BY BackOffBounds
<1>2. IsFiniteSet(1..n)
  BY FS_Interval, 1 \in Int, n \in Int
<1>3. Dropped \in SUBSET (1..n) /\ IsFiniteSet(Dropped)
  <2>1. Dropped \in SUBSET (1..n)
    OBVIOUS
  <2> QED BY <1>2, <2>1, FS_Subset
<1>4. Cardinality(Dropped) \in Nat /\ m = n - Cardinality(Dropped)
  BY <1>3, FS_CardinalityType DEF BackOff
\* What is dropped reaches up to n, so its first place tells how much it is.
<1>5. \A k \in Dropped : k >= m + 1
  <2> SUFFICES ASSUME NEW k \in Dropped PROVE k >= m + 1
    OBVIOUS
  <2>1. k \in 1..n /\ k..n \in SUBSET Dropped
    OBVIOUS
  <2> HIDE DEF Dropped, m
  <2>2. Cardinality(k..n) = n - k + 1
    BY <2>1, FS_Interval, k \in Int, n \in Int
  <2>3. Cardinality(k..n) <= Cardinality(Dropped)
    BY <1>3, <2>1, FS_Subset
  <2> QED BY <1>1, <1>4, <2>1, <2>2, <2>3
<1>6. Dropped = (m + 1)..n
  <2>0. ASSUME NEW k \in Dropped PROVE k \in 1..n
    BY <2>0
  <2> HIDE DEF Dropped, m
  <2>1. Dropped \in SUBSET ((m + 1)..n)
    BY <1>1, <1>5, <2>0
  <2>2. IsFiniteSet((m + 1)..n) /\ Cardinality((m + 1)..n) = n - m
    <3>1. m + 1 \in Int /\ n \in Int /\ (m + 1 > n => n - m = 0)
      BY <1>1
    <3>2. /\ IsFiniteSet((m + 1)..n)
          /\ Cardinality((m + 1)..n) = IF m + 1 > n THEN 0 ELSE n - (m + 1) + 1
      BY <3>1, FS_Interval
    <3> QED BY <1>1, <3>1, <3>2
  <2>3. Cardinality((m + 1)..n) = Cardinality(Dropped)
    BY <1>1, <1>4, <2>2
  <2> QED BY <2>1, <2>2, <2>3, FS_Subset
<1>7. ASSUME m # 0 PROVE ~SplitsGlyph(source, m)
  <2>1. m \in 1..n /\ m \notin Dropped
    <3> HIDE DEF Dropped, m
    <3> QED BY <1>1, <1>6, <1>7
  <2>2. PICK end \in m..n : ~SplitsGlyph(source, end)
    BY <2>1
  <2>3. end \notin (m + 1)..n
    <3>1. \A k \in Dropped : SplitsGlyph(source, k)
      OBVIOUS
    <3> HIDE DEF Dropped, m
    <3> QED BY <1>6, <2>2, <3>1
  <2> HIDE DEF Dropped, m
  <2> QED BY <2>1, <2>2, <2>3
<1> HIDE DEF Dropped
<1> QED BY <1>1, <1>7

\* So it stops at the end of a glyph.
LEMMA BackOffAtGlyph ==
    ASSUME NEW text \in Seq(Chars), NEW marks, KnowsItsEnds(text, marks),
           NEW n \in 0..Len(text)
    PROVE  BackOff(n, text) \in marks \cap (0..n)
<1>1. n \in Nat /\ Len(text) \in Nat
  OBVIOUS
<1>2. /\ BackOff(n, text) \in 0..n
      /\ BackOff(n, text) = 0 \/ ~SplitsGlyph(text, BackOff(n, text))
  BY <1>1, BackOffStops
<1> QED BY <1>1, <1>2 DEF KnowsItsEnds

LEMMA Taken ==
    ASSUME NEW text \in Seq(Chars), NEW n \in 0..Len(text)
    PROVE  /\ Take(text, n) \in Seq(Chars) /\ Len(Take(text, n)) = n
           /\ \A i \in 1..n : Take(text, n)[i] = text[i]
<1>1. \A i \in 1..n : text[i] \in Chars
  OBVIOUS
<1>2. \A i \in 1..(n - 1 + 1) : SubSeq(text, 1, n)[i] = text[1 + i - 1]
  BY <1>1, 1 \in Int, n \in Int, SubSeqProperties
<1> QED BY <1>2, TakeBounds DEF Take

LEMMA TakeTwice ==
    ASSUME NEW text \in Seq(Chars), NEW n \in 0..Len(text), NEW m \in 0..n
    PROVE  Take(Take(text, n), m) = Take(text, m)
<1>1. Len(text) \in Nat
  OBVIOUS
<1>2. m \in 0..Len(text)
  BY <1>1
<1>3. /\ Take(text, n) \in Seq(Chars) /\ Len(Take(text, n)) = n
      /\ \A i \in 1..n : Take(text, n)[i] = text[i]
  BY Taken
<1>4. /\ Take(text, m) \in Seq(Chars) /\ Len(Take(text, m)) = m
      /\ \A i \in 1..m : Take(text, m)[i] = text[i]
  BY <1>2, Taken
<1> DEFINE part == Take(text, n)
<1>5. part \in Seq(Chars) /\ m \in 0..Len(part)
  BY <1>3
<1>6. \A i \in 1..m : part[i] = text[i]
  BY <1>1, <1>3
<1> HIDE DEF part
<1>7. /\ Take(part, m) \in Seq(Chars) /\ Len(Take(part, m)) = m
      /\ \A i \in 1..m : Take(part, m)[i] = part[i]
  BY <1>5, Taken
<1>8. Take(part, m) = Take(text, m)
  BY <1>4, <1>6, <1>7, SeqEqual
<1> QED BY <1>8 DEF part

\* A text that was cut at the end of a glyph knows its ends as well.
LEMMA CutKnowsItsEnds ==
    ASSUME NEW text \in Seq(Chars), NEW marks, KnowsItsEnds(text, marks),
           NEW n \in 0..Len(text), n \in marks
    PROVE  KnowsItsEnds(Take(text, n), marks)
<1> DEFINE part == Take(text, n)
<1>1. /\ part \in Seq(Chars) /\ Len(part) = n
      /\ \A i \in 1..n : part[i] = text[i]
  BY Taken
<1> HIDE DEF part
<1>2. ASSUME NEW end \in 1..(n - 1)
      PROVE  end \in marks \/ SplitsGlyph(part, end)
  <2>1. /\ end \in Nat \ {0} /\ end < Len(part) /\ end < Len(text)
        /\ \A i \in 1..(end + 1) : part[i] = text[i]
    BY <1>1
  <2>2. SplitsGlyph(part, end) <=> SplitsGlyph(text, end)
    BY <1>1, <2>1, SplitsPrefix
  <2>3. end \in 1..(Len(text) - 1)
    BY <2>1
  <2> QED BY <2>2, <2>3 DEF KnowsItsEnds
<1>3. KnowsItsEnds(part, marks)
  BY <1>1, <1>2 DEF KnowsItsEnds
<1> QED BY <1>3 DEF part

\* What remains of a text, with a closing fence or without.
Closers == {<<>>, CodeFenceCloser}

LEMMA ClosedAtGlyph ==
    ASSUME NEW text \in Seq(Chars), NEW marks, KnowsItsEnds(text, marks),
           NEW n \in 0..Len(text), n \in marks, NEW budget \in Nat, n <= budget
    PROVE  \E end \in marks \cap (0..Len(text)), closer \in Closers :
              CloseUnbalancedFence(Take(text, n), budget) = Take(text, end) \o closer
<1> DEFINE content == Take(text, n)
<1>1. content \in Seq(Chars) /\ Len(content) = n
  BY Taken
<1>2. KnowsItsEnds(content, marks)
  BY CutKnowsItsEnds
<1>3. n \in marks \cap (0..Len(text)) /\ <<>> \in Closers /\ CodeFenceCloser \in Closers
  BY DEF Closers
<1>4. content = Take(text, n) \o <<>>
  BY <1>1, ConcatEmptySeq
<1>5. CASE CloseUnbalancedFence(content, budget) = content
  BY <1>3, <1>4, <1>5
<1>6. CASE CloseUnbalancedFence(content, budget) = content \o CodeFenceCloser
  BY <1>3, <1>6
<1>7. CASE /\ CloseUnbalancedFence(content, budget) =
                 BackOffCombiningBoundary(budget - Len(CodeFenceCloser), content) \o CodeFenceCloser
           /\ ~(Len(content) + Len(CodeFenceCloser) <= budget)
           /\ ~(Len(CodeFenceCloser) > budget)
  <2> DEFINE room == budget - Len(CodeFenceCloser)
             end == BackOff(room, content)
  <2>1. room \in 0..n
    BY <1>1, <1>7, CloserType
  <2>2. end \in marks \cap (0..room)
    <3> HIDE DEF content, room
    <3>1. room \in 0..Len(content)
      BY <1>1, <2>1
    <3> QED BY <1>1, <1>2, <3>1, BackOffAtGlyph
  <2> HIDE DEF room, end
  <2>3. end \in 0..n /\ Len(text) \in Nat
    BY <2>1, <2>2
  <2>4. Take(content, end) = Take(text, end)
    BY <2>3, TakeTwice
  <2>5. CloseUnbalancedFence(content, budget) = Take(text, end) \o CodeFenceCloser
    BY <1>7, <2>4 DEF BackOffCombiningBoundary, room, end
  <2>6. end \in marks \cap (0..Len(text))
    BY <2>2, <2>3
  <2> QED BY <1>3, <2>5, <2>6
<1>8. \/ CloseUnbalancedFence(content, budget) = content
      \/ CloseUnbalancedFence(content, budget) = content \o CodeFenceCloser
      \/ /\ CloseUnbalancedFence(content, budget) =
               BackOffCombiningBoundary(budget - Len(CodeFenceCloser), content) \o CodeFenceCloser
         /\ ~(Len(content) + Len(CodeFenceCloser) <= budget)
         /\ ~(Len(CodeFenceCloser) > budget)
  BY DEF CloseUnbalancedFence
<1> HIDE DEF content
<1>9. QED BY <1>5, <1>6, <1>7, <1>8 DEF content

\* The policy cuts a text that knows its ends at one of them.
LEMMA PolicyAtGlyph ==
    ASSUME NEW text \in Seq(Chars), NEW marks, KnowsItsEnds(text, marks), NEW limit \in Nat
    PROVE  \E end \in marks, closer \in Closers, notice \in {<<>>, TruncationNotice} :
              ApplyResponseLengthPolicy(text, limit) = Take(text, end) \o closer \o notice
<1>0. /\ 0 \in marks /\ Len(text) \in marks /\ Len(text) \in Nat
      /\ <<>> \in Closers /\ <<>> \in {<<>>, TruncationNotice}
  BY DEF KnowsItsEnds, Closers
\* A plain cut is one without a closer and a notice.
<1>p. ASSUME NEW n \in 0..Len(text)
      PROVE  Take(text, n) = Take(text, n) \o <<>> \o <<>>
  BY <1>p, TakeBounds, ConcatEmptySeq
<1>1. CASE limit <= 0
  <2>1. Take(text, 0) = <<>>
    BY SubSeqEmpty, 1 \in Int, 0 \in Int DEF Take
  <2>2. 0 \in 0..Len(text)
    BY <1>0
  <2>3. ApplyResponseLengthPolicy(text, limit) = Take(text, 0) \o <<>> \o <<>>
    BY <1>1, <1>p, <2>1, <2>2 DEF ApplyResponseLengthPolicy
  <2> QED BY <1>0, <2>3
<1>2. CASE limit > 0 /\ Len(text) <= limit
  <2>1. Take(text, Len(text)) = text
    BY SubSeqFull DEF Take
  <2>2. Len(text) \in 0..Len(text)
    BY <1>0
  <2>3. ApplyResponseLengthPolicy(text, limit) = Take(text, Len(text)) \o <<>> \o <<>>
    BY <1>2, <1>p, <2>1, <2>2 DEF ApplyResponseLengthPolicy, Fits
  <2> QED BY <1>0, <2>3
<1>3. CASE limit > 0 /\ Len(text) > limit /\ NoticeLength >= limit
  <2> DEFINE end == BackOff(limit, text)
  <2>1. limit \in 0..Len(text)
    BY <1>0, <1>3
  <2>2. end \in marks \cap (0..limit)
    BY <2>1, BackOffAtGlyph
  <2>3. ApplyResponseLengthPolicy(text, limit) = Take(text, end)
    BY <1>3 DEF ApplyResponseLengthPolicy, Fits, BackOffCombiningBoundary
  <2> HIDE DEF end
  <2>4. end \in 0..Len(text)
    BY <1>0, <2>1, <2>2
  <2>5. ApplyResponseLengthPolicy(text, limit) = Take(text, end) \o <<>> \o <<>>
    BY <1>p, <2>3, <2>4
  <2> QED BY <1>0, <2>2, <2>5
<1>4. CASE Len(text) > limit /\ NoticeLength < limit
  <2> DEFINE budget == ContentBudget(limit)
             n == BackOff(budget, text)
  <2>1. budget \in Nat /\ budget \in 0..Len(text)
    BY <1>0, <1>4, FormatAssumption DEF ContentBudget
  <2>2. n \in marks \cap (0..budget)
    <3> HIDE DEF budget
    <3> QED BY <2>1, BackOffAtGlyph
  <2>3. Content(text, limit) = CloseUnbalancedFence(Take(text, n), budget)
    BY DEF Content, BackOffCombiningBoundary
  <2> HIDE DEF budget, n
  <2>4. n \in 0..Len(text) /\ n \in marks /\ n <= budget
    BY <1>0, <2>1, <2>2
  <2>5. PICK end \in marks \cap (0..Len(text)), closer \in Closers :
            CloseUnbalancedFence(Take(text, n), budget) = Take(text, end) \o closer
    BY <2>1, <2>4, ClosedAtGlyph, ZenonT(60)
  <2>6. ApplyResponseLengthPolicy(text, limit) = Take(text, end) \o closer \o TruncationNotice
    BY <1>4, <2>3, <2>5, CutReply
  <2> QED BY <2>5, <2>6
<1>5. NoticeLength \in Nat /\ (limit <= 0 \/ limit > 0)
      /\ (Len(text) <= limit \/ Len(text) > limit) /\ (NoticeLength >= limit \/ NoticeLength < limit)
      /\ (limit <= 0 \/ ~(NoticeLength < limit) \/ limit > 0)
  BY <1>0, FormatAssumption
<1> QED BY <1>1, <1>2, <1>3, <1>4, <1>5, Zenon

\* The history of an answer tells where it may be cut.
GlyphInv == TypeOK /\ KnowsItsEnds(answer, ends)

LEMMA NoGlyphYet ==
    ASSUME answer = <<>>, ends = {0}
    PROVE  GlyphInv
BY DEF GlyphInv, TypeOK, KnowsItsEnds

LEMMA WriteKnowsItsEnds ==
    ASSUME GlyphInv, NEW glyph \in Glyphs, Write(glyph)
    PROVE  GlyphInv'
<1> DEFINE text == answer
           after == answer'
           L == Len(answer)
<1>1. glyph \in Seq(Chars) /\ text \in Seq(Chars) /\ L \in Nat /\ Len(glyph) \in Nat
  BY FormatAssumption DEF GlyphInv, TypeOK
<1>2. /\ after \in Seq(Chars) /\ Len(after) = L + Len(glyph)
      /\ \A i \in 1..L + Len(glyph) : after[i] = IF i <= L THEN text[i] ELSE glyph[i - L]
  BY <1>1, ConcatProperties DEF Write
<1>3. ends' = ends \cup {L + Len(glyph)} /\ ~Completes(glyph)
  BY DEF Write
<1>4. {0, L} \subseteq ends /\ \A end \in 1..(L - 1) : end \in ends \/ SplitsGlyph(text, end)
  BY DEF GlyphInv, KnowsItsEnds
<1>5. IsGlyph(glyph)
  BY GlyphAssumption
<1>6. Completes(glyph) <=>
        glyph # <<>> /\ glyph[1] = "flag" /\ RunBefore(text, L, "flag") % 2 = 1
  BY DEF Completes
<1> HIDE DEF text, after, L
<1>7. ASSUME NEW end \in 1..(Len(after) - 1)
      PROVE  end \in ends' \/ SplitsGlyph(after, end)
  <2>0. end \in Nat \ {0} /\ end < Len(after)
    BY <1>1, <1>2
  <2>1. CASE end < L
    <3>1. \A i \in 1..(end + 1) : after[i] = text[i]
      BY <1>1, <1>2, <2>0, <2>1
    <3>2. SplitsGlyph(after, end) <=> SplitsGlyph(text, end)
      BY <1>1, <1>2, <2>0, <2>1, <3>1, SplitsPrefix DEF L, text
    <3>3. end \in 1..(L - 1)
      BY <1>1, <2>0, <2>1
    <3> QED BY <1>3, <1>4, <3>2, <3>3
  <2>2. CASE end = L
    BY <1>3, <1>4, <2>2
  <2>3. CASE end > L
    <3> DEFINE i == end - L
    <3>1. i \in 1..(Len(glyph) - 1)
      BY <1>1, <1>2, <2>0, <2>3
    <3>2. after[end] = glyph[i] /\ after[end + 1] = glyph[i + 1]
      BY <1>1, <1>2, <2>0, <2>3
    <3>3. CASE glyph[i] = "joiner" \/ glyph[i + 1] \in CombiningBoundaryRisk
      BY <2>0, <3>2, <3>3 DEF SplitsGlyph
    <3>4. CASE i = 1 /\ glyph[1] = "flag" /\ glyph[2] = "flag"
      <4>1. glyph # <<>> /\ end = L + 1
        BY <1>1, <3>1, <3>4, <2>0
      <4>2. RunBefore(text, L, "flag") % 2 # 1
        BY <1>3, <1>6, <3>4, <4>1
      <4>3. RunBefore(after, L, "flag") = RunBefore(text, L, "flag")
        <5>1. \A k \in 1..L : after[k] = text[k]
          BY <1>1, <1>2
        <5> QED BY <1>1, <5>1, RunPrefix
      <4>4. after[L + 1] = "flag" /\ after[end + 1] = "flag"
        BY <3>2, <3>4, <4>1
      <4>5. /\ RunBefore(after, L, "flag") \in Nat
            /\ RunBefore(after, L + 1, "flag") = RunBefore(after, L, "flag") + 1
        BY <1>1, <4>4, RunGrows
      <4>6. RunBefore(after, end, "flag") % 2 = 1
        BY <4>1, <4>2, <4>3, <4>5
      <4> QED BY <2>0, <4>4, <4>6 DEF SplitsGlyph
    <3> QED BY <1>5, <3>1, <3>3, <3>4 DEF IsGlyph
  <2> QED BY <1>1, <2>0, <2>1, <2>2, <2>3
<1>8. {0, Len(after)} \subseteq ends'
  BY <1>2, <1>3, <1>4
<1>9. KnowsItsEnds(after, ends')
  BY <1>7, <1>8 DEF KnowsItsEnds
<1> QED BY <1>2, <1>9 DEF GlyphInv, TypeOK, KnowsItsEnds, after

LEMMA CutsAtGlyphs == GlyphInv => GlyphsWhole
<1> SUFFICES ASSUME GlyphInv, NEW limit \in Limits
             PROVE  \E end \in ends, closer \in Closers, notice \in {<<>>, TruncationNotice} :
                        Reply(limit) = Take(answer, end) \o closer \o notice
  BY DEF GlyphsWhole, Closers
<1>1. limit \in Nat /\ answer \in Seq(Chars) /\ KnowsItsEnds(answer, ends)
  BY FormatAssumption DEF GlyphInv, TypeOK
<1> QED BY <1>1, PolicyAtGlyph, ZenonT(60) DEF Reply

\* Whatever the glyphs, the limit and the notice, both cuts of the policy end where
\* a glyph does: no accent, skin tone, joined emoji or flag is torn (format.py:126).
THEOREM GlyphsStayWhole == Spec => []GlyphsWhole
<1>1. Init => GlyphInv
  BY NoGlyphYet DEF Init
<1>2. GlyphInv /\ [Next]_vars => GlyphInv'
  <2> SUFFICES ASSUME GlyphInv, [Next]_vars PROVE GlyphInv'
    OBVIOUS
  <2>1. CASE Next
    BY <2>1, WriteKnowsItsEnds DEF Next
  <2>2. CASE UNCHANGED vars
    BY <2>2 DEF vars, GlyphInv, TypeOK, KnowsItsEnds
  <2> QED BY <2>1, <2>2
<1> QED BY <1>1, <1>2, CutsAtGlyphs, PTL DEF Spec
=============================================================================
