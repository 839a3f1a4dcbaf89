-------------------------- MODULE RepositoryReadsProofs --------------------------
(* What a call reads, for every repository, file, limit and change on GitHub. *)
EXTENDS RepositoryReads, FiniteSetTheorems, SequenceTheorems, TLAPS

-----------------------------------------------------------------------------
(* Lemmas about the operators *)

LEMMA Concatenated ==
    ASSUME NEW S, NEW s \in Seq(S), NEW t \in Seq(S)
    PROVE  /\ s \o t \in Seq(S)
           /\ Len(s \o t) = Len(s) + Len(t)
           /\ \A i \in 1..Len(s) + Len(t) :
                 (s \o t)[i] = IF i <= Len(s) THEN s[i] ELSE t[i - Len(s)]
BY ConcatProperties

LEMMA Sliced ==
    ASSUME NEW S, NEW s \in Seq(S), NEW a \in Nat \ {0}, NEW b \in 0..Len(s)
    PROVE  /\ SubSeq(s, a, b) \in Seq(S)
           /\ Len(SubSeq(s, a, b)) = IF a <= b THEN b - a + 1 ELSE 0
           /\ \A i \in 1..(b - a + 1) : SubSeq(s, a, b)[i] = s[a + i - 1]
<1>1. \A i \in a..b : s[i] \in S
  OBVIOUS
<1>2. a \in Int /\ b \in Int
  OBVIOUS
<1>3. /\ SubSeq(s, a, b) \in Seq(S)
      /\ Len(SubSeq(s, a, b)) = IF a <= b THEN b - a + 1 ELSE 0
      /\ \A i \in 1..(b - a + 1) : SubSeq(s, a, b)[i] = s[a + i - 1]
  BY <1>1, <1>2, SubSeqProperties
<1> QED BY <1>3

LEMMA Inserted ==
    ASSUME NEW S, NEW s \in Seq(S), NEW e \in S, NEW i \in 1..(Len(s) + 1)
    PROVE  /\ InsertAt(s, i, e) \in Seq(S)
           /\ Len(InsertAt(s, i, e)) = Len(s) + 1
           /\ \A j \in 1..(Len(s) + 1) :
                 InsertAt(s, i, e)[j] = IF j < i THEN s[j] ELSE IF j = i THEN e ELSE s[j - 1]
<1> DEFINE before == SubSeq(s, 1, i - 1)
           after == SubSeq(s, i, Len(s))
<1>0. Len(s) \in Nat /\ i \in Nat \ {0} /\ i - 1 \in 0..Len(s) /\ Len(s) \in 0..Len(s)
  OBVIOUS
<1>1. /\ before \in Seq(S) /\ Len(before) = i - 1
      /\ \A j \in 1..(i - 1) : before[j] = s[j]
  <2>1. 1 \in Nat \ {0}
    OBVIOUS
  <2>2. /\ before \in Seq(S) /\ Len(before) = IF 1 <= i - 1 THEN i - 1 - 1 + 1 ELSE 0
        /\ \A j \in 1..(i - 1 - 1 + 1) : before[j] = s[1 + j - 1]
    BY <1>0, <2>1, Sliced
  <2> QED BY <1>0, <2>2
<1>2. /\ after \in Seq(S) /\ Len(after) = Len(s) - i + 1
      /\ \A j \in 1..(Len(s) - i + 1) : after[j] = s[i + j - 1]
  <2>1. /\ after \in Seq(S) /\ Len(after) = IF i <= Len(s) THEN Len(s) - i + 1 ELSE 0
        /\ \A j \in 1..(Len(s) - i + 1) : after[j] = s[i + j - 1]
    BY <1>0, Sliced
  <2> QED BY <1>0, <2>1
<1> HIDE DEF before, after
<1>3. /\ before \o <<e>> \in Seq(S) /\ Len(before \o <<e>>) = i
      /\ \A j \in 1..i : (before \o <<e>>)[j] = IF j < i THEN s[j] ELSE e
  <2>1. <<e>> \in Seq(S) /\ Len(<<e>>) = 1 /\ <<e>>[1] = e
    OBVIOUS
  <2>2. /\ before \o <<e>> \in Seq(S) /\ Len(before \o <<e>>) = Len(before) + Len(<<e>>)
        /\ \A j \in 1..Len(before) + Len(<<e>>) :
              (before \o <<e>>)[j] = IF j <= Len(before) THEN before[j] ELSE <<e>>[j - Len(before)]
    BY <1>1, <2>1, Concatenated
  <2> QED BY <1>0, <1>1, <2>1, <2>2
<1>4. /\ (before \o <<e>>) \o after \in Seq(S)
      /\ Len((before \o <<e>>) \o after) = i + (Len(s) - i + 1)
      /\ \A j \in 1..(i + (Len(s) - i + 1)) :
            ((before \o <<e>>) \o after)[j] =
                IF j <= i THEN (before \o <<e>>)[j] ELSE after[j - i]
  <2> DEFINE front == before \o <<e>>
  <2>1. front \in Seq(S) /\ Len(front) = i
    BY <1>3
  <2>2. after \in Seq(S) /\ Len(after) = Len(s) - i + 1
    BY <1>2
  <2> HIDE DEF front
  <2>3. /\ front \o after \in Seq(S)
        /\ Len(front \o after) = Len(front) + Len(after)
        /\ \A j \in 1..Len(front) + Len(after) :
              (front \o after)[j] = IF j <= Len(front) THEN front[j] ELSE after[j - Len(front)]
    BY <2>1, <2>2, Concatenated
  <2>4. /\ front \o after \in Seq(S)
        /\ Len(front \o after) = i + (Len(s) - i + 1)
        /\ \A j \in 1..(i + (Len(s) - i + 1)) :
              (front \o after)[j] = IF j <= i THEN front[j] ELSE after[j - i]
    BY <2>1, <2>2, <2>3
  <2> QED BY <2>4 DEF front
<1>5. InsertAt(s, i, e) = (before \o <<e>>) \o after
  BY DEF InsertAt, before, after
<1>6. i + (Len(s) - i + 1) = Len(s) + 1
  BY <1>0
<1>7. ASSUME NEW j \in 1..(Len(s) + 1)
      PROVE  InsertAt(s, i, e)[j] = IF j < i THEN s[j] ELSE IF j = i THEN e ELSE s[j - 1]
  <2>1. CASE j <= i
    BY <1>0, <1>3, <1>4, <1>5, <1>6, <2>1
  <2>2. CASE j > i
    <3>1. j - i \in 1..(Len(s) - i + 1)
      BY <1>0, <2>2
    <3>2. after[j - i] = s[i + (j - i) - 1] /\ i + (j - i) - 1 = j - 1
      BY <1>0, <1>2, <3>1
    <3>3. j \in 1..(i + (Len(s) - i + 1)) /\ ~(j <= i)
      BY <1>0, <1>6, <2>2
    <3>4. ((before \o <<e>>) \o after)[j] = after[j - i]
      BY <1>4, <3>3
    <3>5. ~(j < i) /\ j # i
      BY <1>0, <2>2
    <3> QED BY <1>5, <3>2, <3>4, <3>5
  <2> QED BY <1>0, <2>1, <2>2
<1> QED BY <1>0, <1>4, <1>5, <1>6, <1>7

LEMMA Removed ==
    ASSUME NEW S, NEW s \in Seq(S), NEW i \in 1..Len(s)
    PROVE  /\ RemoveAt(s, i) \in Seq(S)
           /\ Len(RemoveAt(s, i)) = Len(s) - 1
           /\ \A j \in 1..(Len(s) - 1) : RemoveAt(s, i)[j] = IF j < i THEN s[j] ELSE s[j + 1]
<1> DEFINE before == SubSeq(s, 1, i - 1)
           after == SubSeq(s, i + 1, Len(s))
<1>0. Len(s) \in Nat /\ i \in Nat \ {0} /\ i + 1 \in Nat \ {0} /\ i - 1 \in 0..Len(s)
      /\ Len(s) \in 0..Len(s)
  OBVIOUS
<1>1. /\ before \in Seq(S) /\ Len(before) = i - 1
      /\ \A j \in 1..(i - 1) : before[j] = s[j]
  <2>1. 1 \in Nat \ {0}
    OBVIOUS
  <2>2. /\ before \in Seq(S) /\ Len(before) = IF 1 <= i - 1 THEN i - 1 - 1 + 1 ELSE 0
        /\ \A j \in 1..(i - 1 - 1 + 1) : before[j] = s[1 + j - 1]
    BY <1>0, <2>1, Sliced
  <2> QED BY <1>0, <2>2
<1>2. /\ after \in Seq(S) /\ Len(after) = Len(s) - i
      /\ \A j \in 1..(Len(s) - i) : after[j] = s[i + j]
  <2>1. /\ after \in Seq(S) /\ Len(after) = IF i + 1 <= Len(s) THEN Len(s) - (i + 1) + 1 ELSE 0
        /\ \A j \in 1..(Len(s) - (i + 1) + 1) : after[j] = s[(i + 1) + j - 1]
    BY <1>0, Sliced
  <2> QED BY <1>0, <2>1
<1> HIDE DEF before, after
<1>3. /\ before \o after \in Seq(S)
      /\ Len(before \o after) = Len(before) + Len(after)
      /\ \A j \in 1..Len(before) + Len(after) :
            (before \o after)[j] = IF j <= Len(before) THEN before[j] ELSE after[j - Len(before)]
  BY <1>1, <1>2, Concatenated
<1>4. RemoveAt(s, i) = before \o after
  BY DEF RemoveAt, before, after
<1>5. Len(before) + Len(after) = Len(s) - 1
  BY <1>0, <1>1, <1>2
<1>6. ASSUME NEW j \in 1..(Len(s) - 1)
      PROVE  RemoveAt(s, i)[j] = IF j < i THEN s[j] ELSE s[j + 1]
  <2>1. CASE j < i
    BY <1>0, <1>1, <1>3, <1>4, <1>5, <2>1
  <2>2. CASE j >= i
    <3>1. j - (i - 1) \in 1..(Len(s) - i)
      BY <1>0, <2>2
    <3>2. after[j - (i - 1)] = s[i + (j - (i - 1))] /\ i + (j - (i - 1)) = j + 1
      BY <1>0, <1>2, <3>1
    <3>3. (before \o after)[j] = after[j - (i - 1)]
      BY <1>0, <1>1, <1>3, <1>5, <2>2
    <3> QED BY <1>0, <1>4, <2>2, <3>2, <3>3
  <2> QED BY <1>0, <2>1, <2>2
<1> QED BY <1>3, <1>4, <1>5, <1>6

\* A cut is at the end of a character, at most three bytes before the limit.
LEMMA PrefixOfText ==
    ASSUME NEW body, WellFormed(body), body.kind = "text", body.size > MaxBytes
    PROVE  /\ PrefixEnd(body) \in body.ends
           /\ PrefixEnd(body) \in Nat
           /\ PrefixEnd(body) <= MaxBytes
           /\ PrefixEnd(body) >= MaxBytes - 3
<1> DEFINE First(k) == /\ MaxBytes - k \in body.ends
                       /\ \A j \in 0..(k - 1) : MaxBytes - j \notin body.ends
<1>1. /\ MaxBytes \in Nat /\ body.size \in Nat /\ body.ends \subseteq Nat
      /\ MaxBytes \in 0..body.size
  BY ReadsAssumption DEF WellFormed, Object
<1>2. PICK k \in 0..3 : MaxBytes - k \in body.ends
  BY <1>1 DEF WellFormed
<1>3. \E m \in 0..3 : First(m)
  <2>1. First(0) \/ First(1) \/ First(2) \/ First(3)
    BY <1>1, <1>2
  <2> QED BY <2>1
<1>4. First(CHOOSE m \in 0..3 : First(m)) /\ (CHOOSE m \in 0..3 : First(m)) \in 0..3
  BY <1>3
<1>5. PrefixEnd(body) = MaxBytes - (CHOOSE m \in 0..3 : First(m))
  BY DEF PrefixEnd
<1> HIDE DEF First
<1>6. MaxBytes - (CHOOSE m \in 0..3 : First(m)) \in body.ends
  BY <1>4 DEF First
<1> DEFINE chosen == CHOOSE m \in 0..3 : First(m)
<1>7. chosen \in 0..3 /\ PrefixEnd(body) = MaxBytes - chosen
      /\ MaxBytes - chosen \in body.ends /\ MaxBytes - chosen \in Nat
  BY <1>1, <1>4, <1>5, <1>6
<1> HIDE DEF chosen
<1> QED BY <1>1, <1>7

\* A page holds what is installed behind the n before it, up to its size.
LEMMA PageBehind ==
    ASSUME installed \in Seq(Repos), NEW n \in Nat
    PROVE  LET done == n * PageSize
           IN /\ done \in Nat /\ (n + 1) * PageSize = done + PageSize /\ PageSize \in Nat \ {0}
              /\ PageAfter(n) \in Seq(Repos)
              /\ \A i \in 1..Len(PageAfter(n)) :
                    /\ done + i \in 1..Len(installed) /\ i <= PageSize
                    /\ PageAfter(n)[i] = installed[done + i]
              /\ \A k \in 1..Len(installed) :
                    k > done /\ k <= done + PageSize => k - done \in 1..Len(PageAfter(n))
<1> DEFINE done == n * PageSize
           last == IF Len(installed) < done + PageSize THEN Len(installed) ELSE done + PageSize
<1>1. PageSize \in Nat \ {0}
  BY ReadsAssumption
<1>2. done \in Nat /\ (n + 1) * PageSize = done + PageSize
  BY <1>1
<1>3. Len(installed) \in Nat
  OBVIOUS
<1>4. PageAfter(n) = SubSeq(installed, done + 1, last)
  BY <1>2 DEF PageAfter
<1> HIDE DEF done
<1>5. last \in 0..Len(installed) /\ done + 1 \in Nat \ {0}
  BY <1>1, <1>2, <1>3
<1>9. last = IF Len(installed) < done + PageSize THEN Len(installed) ELSE done + PageSize
  OBVIOUS
<1> HIDE DEF last
<1>6. /\ PageAfter(n) \in Seq(Repos)
      /\ Len(PageAfter(n)) = IF done + 1 <= last THEN last - (done + 1) + 1 ELSE 0
      /\ \A i \in 1..(last - (done + 1) + 1) : PageAfter(n)[i] = installed[(done + 1) + i - 1]
  <2>1. /\ SubSeq(installed, done + 1, last) \in Seq(Repos)
        /\ Len(SubSeq(installed, done + 1, last)) =
              IF done + 1 <= last THEN last - (done + 1) + 1 ELSE 0
        /\ \A i \in 1..(last - (done + 1) + 1) :
              SubSeq(installed, done + 1, last)[i] = installed[(done + 1) + i - 1]
    BY <1>5, Sliced
  <2> QED BY <1>4, <2>1
<1>7. ASSUME NEW i \in 1..Len(PageAfter(n))
      PROVE  /\ done + i \in 1..Len(installed) /\ i <= PageSize
             /\ PageAfter(n)[i] = installed[done + i]
  <2>1. i \in 1..(last - (done + 1) + 1) /\ done + 1 <= last
    BY <1>2, <1>5, <1>6
  <2>2. PageAfter(n)[i] = installed[(done + 1) + i - 1] /\ (done + 1) + i - 1 = done + i
    BY <1>2, <1>6, <2>1
  <2>3. done + i \in 1..Len(installed) /\ i <= PageSize
    BY <1>1, <1>2, <1>3, <1>5, <1>9, <2>1
  <2> QED BY <2>2, <2>3
<1>8. ASSUME NEW k \in 1..Len(installed), k > done, k <= done + PageSize
      PROVE  k - done \in 1..Len(PageAfter(n))
  BY <1>1, <1>2, <1>3, <1>5, <1>6, <1>8, <1>9
<1> QED BY <1>1, <1>2, <1>6, <1>7, <1>8 DEF done

-----------------------------------------------------------------------------
(* Types *)

LEMMA Constant ==
    /\ Allowlist \subseteq Repos
    /\ PageSize \in Nat \ {0} /\ PageLimit \in Nat \ {0} /\ MaxResults \in Nat \ {0}
    /\ Quota \in Nat /\ MaxChanges \in Nat /\ MaxBytes \in Nat /\ RawMax \in Nat
    /\ \A o \in Objects \cup {Notice} : WellFormed(o)
    /\ \A o \in Objects \cup {Notice} : o.size \in Nat /\ o.kind \in Kinds
BY ReadsAssumption DEF WellFormed, Object

\* What content of a file or of a notice is made into.
LEMMA Classified ==
    ASSUME NEW body \in Objects \cup {Notice}, NEW total \in Nat
    PROVE  LET r == ClassifyContent(body, total)
           IN /\ r.kind = "file" /\ r.of = body /\ r.total = total /\ r.returned \in Nat
              /\ r.status \in {"complete", "truncated", "binary"}
              /\ r.status = "binary" <=> body.kind # "text"
              /\ r.status = "binary" => r.returned = 0
              /\ r.status = "complete" => r.returned = body.size /\ body.size <= MaxBytes
              /\ r.status = "truncated" => body.size > MaxBytes /\ r.returned >= MaxBytes - 3
              /\ r.status # "binary" => r.returned \in body.ends /\ r.returned <= MaxBytes
<1>1. WellFormed(body) /\ body.size \in Nat /\ MaxBytes \in Nat
  BY Constant
<1>2. CASE body.kind # "text"
  <2>1. ~IsValidUtf8(body)
    BY <1>1, <1>2 DEF WellFormed, IsValidUtf8
  <2> QED BY <1>2, <2>1 DEF ClassifyContent, FileContent
<1>3. CASE body.kind = "text" /\ body.size <= MaxBytes
  <2>1. IsValidUtf8(body) /\ body.size \in body.ends
    BY <1>1, <1>3 DEF WellFormed, IsValidUtf8
  <2> QED BY <1>1, <1>3, <2>1 DEF ClassifyContent, FileContent
<1>4. CASE body.kind = "text" /\ body.size > MaxBytes
  <2>1. IsValidUtf8(body)
    BY <1>1, <1>4 DEF WellFormed, IsValidUtf8
  <2>2. ~(body.size <= MaxBytes)
    BY <1>1, <1>4
  <2> QED BY <1>1, <1>4, <2>1, <2>2, PrefixOfText DEF ClassifyContent, FileContent
<1> QED BY <1>1, <1>2, <1>3, <1>4

LEMMA RefusalTypes == quota \in Nat => RefusalsNow \subseteq Refusal
BY DEF RefusalsNow, Refusals, Refusal

LEMMA Tellings ==
    ASSUME NEW answer
    PROVE  Told(answer) \in {"not found", "github error", "internal error", "rate limited"}
BY DEF Told

\* While the call goes on there are pages left to ask for.
PagesLeft == stage # "ended" => pages < PageLimit

LEMMA InitTyped == Init => ReadsTypeOK /\ PagesLeft
<1> SUFFICES ASSUME Init PROVE ReadsTypeOK /\ PagesLeft
  OBVIOUS
<1>1. installed \in Seq(Repos) /\ Range(installed) \subseteq Repos
  BY DEF Init, SeqOf, Range
<1>2. object \in Objects /\ {object} \in SUBSET Objects
  BY DEF Init
<1>3. past \in Pasts
  BY <1>1, <1>2 DEF Init, Pasts
<1>4. renamed \in BOOLEAN /\ quota \in 0..Quota /\ noted \in Nat \cup {NoSize}
      /\ stage \in {"idle", "asking", "ended"}
  BY DEF Init
<1>8. found \in Seq(Repos)
  <2>1. found = <<>>
    BY DEF Init
  <2> QED BY <2>1
<1>7. op \in Ops
  BY DEF Init
<1>5. changes \in 0..MaxChanges /\ pages \in 0..PageLimit
  BY Constant DEF Init
<1>6. result.kind = "none"
  BY DEF Init, NoResult
<1>9. PagesLeft
  BY Constant DEF Init, PagesLeft
<1> QED BY <1>1, <1>2, <1>3, <1>4, <1>5, <1>6, <1>7, <1>8, <1>9 DEF ReadsTypeOK

\* What all answers leave alone, and the ends a call can come to.
LEMMA AnswersTyped ==
    ASSUME ReadsTypeOK, Answers
    PROVE  /\ quota' \in 0..Quota
           /\ installed' = installed /\ object' = object /\ renamed' = renamed
           /\ changes' = changes /\ op' = op /\ past' = past
BY Constant DEF ReadsTypeOK, Answers

\* The result of a step, as the type invariant has it.
ResultOK ==
    /\ result.kind \in {"none", "error", "listing", "file", "tree", "search"}
    /\ result.kind = "error" => result.message \in Messages
    /\ result.kind = "file" =>
          result.status \in Statuses /\ result.returned \in Nat /\ result.total \in Nat

LEMMA Ends ==
    /\ \A message \in Messages : End(Error(message)) => ResultOK' /\ stage' = "ended"
    /\ \A body \in Objects \cup {Notice}, total \in Nat :
          End(ClassifyContent(body, total)) => ResultOK' /\ stage' = "ended"
<1>1. ASSUME NEW message \in Messages, End(Error(message))
      PROVE  ResultOK' /\ stage' = "ended"
  BY <1>1 DEF End, Error, ResultOK
<1>2. ASSUME NEW body \in Objects \cup {Notice}, NEW total \in Nat,
             End(ClassifyContent(body, total))
      PROVE  ResultOK' /\ stage' = "ended"
  <2>1. result' = ClassifyContent(body, total) /\ stage' = "ended"
    BY <1>2 DEF End
  <2>2. /\ result'.kind = "file" /\ result'.total = total /\ result'.returned \in Nat
        /\ result'.status \in {"complete", "truncated", "binary"}
    BY <2>1, Classified
  <2> QED BY <2>1, <2>2 DEF ResultOK, Statuses
<1> QED BY <1>1, <1>2

LEMMA StepTyped == ReadsTypeOK /\ PagesLeft /\ [Next]_vars => ReadsTypeOK' /\ PagesLeft'
<1> SUFFICES ASSUME ReadsTypeOK, PagesLeft, [Next]_vars PROVE ReadsTypeOK' /\ PagesLeft'
  OBVIOUS
<1> USE Constant
<1>0. /\ installed \in Seq(Repos) /\ found \in Seq(Repos) /\ object \in Objects
      /\ renamed \in BOOLEAN /\ quota \in 0..Quota /\ changes \in 0..MaxChanges /\ op \in Ops
      /\ stage \in {"idle", "asking", "ended"} /\ pages \in 0..PageLimit
      /\ noted \in Nat \cup {NoSize} /\ past \in Pasts /\ ResultOK
  BY DEF ReadsTypeOK, ResultOK
<1>m. {"boundary", "credentials", "network", "malformed", "directory", "too many pages"}
          \subseteq Messages
  BY DEF Messages
<1>1. ASSUME NEW safe \in BOOLEAN, Begin(safe)
      PROVE  ReadsTypeOK' /\ PagesLeft'
  <2>1. UNCHANGED <<github, pages, found, noted, op, past>>
    BY <1>1 DEF Begin
  <2>2. ResultOK' /\ stage' \in {"asking", "ended"}
    <3>1. CASE End(Error("boundary"))
      BY <1>m, <3>1, Ends
    <3>2. CASE End([kind |-> "listing", repos |-> <<>>])
      BY <3>2 DEF End, ResultOK
    <3>3. CASE stage' = "asking" /\ UNCHANGED result
      BY <1>0, <3>3 DEF ResultOK
    <3> QED BY <1>1, <3>1, <3>2, <3>3 DEF Begin
  <2> QED BY <1>0, <1>1, <2>1, <2>2 DEF ReadsTypeOK, ResultOK, github, PagesLeft, Begin
<1>2. CASE RequestFails
  <2>1. ResultOK' /\ stage' = "ended"
    BY <1>2, <1>m, Ends DEF RequestFails
  <2> QED BY <1>0, <1>2, <2>1 DEF ReadsTypeOK, ResultOK, RequestFails, github, PagesLeft
<1>3. ASSUME NEW answer \in RefusalsNow, Refused(answer)
      PROVE  ReadsTypeOK' /\ PagesLeft'
  <2>1. Told(answer) \in Messages
    BY Tellings DEF Messages
  <2>2. ResultOK' /\ stage' = "ended"
    BY <1>3, <2>1, Ends DEF Refused
  <2>3. answer \in Refusal /\ answer.remaining \in 0..Quota
    BY <1>0, RefusalTypes DEF RefusalsNow, Refusals, Refusal
  <2>4. quota' \in 0..Quota
    BY <1>3, <2>3 DEF Refused
  <2>5. past' \in Pasts
    BY <1>0, <1>3, <2>3 DEF Refused, Pasts
  <2> QED BY <1>0, <1>3, <2>2, <2>4, <2>5 DEF ReadsTypeOK, ResultOK, Refused, PagesLeft
<1>4. CASE Malformed
  <2>1. ResultOK' /\ stage' = "ended"
    BY <1>4, <1>m, Ends DEF Malformed
  <2> QED BY <1>0, <1>4, <2>1, AnswersTyped DEF ReadsTypeOK, ResultOK, Malformed, PagesLeft
<1>5. CASE ListPage
  <2>0. stage = "asking" /\ pages' = pages + 1
    BY <1>5 DEF ListPage, Asking
  <2>1. pages \in Nat
    BY <1>0
  <2>2. PageAfter(pages) \in Seq(Repos)
    BY <1>0, <2>1, PageBehind
  <2>3. found' \in Seq(Repos)
    BY <1>0, <1>5, <2>2, Concatenated DEF ListPage
  <2>4. ResultOK' /\ stage' \in {"asking", "ended"}
    <3>1. CASE End([kind |-> "listing", repos |-> Allowed(found')])
      BY <3>1 DEF End, ResultOK
    <3>2. CASE End(Error("too many pages"))
      BY <1>m, <3>2, Ends
    <3>3. CASE UNCHANGED <<stage, result>>
      BY <1>0, <1>5, <3>3 DEF ResultOK, ListPage, Asking
    <3> QED BY <1>5, <3>1, <3>2, <3>3 DEF ListPage
  <2>5. pages' \in 0..PageLimit /\ PagesLeft'
    <3>1. pages < PageLimit /\ pages' \in 0..PageLimit
      BY <2>0, <2>1 DEF PagesLeft
    <3>2. stage' = "ended" \/ pages' # PageLimit
      BY <1>5 DEF ListPage, End, AtPageLimit
    <3> QED BY <3>1, <3>2 DEF PagesLeft
  <2> QED BY <1>0, <1>5, <2>3, <2>4, <2>5, AnswersTyped DEF ReadsTypeOK, ResultOK, ListPage
<1>6. CASE ReadMetadata
  <2>1. object \in Objects \cup {Notice} /\ object.size \in Nat
    BY <1>0
  <2>2. /\ ResultOK' /\ stage' \in {"asking", "ended"}
        /\ noted' \in Nat \cup {NoSize}
    <3>1. CASE End(Error("malformed")) /\ UNCHANGED noted
      BY <1>0, <1>m, <3>1, Ends
    <3>2. CASE End(Error("directory")) /\ UNCHANGED noted
      BY <1>0, <1>m, <3>2, Ends
    <3>3. CASE End(ClassifyContent(object, object.size)) /\ UNCHANGED noted
      BY <1>0, <2>1, <3>3, Ends
    <3>4. CASE End(FileContent("unavailable", object, 0, object.size)) /\ UNCHANGED noted
      BY <1>0, <2>1, <3>4 DEF End, FileContent, ResultOK, Statuses
    <3>5. CASE noted' = object.size /\ UNCHANGED <<stage, result>>
      BY <1>0, <1>6, <2>1, <3>5 DEF ResultOK, ReadMetadata, Asking
    <3> QED BY <1>6, <3>1, <3>2, <3>3, <3>4, <3>5 DEF ReadMetadata
  <2>3. PagesLeft'
    BY <1>6 DEF ReadMetadata, Asking, PagesLeft
  <2> QED BY <1>0, <1>6, <2>2, <2>3, AnswersTyped DEF ReadsTypeOK, ResultOK, ReadMetadata
<1>7. CASE ReadRaw
  <2>1. noted \in Nat
    BY <1>0, <1>7 DEF ReadRaw
  <2>2. ResultOK' /\ stage' = "ended"
    BY <1>0, <1>7, <2>1, Ends DEF ReadRaw
  <2> QED BY <1>0, <1>7, <2>2, AnswersTyped DEF ReadsTypeOK, ResultOK, ReadRaw, PagesLeft
<1>8. CASE ReadTree
  <2>1. ResultOK' /\ stage' = "ended"
    <3>1. CASE End(Error("malformed"))
      BY <1>m, <3>1, Ends
    <3>2. CASE End([kind |-> "tree", of |-> object])
      BY <3>2 DEF End, ResultOK
    <3> QED BY <1>8, <3>1, <3>2 DEF ReadTree
  <2> QED BY <1>0, <1>8, <2>1, AnswersTyped DEF ReadsTypeOK, ResultOK, ReadTree, PagesLeft
<1>9. ASSUME NEW items, NEW total, Search(items, total)
      PROVE  ReadsTypeOK' /\ PagesLeft'
  <2>1. ResultOK' /\ stage' = "ended"
    BY <1>9 DEF Search, End, ResultOK
  <2> QED BY <1>0, <1>9, <2>1, AnswersTyped DEF ReadsTypeOK, ResultOK, Search, PagesLeft
<1>10. ASSUME NEW tools, Changes(tools)
       PROVE  /\ changes' \in 0..MaxChanges /\ UNCHANGED call
              /\ ResultOK' /\ PagesLeft'
  BY <1>0, <1>10 DEF Changes, call, ResultOK, PagesLeft
<1>11. ASSUME NEW repo \in Repos, NEW i \in 1..(Len(installed) + 1), Install(repo, i)
       PROVE  ReadsTypeOK' /\ PagesLeft'
  <2>1. installed' \in Seq(Repos)
    BY <1>0, <1>11, Inserted DEF Install
  <2>2. past' \in Pasts
    BY <1>0, <1>11 DEF Install, Pasts
  <2> QED BY <1>0, <1>10, <1>11, <2>1, <2>2 DEF Install, ReadsTypeOK, ResultOK, call
<1>12. ASSUME NEW i \in DOMAIN installed, Uninstall(i)
       PROVE  ReadsTypeOK' /\ PagesLeft'
  <2>1. i \in 1..Len(installed)
    BY <1>0
  <2>2. installed' \in Seq(Repos)
    BY <1>0, <1>12, <2>1, Removed DEF Uninstall
  <2>3. past' \in Pasts
    BY <1>0, <1>12 DEF Uninstall, Pasts
  <2> QED BY <1>0, <1>10, <1>12, <2>2, <2>3 DEF Uninstall, ReadsTypeOK, ResultOK, call
<1>13. ASSUME NEW new \in Objects, Push(new)
       PROVE  ReadsTypeOK' /\ PagesLeft'
  <2>1. past' \in Pasts
    BY <1>0, <1>13 DEF Push, Pasts
  <2> QED BY <1>0, <1>10, <1>13, <2>1 DEF Push, ReadsTypeOK, ResultOK, call
<1>14. CASE Rename
  <2>1. past' \in Pasts
    BY <1>0, <1>14 DEF Rename, Pasts
  <2> QED BY <1>0, <1>10, <1>14, <2>1 DEF Rename, ReadsTypeOK, ResultOK, call
<1>15. CASE NewWindow
  BY <1>0, <1>10, <1>15 DEF NewWindow, ReadsTypeOK, ResultOK, call
<1>16. CASE UNCHANGED vars
  BY <1>16 DEF vars, github, call, ReadsTypeOK, PagesLeft
<1> QED
  BY <1>1, <1>2, <1>3, <1>4, <1>5, <1>6, <1>7, <1>8, <1>9, <1>11, <1>12, <1>13, <1>14, <1>15, <1>16
  DEF Next, CallStep, GithubChanges

\* The state of a call and of GitHub keeps its types, and no listing asks for more
\* pages than the limit (client.py, the whole of GitHubClient).
THEOREM ReadsTyped == Spec => []ReadsTypeOK
<1>1. Init => ReadsTypeOK /\ PagesLeft
  BY InitTyped
<1>2. ReadsTypeOK /\ PagesLeft /\ [Next]_vars => (ReadsTypeOK /\ PagesLeft)'
  BY StepTyped
<1> QED BY <1>1, <1>2, PTL DEF Spec

-----------------------------------------------------------------------------
(* How a call ends *)

\* Nothing happens after the end of the call.
LEMMA EndIsFinal == stage = "ended" /\ [Next]_vars => UNCHANGED vars
<1> SUFFICES ASSUME stage = "ended", Next PROVE FALSE
  OBVIOUS
<1> QED
  BY DEF Next, CallStep, GithubChanges, Begin, RequestFails, Refused, Malformed, ListPage, Asking,
     ReadMetadata, ReadRaw, ReadTree, Search, Install, Uninstall, Push, Rename, NewWindow, Changes

LEMMA Listed ==
    ASSUME NEW S, NEW n \in Nat, NEW s \in SeqOf(S, n)
    PROVE  s \in Seq(S) /\ Len(s) \in Nat /\ DOMAIN s = 1..Len(s)
<1>1. s \in Seq(S)
  <2>1. PICK m \in 0..n : s \in [1..m -> S]
    BY DEF SeqOf
  <2> QED BY <2>1
<1> QED BY <1>1

LEMMA ItemLists == \A items \in Items : Len(items) \in Nat /\ DOMAIN items = 1..Len(items)
<1>1. MaxMatches \in Nat
  BY ReadsAssumption
<1> DEFINE S == Repos \cup {""}
<1>2. Items = SeqOf(S, MaxMatches)
  BY DEF Items
<1> HIDE DEF S
<1> QED BY <1>1, <1>2, Listed

\* The steps that end it with a file, a listing or a search result.
LEMMA HowItEnds ==
    ASSUME Next, stage' = "ended"
    PROVE  \/ result'.kind \in {"error", "tree"}
           \/ result' = [kind |-> "listing", repos |-> <<>>] /\ \E safe \in BOOLEAN : Begin(safe)
           \/ result' = [kind |-> "listing", repos |-> Allowed(found')] /\ ListPage /\ ~HasNext(pages')
           \/ result'.kind = "file" /\ (ReadMetadata \/ ReadRaw)
           \/ result'.kind = "search" /\ \E items \in Items, total \in Int : Search(items, total)
<1>e. ASSUME NEW message, End(Error(message))
      PROVE  result'.kind = "error"
  BY <1>e DEF End, Error
<1>f. ASSUME NEW body, NEW total, End(ClassifyContent(body, total))
      PROVE  result'.kind = "file"
  BY <1>f DEF End, ClassifyContent, FileContent
<1>1. ASSUME NEW safe \in BOOLEAN, Begin(safe)
      PROVE  \/ result'.kind = "error"
             \/ result' = [kind |-> "listing", repos |-> <<>>]
  BY <1>1, <1>e DEF Begin, End
<1>2. RequestFails => result'.kind = "error"
  BY <1>e DEF RequestFails
<1>3. ASSUME NEW answer \in RefusalsNow, Refused(answer)
      PROVE  result'.kind = "error"
  BY <1>3, <1>e DEF Refused
<1>4. Malformed => result'.kind = "error"
  BY <1>e DEF Malformed
<1>5. ASSUME ListPage
      PROVE  \/ result'.kind = "error"
             \/ result' = [kind |-> "listing", repos |-> Allowed(found')] /\ ~HasNext(pages')
  <2>1. stage = "asking" /\ "asking" # "ended"
    BY <1>5 DEF ListPage, Asking
  <2>2. \/ ~HasNext(pages') /\ End([kind |-> "listing", repos |-> Allowed(found')])
        \/ End(Error("too many pages"))
        \/ UNCHANGED stage
    BY <1>5 DEF ListPage
  <2> QED BY <1>e, <2>1, <2>2 DEF End
<1>6. ASSUME ReadMetadata
      PROVE  result'.kind \in {"error", "file"}
  <2>1. stage = "asking" /\ "asking" # "ended"
    BY <1>6 DEF ReadMetadata, Asking
  <2>2. \/ End(Error("malformed")) \/ End(Error("directory"))
        \/ End(ClassifyContent(object, object.size))
        \/ End(FileContent("unavailable", object, 0, object.size))
        \/ UNCHANGED stage
    BY <1>6 DEF ReadMetadata
  <2>3. End(FileContent("unavailable", object, 0, object.size)) => result'.kind = "file"
    BY DEF End, FileContent
  <2> QED BY <1>e, <1>f, <2>1, <2>2, <2>3
<1>7. ReadRaw => result'.kind = "file"
  BY <1>f DEF ReadRaw
<1>8. ReadTree => result'.kind \in {"error", "tree"}
  BY <1>e DEF ReadTree, End
<1>9. ASSUME NEW items \in Items, NEW total, Search(items, total)
      PROVE  result'.kind = "search"
  BY <1>9 DEF Search, End
<1>10. ~GithubChanges
  BY DEF GithubChanges, Install, Uninstall, Push, Rename, NewWindow, Changes, call
<1>11. \A items \in Items : Len(items) \in Nat
  BY ItemLists
<1>12. ASSUME NEW items \in Items
       PROVE  /\ \A unlisted \in 0..1 : Len(items) + unlisted \in Int
              /\ 0 \in Int
  <2>1. Len(items) \in Nat
    BY <1>11
  <2> QED BY <2>1
<1> QED BY <1>1, <1>2, <1>3, <1>4, <1>5, <1>6, <1>7, <1>8, <1>9, <1>10, <1>12 DEF Next, CallStep

-----------------------------------------------------------------------------
(* Files *)

\* What the path names is among the objects of the call, and so is what the
\* metadata was about.
FileInv ==
    /\ object \in past.objects
    /\ renamed => past.moved
    /\ noted # NoSize => \E o \in past.objects : o.size = noted

\* The steps that do not concern files.
LEMMA FileInvKept ==
    ASSUME FileInv, object' = object, renamed' = renamed, noted' = noted,
           past'.objects = past.objects, past'.moved = past.moved
    PROVE  FileInv'
BY DEF FileInv

LEMMA FileInvStep == ReadsTypeOK /\ FileInv /\ [Next]_vars => FileInv'
<1> SUFFICES ASSUME ReadsTypeOK, FileInv, [Next]_vars PROVE FileInv'
  OBVIOUS
<1>0. past \in Pasts /\ object \in Objects
  BY DEF ReadsTypeOK
<1>a. Answers => object' = object /\ renamed' = renamed /\ past' = past
  BY DEF Answers
<1>1. ASSUME NEW safe \in BOOLEAN, Begin(safe)
      PROVE  FileInv'
  BY <1>1, FileInvKept DEF Begin, github
<1>2. CASE RequestFails
  BY <1>2, FileInvKept DEF RequestFails, github
<1>3. ASSUME NEW answer \in RefusalsNow, Refused(answer)
      PROVE  FileInv'
  <2>1. past'.objects = past.objects /\ past'.moved = past.moved
    BY <1>0, <1>3 DEF Refused, Pasts
  <2> QED BY <1>3, <2>1, FileInvKept DEF Refused
<1>4. CASE Malformed
  BY <1>4, <1>a, FileInvKept DEF Malformed
<1>5. CASE ListPage
  <2>1. Answers /\ noted' = noted
    BY <1>5 DEF ListPage
  <2> QED BY <1>a, <2>1, FileInvKept
<1>6. CASE ReadMetadata
  <2>1. Answers /\ (noted' = noted \/ noted' = object.size)
    BY <1>6 DEF ReadMetadata
  <2> QED BY <1>a, <2>1 DEF FileInv
<1>7. CASE ReadRaw
  BY <1>7, <1>a, FileInvKept DEF ReadRaw
<1>8. CASE ReadTree
  BY <1>8, <1>a, FileInvKept DEF ReadTree
<1>9. ASSUME NEW items, NEW total, Search(items, total)
      PROVE  FileInv'
  BY <1>9, <1>a, FileInvKept DEF Search
<1>10. ASSUME NEW repo \in Repos, NEW i \in 1..(Len(installed) + 1), Install(repo, i)
       PROVE  FileInv'
  <2>1. past'.objects = past.objects /\ past'.moved = past.moved
    BY <1>0, <1>10 DEF Install, Pasts
  <2> QED BY <1>10, <2>1, FileInvKept DEF Install, Changes, call
<1>11. ASSUME NEW i \in DOMAIN installed, Uninstall(i)
       PROVE  FileInv'
  <2>1. past'.objects = past.objects /\ past'.moved = past.moved
    BY <1>0, <1>11 DEF Uninstall, Pasts
  <2> QED BY <1>11, <2>1, FileInvKept DEF Uninstall, Changes, call
<1>12. ASSUME NEW new \in Objects, Push(new)
       PROVE  FileInv'
  <2>1. past'.objects = past.objects \cup {new} /\ past'.moved = past.moved
    BY <1>0, <1>12 DEF Push, Pasts
  <2>2. object' = new /\ renamed' = renamed /\ noted' = noted
    BY <1>12 DEF Push, Changes, call
  <2> QED BY <2>1, <2>2 DEF FileInv
<1>13. CASE Rename
  <2>1. past'.objects = past.objects /\ past'.moved = TRUE
    BY <1>0, <1>13 DEF Rename, Pasts
  <2>2. object' = object /\ noted' = noted
    BY <1>13 DEF Rename, Changes, call
  <2> QED BY <2>1, <2>2 DEF FileInv
<1>14. CASE NewWindow
  BY <1>14, FileInvKept DEF NewWindow, Changes, call
<1>15. CASE UNCHANGED vars
  BY <1>15, FileInvKept DEF vars, github, call
<1> QED
  BY <1>1, <1>2, <1>3, <1>4, <1>5, <1>6, <1>7, <1>8, <1>9, <1>10, <1>11, <1>12, <1>13, <1>14, <1>15
  DEF Next, CallStep, GithubChanges

\* A file that is read while the path names files only.
LEMMA FileRead ==
    ASSUME ReadsTypeOK, FileInv, ReadMetadata \/ ReadRaw, Result("file")', OnlyFiles'
    PROVE  /\ result'.of = object /\ object \in past'.objects /\ object \in Objects
           /\ object.kind \in {"text", "binary"}
           /\ \/ result' = ClassifyContent(object, object.size) /\ object.size <= RawMax
              \/ result' = FileContent("unavailable", object, 0, object.size) /\ object.size > RawMax
              \/ result' = ClassifyContent(object, noted) /\ object.size <= RawMax
                 /\ noted \in Nat /\ \E o \in past'.objects : o.size = noted
<1>1. past' = past /\ object \in Objects /\ object \in past'.objects /\ object.size \in Nat
  BY Constant DEF ReadMetadata, ReadRaw, Answers, ReadsTypeOK, FileInv
<1>2. object.kind \in {"text", "binary"} /\ ~renamed
  BY <1>1 DEF OnlyFiles, FileInv, Files
<1>3. InlineMax \in Nat /\ RawMax \in Nat /\ InlineMax <= RawMax
  BY ReadsAssumption
<1>4. ASSUME NEW total, result' = ClassifyContent(object, total)
      PROVE  result'.of = object
  BY <1>4 DEF ClassifyContent, FileContent
<1>5. result' = FileContent("unavailable", object, 0, object.size) => result'.of = object
  BY DEF FileContent
<1>6. CASE ReadMetadata
  <2>1. stage = "asking" /\ stage' = "ended"
    BY <1>6 DEF ReadMetadata, Asking, Result
  <2>2. ~End(Error("malformed")) /\ ~End(Error("directory"))
    BY DEF End, Error, Result
  <2>3. \/ object.size <= InlineMax /\ End(ClassifyContent(object, object.size))
        \/ ~(object.size <= InlineMax) /\ object.size > RawMax
           /\ End(FileContent("unavailable", object, 0, object.size))
    BY <1>6, <2>1, <2>2 DEF ReadMetadata, TooBigForRaw
  <2>4. object.size <= InlineMax => object.size <= RawMax
    BY <1>1, <1>3
  <2> QED BY <1>1, <1>2, <1>4, <1>5, <2>3, <2>4 DEF End
<1>7. CASE ReadRaw
  <2>1. object.size <= RawMax /\ End(ClassifyContent(object, noted))
    BY <1>2, <1>7 DEF ReadRaw
  <2>2. noted \in Nat /\ \E o \in past'.objects : o.size = noted
    BY <1>1, <1>7 DEF ReadRaw, FileInv, ReadsTypeOK
  <2> QED BY <1>1, <1>2, <1>4, <2>1, <2>2 DEF End
<1> QED BY <1>6, <1>7

LEMMA FileEnds ==
    ASSUME Next, stage' = "ended", result'.kind = "file"
    PROVE  ReadMetadata \/ ReadRaw
BY HowItEnds

LEMMA ContentStep ==
    ReadsTypeOK /\ FileInv /\ ContentOfOneVersion /\ [Next]_vars => ContentOfOneVersion'
<1> SUFFICES ASSUME ReadsTypeOK, FileInv, ContentOfOneVersion, [Next]_vars
             PROVE  ContentOfOneVersion'
  OBVIOUS
<1>1. CASE UNCHANGED vars
  BY <1>1 DEF ContentOfOneVersion, Result, OnlyFiles, vars, call
<1>2. CASE Next /\ Result("file")' /\ OnlyFiles'
  <2>1. ReadMetadata \/ ReadRaw
    BY <1>2, FileEnds DEF Result
  <2>2. /\ result'.of = object /\ object \in past'.objects /\ object \in Objects \cup {Notice}
        /\ object.kind \in {"text", "binary"}
    BY <1>2, <2>1, FileRead
  <2>3. object.size \in Nat
    BY <2>2, Constant
  <2>4. \/ \E total \in Nat : result' = ClassifyContent(object, total)
        \/ result'.status = "unavailable"
    <3>1. \/ result' = ClassifyContent(object, object.size)
          \/ result' = FileContent("unavailable", object, 0, object.size)
          \/ result' = ClassifyContent(object, noted) /\ noted \in Nat
      BY <1>2, <2>1, FileRead
    <3>2. FileContent("unavailable", object, 0, object.size).status = "unavailable"
      BY DEF FileContent
    <3> QED BY <2>3, <3>1, <3>2
  <2>5. CASE result'.status = "unavailable"
    BY <2>2, <2>5 DEF ContentOfOneVersion
  <2>6. ASSUME NEW total \in Nat, result' = ClassifyContent(object, total)
        PROVE  ContentOfOneVersion'
    BY <2>2, <2>6, Classified DEF ContentOfOneVersion
  <2> QED BY <2>4, <2>5, <2>6
<1>3. CASE ~(Result("file")' /\ OnlyFiles')
  BY <1>3 DEF ContentOfOneVersion
<1> QED BY <1>1, <1>2, <1>3

LEMMA SizesStep ==
    ReadsTypeOK /\ FileInv /\ SizesAgree /\ [Next]_vars => SizesAgree'
<1> SUFFICES ASSUME ReadsTypeOK, FileInv, SizesAgree, [Next]_vars
             PROVE  SizesAgree'
  OBVIOUS
<1>1. CASE UNCHANGED vars
  BY <1>1 DEF SizesAgree, Result, OnlyFiles, vars, call
<1>2. CASE Next /\ Result("file")' /\ OnlyFiles'
  <2>1. ReadMetadata \/ ReadRaw
    BY <1>2, FileEnds DEF Result
  <2>2. /\ result'.of = object /\ object \in past'.objects /\ object \in Objects \cup {Notice}
        /\ object.kind \in {"text", "binary"}
    BY <1>2, <2>1, FileRead
  <2>3. object.size \in Nat /\ RawMax \in Nat /\ MaxBytes \in Nat /\ WellFormed(object)
    BY <2>2, Constant
  <2>4. PICK total \in Nat :
           /\ \E o \in past'.objects : o.size = total
           /\ \/ result' = ClassifyContent(object, total) /\ object.size <= RawMax
              \/ /\ result' = FileContent("unavailable", object, 0, total)
                 /\ total = object.size /\ object.size > RawMax
    <3>1. \/ result' = ClassifyContent(object, object.size) /\ object.size <= RawMax
          \/ result' = FileContent("unavailable", object, 0, object.size) /\ object.size > RawMax
          \/ result' = ClassifyContent(object, noted) /\ object.size <= RawMax
             /\ noted \in Nat /\ \E o \in past'.objects : o.size = noted
      BY <1>2, <2>1, FileRead
    <3> QED BY <2>2, <2>3, <3>1
  <2>5. past'.objects = {result'.of} => total = object.size
    BY <2>2, <2>4
  <2>6. CASE result' = ClassifyContent(object, total) /\ object.size <= RawMax
    <3> DEFINE r == ClassifyContent(object, total)
    <3>1. /\ r.total = total /\ r.returned \in Nat
          /\ r.status \in {"complete", "truncated", "binary"}
          /\ r.status = "binary" <=> object.kind # "text"
          /\ r.status = "binary" => r.returned = 0
          /\ r.status = "complete" => r.returned = object.size
          /\ r.status = "truncated" => object.size > MaxBytes
          /\ r.status # "binary" => r.returned <= MaxBytes
      BY <2>2, Classified
    <3> HIDE DEF r
    <3>2. r.status = "binary" => object.size > 0
      BY <2>2, <2>3, <3>1 DEF WellFormed
    <3>3. r.status # "complete" => r.returned # object.size
      BY <2>3, <3>1, <3>2
    <3>4. ~(object.size > RawMax)
      BY <2>3, <2>6
    <3>5. result' = r
      BY <2>6 DEF r
    <3>6. /\ result'.total = total /\ result'.status # "unavailable"
          /\ result'.status = "complete" <=> result'.returned = object.size
      BY <3>1, <3>3, <3>5
    <3> QED BY <2>4, <2>5, <2>2, <3>4, <3>6 DEF SizesAgree
  <2>7. CASE /\ result' = FileContent("unavailable", object, 0, total)
             /\ total = object.size /\ object.size > RawMax
    <3>1. /\ result'.total = object.size /\ result'.status = "unavailable"
          /\ result'.returned = 0 /\ object.size # 0
      BY <2>3, <2>7 DEF FileContent
    <3> QED BY <2>2, <2>4, <2>7, <3>1 DEF SizesAgree
  <2> QED BY <2>4, <2>6, <2>7
<1>3. CASE ~(Result("file")' /\ OnlyFiles')
  BY <1>3 DEF SizesAgree
<1> QED BY <1>1, <1>2, <1>3

LEMMA FilesStart == Init => FileInv /\ ContentOfOneVersion /\ SizesAgree
BY DEF Init, FileInv, ContentOfOneVersion, SizesAgree, Result

\* What a file reader gets is a text cut at a character of one version of the
\* path, whoever pushes (client.py, _classify_content and its two callers).
THEOREM FilesAreOneVersion == Spec => []ContentOfOneVersion
<1> DEFINE J == ReadsTypeOK /\ PagesLeft /\ FileInv /\ ContentOfOneVersion
<1>1. Init => J
  BY InitTyped, FilesStart
<1>2. J /\ [Next]_vars => J'
  BY StepTyped, FileInvStep, ContentStep
<1> QED BY <1>1, <1>2, PTL DEF Spec

\* The two sizes of a file agree unless its branch moved in between.
THEOREM FileSizesAgree == Spec => []SizesAgree
<1> DEFINE J == ReadsTypeOK /\ PagesLeft /\ FileInv /\ SizesAgree
<1>1. Init => J
  BY InitTyped, FilesStart
<1>2. J /\ [Next]_vars => J'
  BY StepTyped, FileInvStep, SizesStep
<1> QED BY <1>1, <1>2, PTL DEF Spec

-----------------------------------------------------------------------------
(* Refusals and searches *)

\* Only the refusal that ends a call is on record.
NotYetRefused == stage # "ended" => past.refusal = {}

LEMMA TheLimitIsTold ==
    ASSUME quota \in Nat, NEW answer \in RefusalsNow, answer.retryAfter # "beyond"
    PROVE  Told(answer) = "rate limited" <=>
                \/ answer.why \in {"quota", "secondary"}
                \/ answer.why = "denied" /\ answer.remaining = 0
<1>1. quota # 0 => quota - 1 \in Nat
  OBVIOUS
<1>2. CASE quota = 0
  BY <1>2 DEF RefusalsNow, Refusals, Told, IsRateLimited
<1>3. CASE quota # 0
  BY <1>3 DEF RefusalsNow, Refusals, Told, IsRateLimited
<1> QED BY <1>2, <1>3

\* Whatever is not a refusal records none.
LEMMA NothingRefused ==
    ASSUME past \in Pasts, Next, \A answer \in RefusalsNow : ~Refused(answer)
    PROVE  past'.refusal = past.refusal
<1>a. Answers \/ UNCHANGED past => past'.refusal = past.refusal
  BY DEF Answers
<1>1. GithubChanges => past'.refusal = past.refusal
  BY DEF GithubChanges, Install, Uninstall, Push, Rename, NewWindow, Pasts
<1>2. ASSUME CallStep
      PROVE  Answers \/ UNCHANGED past
  BY <1>2
  DEF CallStep, Begin, RequestFails, Malformed, ListPage, ReadMetadata, ReadRaw, ReadTree, Search
<1> QED BY <1>a, <1>1, <1>2 DEF Next

LEMMA LimitsStep ==
    ReadsTypeOK /\ NotYetRefused /\ LimitsAreTold /\ [Next]_vars
        => NotYetRefused' /\ LimitsAreTold'
<1> SUFFICES ASSUME ReadsTypeOK, NotYetRefused, LimitsAreTold, [Next]_vars
             PROVE  NotYetRefused' /\ LimitsAreTold'
  OBVIOUS
<1>0. past \in Pasts /\ quota \in Nat
  BY DEF ReadsTypeOK
<1>1. CASE UNCHANGED vars
  BY <1>1 DEF NotYetRefused, LimitsAreTold, vars, call
<1>2. CASE Next /\ stage = "ended"
  BY <1>1, <1>2, EndIsFinal
<1>3. CASE Next /\ stage # "ended" /\ \A answer \in RefusalsNow : ~Refused(answer)
  <2>1. past.refusal = {} /\ past'.refusal = past.refusal
    BY <1>0, <1>3, NothingRefused DEF NotYetRefused
  <2> QED BY <2>1 DEF NotYetRefused, LimitsAreTold
<1>4. ASSUME NEW answer \in RefusalsNow, Refused(answer)
      PROVE  NotYetRefused' /\ LimitsAreTold'
  <2>1. past'.refusal = {answer} /\ result' = Error(Told(answer)) /\ stage' = "ended"
    BY <1>0, <1>4 DEF Refused, Pasts, End
  <2>2. result' = Error("rate limited") <=> Told(answer) = "rate limited"
    BY <2>1 DEF Error
  <2> QED BY <1>0, <2>1, <2>2, TheLimitIsTold DEF NotYetRefused, LimitsAreTold
<1> QED BY <1>1, <1>2, <1>3, <1>4

\* A caller that GitHub turned away for its rate is told so, and nobody else, but
\* for the last request of a window (client.py, _raise_for_status).
THEOREM RateLimitsAreTold == Spec => []LimitsAreTold
<1> DEFINE J == ReadsTypeOK /\ PagesLeft /\ NotYetRefused /\ LimitsAreTold
<1>1. Init => J
  BY InitTyped DEF Init, NotYetRefused, LimitsAreTold
<1>2. J /\ [Next]_vars => J'
  BY StepTyped, LimitsStep
<1> QED BY <1>1, <1>2, PTL DEF Spec

LEMMA SearchStep ==
    ASSUME NEW items \in Items, NEW total \in Int, Search(items, total)
    PROVE  SearchWithinScope'
<1> DEFINE shown == Presented(items)
<1>1. /\ result'.repos = Restrict(items, shown) /\ result'.total = total
      /\ result'.more <=> Cardinality(shown) < total
  BY DEF Search, End, IsCapped
<1>2. DOMAIN Restrict(items, shown) = shown
  BY DEF Restrict
<1>3. Range(Restrict(items, shown)) \subseteq Allowlist
  BY DEF Range, Restrict, Presented
<1>4. Cardinality(shown) \in Nat /\ Cardinality(shown) <= MaxResults
  <2>2. DOMAIN items = 1..Len(items) /\ Len(items) \in Nat /\ MaxResults \in Nat
    BY ItemLists, Constant
  <2>3. shown \subseteq 1..MaxResults
    BY <2>2 DEF Presented
  <2>4. IsFiniteSet(1..MaxResults) /\ Cardinality(1..MaxResults) = MaxResults
    BY <2>2, FS_Interval
  <2>5. IsFiniteSet(shown) /\ Cardinality(shown) <= Cardinality(1..MaxResults)
    BY <2>3, <2>4, FS_Subset
  <2>6. Cardinality(shown) \in Nat
    BY <2>5, FS_CardinalityType
  <2> QED BY <2>4, <2>5, <2>6
<1> HIDE DEF shown
<1> QED BY <1>1, <1>2, <1>3, <1>4 DEF SearchWithinScope

LEMMA ScopeStep == SearchWithinScope /\ [Next]_vars => SearchWithinScope'
<1> SUFFICES ASSUME SearchWithinScope, [Next]_vars PROVE SearchWithinScope'
  OBVIOUS
<1>1. CASE UNCHANGED vars
  BY <1>1 DEF SearchWithinScope, Result, vars, call
<1>2. CASE Next /\ Result("search")'
  <2>1. \E items \in Items, total \in Int : Search(items, total)
    BY <1>2, HowItEnds DEF Result
  <2> QED BY <2>1, SearchStep
<1>3. CASE ~Result("search")'
  BY <1>3 DEF SearchWithinScope
<1> QED BY <1>1, <1>2, <1>3

\* A search shows only items of the allowlist, at most max_results, and says when
\* it shows less than were counted (tools.py, search_code).
THEOREM SearchesStayInScope == Spec => []SearchWithinScope
<1>1. Init => SearchWithinScope
  BY DEF Init, SearchWithinScope, Result
<1> QED BY <1>1, ScopeStep, PTL DEF Spec

-----------------------------------------------------------------------------
(* Listings *)

LEMMA InRange ==
    ASSUME NEW S, NEW s \in Seq(S), NEW x
    PROVE  x \in Range(s) <=> \E i \in 1..Len(s) : s[i] = x
BY DEF Range

LEMMA BothRanges ==
    ASSUME NEW S, NEW s \in Seq(S), NEW t \in Seq(S)
    PROVE  Range(s \o t) = Range(s) \cup Range(t)
<1>1. /\ s \o t \in Seq(S) /\ Len(s \o t) = Len(s) + Len(t)
      /\ Len(s) \in Nat /\ Len(t) \in Nat
      /\ \A i \in 1..Len(s) + Len(t) :
            (s \o t)[i] = IF i <= Len(s) THEN s[i] ELSE t[i - Len(s)]
  BY Concatenated
<1>2. ASSUME NEW x \in Range(s \o t)
      PROVE  x \in Range(s) \/ x \in Range(t)
  <2>1. PICK i \in 1..Len(s) + Len(t) : (s \o t)[i] = x
    BY <1>1, <1>2, InRange
  <2>2. CASE i <= Len(s)
    <3>1. i \in 1..Len(s) /\ s[i] = x
      BY <1>1, <2>1, <2>2
    <3> QED BY <3>1, InRange
  <2>3. CASE i > Len(s)
    <3>1. i - Len(s) \in 1..Len(t) /\ t[i - Len(s)] = x
      BY <1>1, <2>1, <2>3
    <3> QED BY <3>1, InRange
  <2> QED BY <1>1, <2>2, <2>3
<1>3. ASSUME NEW x \in Range(s)
      PROVE  x \in Range(s \o t)
  <2>1. PICK i \in 1..Len(s) : s[i] = x
    BY <1>3, InRange
  <2>2. i \in 1..Len(s \o t) /\ (s \o t)[i] = x
    BY <1>1, <2>1
  <2> QED BY <1>1, <2>2, InRange
<1>4. ASSUME NEW x \in Range(t)
      PROVE  x \in Range(s \o t)
  <2>1. PICK i \in 1..Len(t) : t[i] = x
    BY <1>4, InRange
  <2>2. i + Len(s) \in 1..Len(s) + Len(t) /\ ~(i + Len(s) <= Len(s)) /\ (i + Len(s)) - Len(s) = i
    BY <1>1
  <2>3. (s \o t)[i + Len(s)] = x
    BY <1>1, <2>1, <2>2
  <2>4. i + Len(s) \in 1..Len(s \o t)
    BY <1>1, <2>2
  <2> QED BY <1>1, <2>3, <2>4, InRange
<1> QED BY <1>2, <1>3, <1>4

LEMMA Injective ==
    ASSUME NEW S, NEW s \in Seq(S)
    PROVE  IsInjective(s) <=> \A i, j \in 1..Len(s) : s[i] = s[j] => i = j
BY DEF IsInjective

\* The installation, next to what has been of it since the call began.
InstalledInv ==
    /\ IsInjective(installed)
    /\ past.always \subseteq Range(installed)
    /\ Range(installed) \subseteq past.ever

\* The pages read so far, and the places the next ones start at: while none is
\* removed what was always there is not passed over, while none is added what is
\* still to come has not been read.
FoundInv ==
    /\ Range(found) \subseteq past.ever
    /\ ~past.removed =>
          \A i \in 1..Len(installed) :
              i <= pages * PageSize /\ installed[i] \in past.always => installed[i] \in Range(found)
    /\ ~past.added =>
          /\ IsInjective(found)
          /\ \A i \in 1..Len(installed) : i > pages * PageSize => installed[i] \notin Range(found)

LEMMA Pages == ReadsTypeOK => pages * PageSize \in Nat
BY Constant DEF ReadsTypeOK

LEMMA ListInit == Init => InstalledInv /\ FoundInv
<1> SUFFICES ASSUME Init PROVE InstalledInv /\ FoundInv
  OBVIOUS
<1>1. InstalledInv
  BY DEF Init, InstalledInv
<1>2. Range(found) = {} /\ IsInjective(found)
  <2>1. found = <<>>
    BY DEF Init
  <2> QED BY <2>1 DEF Range, IsInjective
<1>3. pages * PageSize = 0
  BY Constant DEF Init
<1>4. installed \in Seq(Repos)
  BY InitTyped DEF ReadsTypeOK
<1> QED BY <1>1, <1>2, <1>3, <1>4 DEF FoundInv

LEMMA InstallStep ==
    ASSUME ReadsTypeOK, InstalledInv, FoundInv,
           NEW repo \in Repos, NEW i \in 1..(Len(installed) + 1), Install(repo, i)
    PROVE  InstalledInv' /\ FoundInv'
<1> DEFINE new == InsertAt(installed, i, repo)
           done == pages * PageSize
<1>1. /\ installed \in Seq(Repos) /\ found \in Seq(Repos) /\ past \in Pasts
      /\ Len(installed) \in Nat
  BY DEF ReadsTypeOK
<1>2. /\ installed' = new /\ found' = found /\ pages' = pages
      /\ past'.added = TRUE /\ past'.removed = past.removed
      /\ past'.always = past.always /\ past'.ever = past.ever \cup {repo}
  BY <1>1 DEF Install, Changes, call, Pasts
<1>3. repo \notin Range(installed)
  BY DEF Install
<1>4. /\ new \in Seq(Repos) /\ Len(new) = Len(installed) + 1
      /\ \A j \in 1..(Len(installed) + 1) :
            new[j] = IF j < i THEN installed[j] ELSE IF j = i THEN repo ELSE installed[j - 1]
  <2>1. /\ InsertAt(installed, i, repo) \in Seq(Repos)
        /\ Len(InsertAt(installed, i, repo)) = Len(installed) + 1
        /\ \A j \in 1..(Len(installed) + 1) :
              InsertAt(installed, i, repo)[j] =
                  IF j < i THEN installed[j] ELSE IF j = i THEN repo ELSE installed[j - 1]
    BY <1>1, Inserted
  <2> HIDE DEF done
  <2> QED BY <2>1
<1>5. done \in Nat
  BY Pages
<1> HIDE DEF new, done
<1>6. \A j \in 1..Len(new) :
         \/ j < i /\ j \in 1..Len(installed) /\ new[j] = installed[j]
         \/ j = i /\ new[j] = repo
         \/ j > i /\ j - 1 \in 1..Len(installed) /\ new[j] = installed[j - 1]
  BY <1>1, <1>4
<1>7. \A k \in 1..Len(installed) : installed[k] # repo
  BY <1>1, <1>3, InRange
<1>8. IsInjective(new)
  <2>1. \A k, m \in 1..Len(installed) : installed[k] = installed[m] => k = m
    BY <1>1, Injective DEF InstalledInv
  <2>2. ASSUME NEW j \in 1..Len(new), NEW k \in 1..Len(new), new[j] = new[k]
        PROVE  j = k
    <3>1. CASE j = i
      <4>1. ~(k < i) /\ ~(k > i)
        BY <1>6, <1>7, <2>2, <3>1
      <4> QED BY <1>4, <3>1, <4>1
    <3>2. CASE k = i
      <4>1. ~(j < i) /\ ~(j > i)
        BY <1>6, <1>7, <2>2, <3>2
      <4> QED BY <1>4, <3>2, <4>1
    <3>3. CASE j < i /\ k < i
      BY <1>6, <2>1, <2>2, <3>3
    <3>4. CASE j > i /\ k > i
      <4>1. /\ j - 1 \in 1..Len(installed) /\ new[j] = installed[j - 1]
            /\ k - 1 \in 1..Len(installed) /\ new[k] = installed[k - 1]
        BY <1>1, <1>4, <1>6, <3>4
      <4>2. j - 1 = k - 1
        BY <2>1, <2>2, <4>1
      <4> QED BY <1>4, <4>2
    <3>5. CASE j < i /\ k > i
      <4>1. j = k - 1
        BY <1>6, <2>1, <2>2, <3>5
      <4> QED BY <1>4, <3>5, <4>1
    <3>6. CASE j > i /\ k < i
      <4>1. j - 1 = k
        BY <1>6, <2>1, <2>2, <3>6
      <4> QED BY <1>4, <3>6, <4>1
    <3> QED BY <1>4, <3>1, <3>2, <3>3, <3>4, <3>5, <3>6
  <2> QED BY <1>4, <2>2, Injective
<1>9. past.always \subseteq Range(new)
  <2>1. ASSUME NEW x \in past.always
        PROVE  x \in Range(new)
    <3>1. PICK k \in 1..Len(installed) : installed[k] = x
      BY <1>1, <2>1, InRange DEF InstalledInv
    <3>2. CASE k < i
      <4>1. k \in 1..Len(new) /\ new[k] = x
        BY <1>1, <1>4, <3>1, <3>2
      <4> QED BY <1>4, <4>1, InRange
    <3>3. CASE k >= i
      <4>1. k + 1 \in 1..Len(new) /\ new[k + 1] = installed[(k + 1) - 1] /\ (k + 1) - 1 = k
        BY <1>1, <1>4, <3>1, <3>3
      <4> QED BY <1>4, <3>1, <4>1, InRange
    <3> QED BY <1>1, <3>2, <3>3
  <2> QED BY <2>1
<1>10. Range(new) \subseteq past.ever \cup {repo}
  <2>1. \A k \in 1..Len(installed) : installed[k] \in past.ever
    BY <1>1, InRange DEF InstalledInv
  <2>2. \A j \in 1..Len(new) : new[j] \in past.ever \cup {repo}
    BY <1>6, <2>1
  <2> QED BY <1>4, <2>2, InRange
<1>11. InstalledInv'
  BY <1>2, <1>8, <1>9, <1>10 DEF InstalledInv
<1>12. ASSUME ~past.removed, NEW j \in 1..Len(new), j <= done, new[j] \in past.always
       PROVE  new[j] \in Range(found)
  <2>1. \A k \in 1..Len(installed) :
           k <= done /\ installed[k] \in past.always => installed[k] \in Range(found)
    BY <1>12 DEF FoundInv, done
  <2>2. repo \notin past.always
    BY <1>3 DEF InstalledInv
  <2> QED BY <1>1, <1>5, <1>6, <1>12, <2>1, <2>2
<1>13. FoundInv'
  <2>1. Range(found) \subseteq past'.ever
    BY <1>2 DEF FoundInv
  <2> QED BY <1>2, <1>12, <2>1 DEF FoundInv, done
<1> QED BY <1>11, <1>13

LEMMA UninstallStep ==
    ASSUME ReadsTypeOK, InstalledInv, FoundInv, NEW i \in 1..Len(installed), Uninstall(i)
    PROVE  InstalledInv' /\ FoundInv'
<1> DEFINE new == RemoveAt(installed, i)
           done == pages * PageSize
<1>1. /\ installed \in Seq(Repos) /\ found \in Seq(Repos) /\ past \in Pasts
      /\ Len(installed) \in Nat
  BY DEF ReadsTypeOK
<1>2. /\ installed' = new /\ found' = found /\ pages' = pages
      /\ past'.removed = TRUE /\ past'.added = past.added
      /\ past'.always = past.always \ {installed[i]} /\ past'.ever = past.ever
  BY <1>1 DEF Uninstall, Changes, call, Pasts
<1>4. /\ new \in Seq(Repos) /\ Len(new) = Len(installed) - 1
      /\ \A j \in 1..(Len(installed) - 1) :
            new[j] = IF j < i THEN installed[j] ELSE installed[j + 1]
  BY <1>1, Removed
<1>5. done \in Nat
  BY Pages
<1> HIDE DEF new, done
<1>6. \A j \in 1..Len(new) :
         \/ j < i /\ j \in 1..Len(installed) /\ new[j] = installed[j]
         \/ j >= i /\ j + 1 \in 1..Len(installed) /\ new[j] = installed[j + 1]
  BY <1>1, <1>4
<1>8. IsInjective(new)
  <2>1. \A k, m \in 1..Len(installed) : installed[k] = installed[m] => k = m
    BY <1>1, Injective DEF InstalledInv
  <2>2. ASSUME NEW j \in 1..Len(new), NEW k \in 1..Len(new), new[j] = new[k]
        PROVE  j = k
    BY <1>1, <1>4, <1>6, <2>1, <2>2
  <2> QED BY <1>4, <2>2, Injective
<1>9. past.always \ {installed[i]} \subseteq Range(new)
  <2>1. ASSUME NEW x \in past.always, x # installed[i]
        PROVE  x \in Range(new)
    <3>1. PICK k \in 1..Len(installed) : installed[k] = x
      BY <1>1, <2>1, InRange DEF InstalledInv
    <3>2. CASE k < i
      <4>1. k \in 1..Len(new) /\ new[k] = x
        BY <1>1, <1>4, <3>1, <3>2
      <4> QED BY <1>4, <4>1, InRange
    <3>3. CASE k > i
      <4>1. k - 1 \in 1..Len(new) /\ new[k - 1] = installed[(k - 1) + 1] /\ (k - 1) + 1 = k
        BY <1>1, <1>4, <3>1, <3>3
      <4> QED BY <1>4, <3>1, <4>1, InRange
    <3> QED BY <1>1, <2>1, <3>1, <3>2, <3>3
  <2> QED BY <2>1
<1>10. Range(new) \subseteq past.ever
  <2>1. \A k \in 1..Len(installed) : installed[k] \in past.ever
    BY <1>1, InRange DEF InstalledInv
  <2>2. \A j \in 1..Len(new) : new[j] \in past.ever
    BY <1>6, <2>1
  <2> QED BY <1>4, <2>2, InRange
<1>11. InstalledInv'
  BY <1>2, <1>8, <1>9, <1>10 DEF InstalledInv
<1>12. ASSUME ~past.added
       PROVE  /\ IsInjective(found)
              /\ \A j \in 1..Len(new) : j > done => new[j] \notin Range(found)
  <2>1. /\ IsInjective(found)
        /\ \A k \in 1..Len(installed) : k > done => installed[k] \notin Range(found)
    BY <1>12 DEF FoundInv, done
  <2> QED BY <1>1, <1>5, <1>6, <2>1
<1>13. FoundInv'
  <2>1. Range(found) \subseteq past'.ever
    BY <1>2 DEF FoundInv
  <2> QED BY <1>2, <1>12, <2>1 DEF FoundInv, done
<1> QED BY <1>11, <1>13

LEMMA PageStep ==
    ASSUME ReadsTypeOK, InstalledInv, FoundInv, ListPage
    PROVE  InstalledInv' /\ FoundInv'
<1> DEFINE page == PageAfter(pages)
           done == pages * PageSize
<1>1. /\ installed \in Seq(Repos) /\ found \in Seq(Repos) /\ pages \in Nat
      /\ Len(installed) \in Nat /\ Len(found) \in Nat
  BY DEF ReadsTypeOK
<1>2. /\ installed' = installed /\ past' = past /\ pages' = pages + 1
      /\ found' = found \o page
  BY DEF ListPage, Answers
<1>3. /\ done \in Nat /\ (pages + 1) * PageSize = done + PageSize /\ PageSize \in Nat \ {0}
      /\ page \in Seq(Repos)
      /\ \A i \in 1..Len(page) : done + i \in 1..Len(installed) /\ page[i] = installed[done + i]
      /\ \A k \in 1..Len(installed) :
            k > done /\ k <= done + PageSize => k - done \in 1..Len(page)
  BY <1>1, PageBehind
<1> HIDE DEF page
<1>4. /\ found \o page \in Seq(Repos) /\ Len(found \o page) = Len(found) + Len(page)
      /\ \A i \in 1..Len(found) + Len(page) :
            (found \o page)[i] = IF i <= Len(found) THEN found[i] ELSE page[i - Len(found)]
  BY <1>1, <1>3, Concatenated
<1>5. Range(found \o page) = Range(found) \cup Range(page)
  BY <1>1, <1>3, BothRanges
<1>6. Range(page) \subseteq Range(installed)
  <2>1. \A i \in 1..Len(page) : page[i] \in Range(installed)
    BY <1>1, <1>3, InRange
  <2>2. ASSUME NEW x \in Range(page)
        PROVE  x \in Range(installed)
    <3>1. PICK i \in 1..Len(page) : page[i] = x
      BY <1>3, <2>2, InRange
    <3> QED BY <2>1, <3>1
  <2> QED BY <2>2
<1>7. pages' * PageSize = done + PageSize
  BY <1>2, <1>3
<1>8. InstalledInv'
  BY <1>2 DEF InstalledInv
<1>9. ASSUME ~past.removed, NEW i \in 1..Len(installed), i <= done + PageSize,
             installed[i] \in past.always
      PROVE  installed[i] \in Range(found \o page)
  <2>1. CASE i <= done
    BY <1>5, <1>9, <2>1 DEF FoundInv
  <2>2. CASE i > done
    <3>1. i - done \in 1..Len(page) /\ done + (i - done) = i
      BY <1>1, <1>3, <1>9, <2>2
    <3>2. page[i - done] = installed[i]
      BY <1>3, <3>1
    <3> QED BY <1>3, <1>5, <3>1, <3>2, InRange
  <2> QED BY <1>1, <1>3, <2>1, <2>2
<1>10. ASSUME ~past.added
       PROVE  /\ IsInjective(found \o page)
              /\ \A i \in 1..Len(installed) :
                    i > done + PageSize => installed[i] \notin Range(found \o page)
  <2>1. /\ IsInjective(found)
        /\ \A k \in 1..Len(installed) : k > done => installed[k] \notin Range(found)
    BY <1>10 DEF FoundInv
  <2>2. \A k, m \in 1..Len(installed) : installed[k] = installed[m] => k = m
    BY <1>1, Injective DEF InstalledInv
  <2>3. \A k, m \in 1..Len(found) : found[k] = found[m] => k = m
    BY <1>1, <2>1, Injective
  <2>4. \A k \in 1..Len(page), m \in 1..Len(found) : page[k] # found[m]
    <3>1. ASSUME NEW k \in 1..Len(page), NEW m \in 1..Len(found), page[k] = found[m]
          PROVE  FALSE
      <4>1. done + k \in 1..Len(installed) /\ done + k > done /\ page[k] = installed[done + k]
        BY <1>3
      <4>2. found[m] \in Range(found)
        BY <1>1, InRange
      <4> QED BY <2>1, <3>1, <4>1, <4>2
    <3> QED BY <3>1
  <2>5. \A k, m \in 1..Len(page) : page[k] = page[m] => k = m
    <3>1. ASSUME NEW k \in 1..Len(page), NEW m \in 1..Len(page), page[k] = page[m]
          PROVE  k = m
      <4>1. done + k = done + m
        BY <1>3, <2>2, <3>1
      <4> QED BY <1>3, <4>1
    <3> QED BY <3>1
  <2>6. IsInjective(found \o page)
    <3>1. ASSUME NEW k \in 1..Len(found \o page), NEW m \in 1..Len(found \o page),
                 (found \o page)[k] = (found \o page)[m]
          PROVE  k = m
      <4>0. Len(page) \in Nat /\ k \in 1..Len(found) + Len(page) /\ m \in 1..Len(found) + Len(page)
        BY <1>3, <1>4
      <4>1. CASE k <= Len(found) /\ m <= Len(found)
        BY <1>1, <1>4, <2>3, <3>1, <4>0, <4>1
      <4>2. CASE k > Len(found) /\ m > Len(found)
        <5>1. k - Len(found) \in 1..Len(page) /\ m - Len(found) \in 1..Len(page)
          BY <1>1, <4>0, <4>2
        <5>2. page[k - Len(found)] = page[m - Len(found)]
          BY <1>1, <1>4, <3>1, <4>0, <4>2
        <5>3. k - Len(found) = m - Len(found)
          BY <2>5, <5>1, <5>2
        <5> QED BY <1>1, <4>0, <5>3
      <4>3. CASE k <= Len(found) /\ m > Len(found)
        <5>1. k \in 1..Len(found) /\ m - Len(found) \in 1..Len(page)
          BY <1>1, <4>0, <4>3
        <5>2. found[k] = page[m - Len(found)]
          BY <1>1, <1>4, <3>1, <4>0, <4>3
        <5> QED BY <2>4, <5>1, <5>2
      <4>4. CASE k > Len(found) /\ m <= Len(found)
        <5>1. m \in 1..Len(found) /\ k - Len(found) \in 1..Len(page)
          BY <1>1, <4>0, <4>4
        <5>2. found[m] = page[k - Len(found)]
          BY <1>1, <1>4, <3>1, <4>0, <4>4
        <5> QED BY <2>4, <5>1, <5>2
      <4> QED BY <1>1, <4>0, <4>1, <4>2, <4>3, <4>4
    <3> QED BY <1>4, <3>1, Injective
  <2>7. ASSUME NEW i \in 1..Len(installed), i > done + PageSize
        PROVE  installed[i] \notin Range(found \o page)
    <3>1. i > done
      BY <1>1, <1>3, <2>7
    <3>2. \A k \in 1..Len(page) : done + k <= done + PageSize
      BY <1>1, <1>3, PageBehind DEF page
    <3>3. \A k \in 1..Len(page) : page[k] # installed[i]
      <4>1. ASSUME NEW k \in 1..Len(page), page[k] = installed[i]
            PROVE  FALSE
        <5>1. done + k = i
          BY <1>3, <2>2, <4>1
        <5>2. done + k <= done + PageSize
          BY <3>2
        <5> QED BY <1>1, <1>3, <2>7, <5>1, <5>2
      <4> QED BY <4>1
    <3>4. installed[i] \notin Range(page)
      BY <1>3, <3>3, InRange
    <3> QED BY <1>5, <2>1, <3>1, <3>4
  <2> QED BY <2>6, <2>7
<1>11. Range(found \o page) \subseteq past.ever
  BY <1>5, <1>6 DEF InstalledInv, FoundInv
<1>12. FoundInv'
  BY <1>2, <1>7, <1>9, <1>10, <1>11 DEF FoundInv
<1> QED BY <1>8, <1>12

\* The steps that do not concern listings.
LEMMA ListKept ==
    ASSUME InstalledInv, FoundInv, installed' = installed, found' = found, pages' = pages,
           past'.always = past.always, past'.ever = past.ever,
           past'.added = past.added, past'.removed = past.removed
    PROVE  InstalledInv' /\ FoundInv'
BY DEF InstalledInv, FoundInv

LEMMA ListInvStep ==
    ReadsTypeOK /\ InstalledInv /\ FoundInv /\ [Next]_vars => InstalledInv' /\ FoundInv'
<1> SUFFICES ASSUME ReadsTypeOK, InstalledInv, FoundInv, [Next]_vars
             PROVE  InstalledInv' /\ FoundInv'
  OBVIOUS
<1>0. past \in Pasts /\ installed \in Seq(Repos)
  BY DEF ReadsTypeOK
<1>a. Answers => installed' = installed /\ past' = past
  BY DEF Answers
<1>1. ASSUME NEW safe \in BOOLEAN, Begin(safe)
      PROVE  InstalledInv' /\ FoundInv'
  BY <1>1, ListKept DEF Begin, github
<1>2. CASE RequestFails
  BY <1>2, ListKept DEF RequestFails, github
<1>3. ASSUME NEW answer \in RefusalsNow, Refused(answer)
      PROVE  InstalledInv' /\ FoundInv'
  <2>1. /\ past'.always = past.always /\ past'.ever = past.ever
        /\ past'.added = past.added /\ past'.removed = past.removed
    BY <1>0, <1>3 DEF Refused, Pasts
  <2> QED BY <1>3, <2>1, ListKept DEF Refused
<1>4. CASE Malformed
  BY <1>4, <1>a, ListKept DEF Malformed
<1>5. CASE ListPage
  BY <1>5, PageStep
<1>6. CASE ReadMetadata
  <2>1. Answers /\ UNCHANGED <<pages, found>>
    BY <1>6 DEF ReadMetadata
  <2> QED BY <1>a, <2>1, ListKept
<1>7. CASE ReadRaw
  BY <1>7, <1>a, ListKept DEF ReadRaw
<1>8. CASE ReadTree
  BY <1>8, <1>a, ListKept DEF ReadTree
<1>9. ASSUME NEW items, NEW total, Search(items, total)
      PROVE  InstalledInv' /\ FoundInv'
  BY <1>9, <1>a, ListKept DEF Search
<1>10. ASSUME NEW repo \in Repos, NEW i \in 1..(Len(installed) + 1), Install(repo, i)
       PROVE  InstalledInv' /\ FoundInv'
  BY <1>10, InstallStep
<1>11. ASSUME NEW i \in DOMAIN installed, Uninstall(i)
       PROVE  InstalledInv' /\ FoundInv'
  <2>1. i \in 1..Len(installed)
    BY <1>0
  <2> QED BY <1>11, <2>1, UninstallStep
<1>12. ASSUME NEW new \in Objects, Push(new)
       PROVE  InstalledInv' /\ FoundInv'
  <2>1. /\ past'.always = past.always /\ past'.ever = past.ever
        /\ past'.added = past.added /\ past'.removed = past.removed
    BY <1>0, <1>12 DEF Push, Pasts
  <2> QED BY <1>12, <2>1, ListKept DEF Push, Changes, call
<1>13. CASE Rename
  <2>1. /\ past'.always = past.always /\ past'.ever = past.ever
        /\ past'.added = past.added /\ past'.removed = past.removed
    BY <1>0, <1>13 DEF Rename, Pasts
  <2> QED BY <1>13, <2>1, ListKept DEF Rename, Changes, call
<1>14. CASE NewWindow
  BY <1>14, ListKept DEF NewWindow, Changes, call
<1>15. CASE UNCHANGED vars
  BY <1>15, ListKept DEF vars, github, call
<1> QED
  BY <1>1, <1>2, <1>3, <1>4, <1>5, <1>6, <1>7, <1>8, <1>9, <1>10, <1>11, <1>12, <1>13, <1>14, <1>15
  DEF Next, CallStep, GithubChanges

LEMMA AllowedEntries ==
    ASSUME NEW list \in Seq(Repos)
    PROVE  /\ Range(Allowed(list)) = Range(list) \cap Allowlist
           /\ IsInjective(list) => IsInjective(Allowed(list))
<1> DEFINE places == {i \in DOMAIN list : list[i] \in Allowlist}
<1>1. Allowed(list) = Restrict(list, places)
  BY DEF Allowed
<1>2. DOMAIN Restrict(list, places) = places
      /\ \A i \in places : Restrict(list, places)[i] = list[i]
  BY DEF Restrict
<1>3. Range(Restrict(list, places)) = Range(list) \cap Allowlist
  BY <1>2 DEF Range
<1>4. IsInjective(list) => IsInjective(Restrict(list, places))
  BY <1>2 DEF IsInjective
<1> QED BY <1>1, <1>3, <1>4

\* The last page of a listing.
LEMMA ListEnds ==
    ASSUME ReadsTypeOK', InstalledInv', FoundInv', ListPage, ~HasNext(pages'),
           result' = [kind |-> "listing", repos |-> Allowed(found')]
    PROVE  ListingComplete'
<1>1. /\ installed' \in Seq(Repos) /\ found' \in Seq(Repos) /\ Len(installed') \in Nat
  BY DEF ReadsTypeOK
<1>2. /\ Range(result'.repos) = Range(found') \cap Allowlist
      /\ IsInjective(found') => IsInjective(result'.repos)
  BY <1>1, AllowedEntries
<1>3. \A i \in 1..Len(installed') : i <= pages' * PageSize
  <2>1. installed' = installed /\ pages' \in Nat
    BY DEF ListPage, Answers, ReadsTypeOK
  <2>2. pages' * PageSize \in Nat
    <3>1. \A n \in Nat : n * PageSize \in Nat
      BY Constant
    <3> QED BY <2>1, <3>1
  <2>3. ~(Len(installed') > pages' * PageSize)
    BY <2>1 DEF HasNext
  <2> QED BY <1>1, <2>2, <2>3
<1>4. ~past'.removed => past'.always \subseteq Range(found')
  <2>1. ASSUME ~past'.removed, NEW x \in past'.always
        PROVE  x \in Range(found')
    <3>1. PICK i \in 1..Len(installed') : installed'[i] = x
      BY <1>1, <2>1, InRange DEF InstalledInv
    <3> QED BY <1>3, <2>1, <3>1 DEF FoundInv
  <2> QED BY <2>1
<1> QED BY <1>2, <1>4 DEF ListingComplete, FoundInv

\* A listing has every allowed repository that was there all along, unless one was
\* removed meanwhile, and none twice, unless one was added (client.py,
\* list_installation_repositories).
THEOREM ListingsAreComplete == Spec => []ListingComplete
<1> DEFINE J == ReadsTypeOK /\ PagesLeft /\ InstalledInv /\ FoundInv
<1>1. Init => J /\ ListingComplete
  BY InitTyped, ListInit DEF Init, ListingComplete, Result
<1>2. J /\ ListingComplete /\ [Next]_vars => J' /\ ListingComplete'
  <2> SUFFICES ASSUME J, ListingComplete, [Next]_vars PROVE J' /\ ListingComplete'
    OBVIOUS
  <2>1. J'
    BY StepTyped, ListInvStep
  <2>2. CASE UNCHANGED vars
    BY <2>1, <2>2 DEF ListingComplete, Result, vars, call
  <2>3. CASE Next /\ Result("listing")'
    <3>1. CASE result' = [kind |-> "listing", repos |-> Allowed(found')] /\ ListPage
               /\ ~HasNext(pages')
      BY <2>1, <3>1, ListEnds
    <3>2. CASE result' = [kind |-> "listing", repos |-> <<>>] /\ \E safe \in BOOLEAN : Begin(safe)
      <4>1. Range(result'.repos) = {} /\ IsInjective(result'.repos)
        BY <3>2 DEF Range, IsInjective
      <4>2. Allowlist = {}
        <5>1. PICK safe \in BOOLEAN : Begin(safe)
          BY <3>2
        <5>2. stage' = "ended" /\ result'.kind = "listing"
          BY <2>3 DEF Result
        <5>3. ~End(Error("boundary")) /\ ~(stage' = "asking" /\ UNCHANGED result)
          BY <5>2 DEF End, Error
        <5> QED BY <5>1, <5>3 DEF Begin
      <4> QED BY <2>1, <4>1, <4>2 DEF ListingComplete
    <3>3. \/ result' = [kind |-> "listing", repos |-> Allowed(found')] /\ ListPage
            /\ ~HasNext(pages')
          \/ result' = [kind |-> "listing", repos |-> <<>>] /\ \E safe \in BOOLEAN : Begin(safe)
      BY <2>3, HowItEnds DEF Result
    <3> QED BY <2>1, <3>1, <3>2, <3>3
  <2>4. CASE ~Result("listing")'
    BY <2>1, <2>4 DEF ListingComplete
  <2> QED BY <2>2, <2>3, <2>4
<1> QED BY <1>1, <1>2, PTL DEF Spec

-----------------------------------------------------------------------------
(* The body of a tool *)

\* Before the end there is no result, and only a listing counts pages; a listing
\* takes no note of a size.
BodyInv ==
    /\ stage = "idle" => pages = 0 /\ noted = NoSize
    /\ stage # "ended" => result.kind = "none"
    /\ IF op = "list_repos" THEN noted = NoSize ELSE pages = 0

\* What a step means for the body: it begins, ends, counts one more answer, or
\* nothing.
Begins == stage = "idle" /\ stage' = "asking" /\ UNCHANGED <<op, pages, noted, result>>

Finishes ==
    /\ stage # "ended" /\ stage' = "ended" /\ op' = op
    /\ IF op = "list_repos" THEN noted' = noted ELSE pages' = pages

Counts ==
    /\ stage = "asking" /\ UNCHANGED <<op, stage, result>>
    /\ \/ /\ op = "list_repos" /\ pages' = pages + 1 /\ pages' # PageLimit
          /\ UNCHANGED noted
       \/ /\ op = "read_file" /\ noted = NoSize /\ noted' \in Nat
          /\ UNCHANGED pages

Rests == UNCHANGED <<op, stage, pages, noted, result>>

LEMMA BodySteps ==
    ASSUME ReadsTypeOK, [Next]_vars
    PROVE  Begins \/ Finishes \/ Counts \/ Rests
<1>1. ASSUME NEW safe \in BOOLEAN, Begin(safe)
      PROVE  Begins \/ Finishes
  BY <1>1 DEF Begin, End, Begins, Finishes
<1>2. RequestFails => Finishes
  BY DEF RequestFails, End, Finishes
<1>3. ASSUME NEW answer, Refused(answer)
      PROVE  Finishes
  BY <1>3 DEF Refused, End, Finishes
<1>4. Malformed => Finishes
  BY DEF Malformed, Answers, End, Finishes
<1>5. ListPage => Finishes \/ Counts
  BY DEF ListPage, Asking, Answers, End, AtPageLimit, Finishes, Counts
<1>6. ASSUME ReadMetadata
      PROVE  Finishes \/ Counts
  <2>1. stage = "asking" /\ op = "read_file" /\ noted = NoSize /\ op' = op /\ pages' = pages
    BY <1>6 DEF ReadMetadata, Asking, Answers
  <2>2. \/ stage' = "ended"
        \/ noted' = object.size /\ UNCHANGED <<stage, result>>
    BY <1>6 DEF ReadMetadata, End
  <2>3. object.size \in Nat
    BY Constant DEF ReadsTypeOK
  <2> QED BY <2>1, <2>2, <2>3 DEF Finishes, Counts
<1>7. ReadRaw => Finishes
  BY DEF ReadRaw, Asking, Answers, End, Finishes
<1>8. ReadTree => Finishes
  BY DEF ReadTree, Asking, Answers, End, Finishes
<1>9. ASSUME NEW items, NEW total, Search(items, total)
      PROVE  Finishes
  BY <1>9 DEF Search, Asking, Answers, End, Finishes
<1>10. GithubChanges => Rests
  BY DEF GithubChanges, Install, Uninstall, Push, Rename, NewWindow, Changes, call, Rests
<1>11. UNCHANGED vars => Rests
  BY DEF vars, call, Rests
<1> QED BY <1>1, <1>2, <1>3, <1>4, <1>5, <1>6, <1>7, <1>8, <1>9, <1>10, <1>11 DEF Next, CallStep

LEMMA BodyInvStep == ReadsTypeOK /\ BodyInv /\ [Next]_vars => BodyInv'
BY BodySteps DEF BodyInv, Begins, Finishes, Counts, Rests

\* Every step is one of ToolBody, or one it does not see.
LEMMA BodyMoves ==
    ASSUME ReadsTypeOK, PagesLeft, BodyInv, [Next]_vars
    PROVE  [Body!Next]_(Body!vars)
<1>1. op \in Ops /\ pages \in Nat /\ stage \in {"idle", "asking", "ended"}
  BY Constant DEF ReadsTypeOK
<1>2. CASE Begins
  <2>1. Body!Ask(op)
    BY <1>2 DEF Begins, BodyInv, Body!Ask
  <2> QED BY <1>1, <2>1 DEF Body!Next, Ops
<1>3. CASE Finishes
  <2>1. Body!End(result'.kind \notin {"none", "error"})
    BY <1>1, <1>3 DEF Finishes, Body!End, Body!Ends, Body!NoTool
  <2> QED BY <2>1 DEF Body!Next
<1>4. CASE Counts
  <2>1. CASE /\ op = "list_repos" /\ pages' = pages + 1 /\ pages' # PageLimit
             /\ UNCHANGED noted
    <3>1. noted = NoSize /\ pages < PageLimit
      BY <1>4, <2>1 DEF Counts, BodyInv, PagesLeft
    <3>2. pages + 1 < PageLimit
      BY <1>1, <2>1, <3>1, Constant
    <3>3. Body!AskNext
      BY <1>4, <2>1, <3>1, <3>2 DEF Counts, Body!AskNext, Body!MaxAnswers
    <3> QED BY <3>3 DEF Body!Next
  <2>2. CASE /\ op = "read_file" /\ noted = NoSize /\ noted' \in Nat
             /\ UNCHANGED pages
    <3>1. pages = 0 /\ noted' # NoSize
      BY <2>2 DEF BodyInv, NoSize
    <3>2. Body!AskNext
      BY <1>4, <2>2, <3>1 DEF Counts, Body!AskNext, Body!MaxAnswers
    <3> QED BY <3>2 DEF Body!Next
  <2> QED BY <1>4, <2>1, <2>2 DEF Counts
<1>5. CASE Rests
  BY <1>5 DEF Rests, Body!vars
<1> QED BY <1>2, <1>3, <1>4, <1>5, BodySteps

\* Refinement: whatever GitHub answers and however it changes between two answers,
\* the body of a tool (tools.py, client.py) asks no more often than ToolBody allows,
\* has no result before its end, and ends for good.
THEOREM ReadsKeepToTheirBody == Spec => KeepsToItsBody
<1>1. Init => BodyInv /\ Body!Init
  BY DEF Init, BodyInv, NoResult, Body!Init, Body!NoTool
<1>2. Init => ReadsTypeOK /\ PagesLeft
  BY InitTyped
<1>3. ReadsTypeOK /\ PagesLeft /\ [Next]_vars => (ReadsTypeOK /\ PagesLeft)'
  BY StepTyped
<1> QED BY <1>1, <1>2, <1>3, BodyInvStep, BodyMoves, PTL DEF Spec, KeepsToItsBody, Body!Spec

================================================================================
