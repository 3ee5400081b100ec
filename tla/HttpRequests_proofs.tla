------------------------- MODULE HttpRequests_proofs --------------------------
(***************************************************************************)
(* What the gateway reads out of a request, for every client, stream and   *)
(* cut: a query is routed to what its client asked for, and of a packet    *)
(* each member is read as its device wrote it.                             *)
(*                                                                         *)
(* The head of a request is a line of three words, so that its method, its *)
(* target and what is behind the head are known; the path is then compared *)
(* with each form that Route knows, and at most one fits.                  *)
(*                                                                         *)
(* A body is a member for each name of its order. The first place where a  *)
(* name stands is that of its member, unless the telemetry object holds it *)
(* before: what stands there is what was written, and of a body that was   *)
(* cut the same or nothing.                                                *)
(***************************************************************************)
EXTENDS HttpAnswers_proofs

-----------------------------------------------------------------------------
(* What the first line of a request is read as *)

\* The least of a set is the one that no other is less than.
LEMMA LeastOf ==
    ASSUME NEW I \in SUBSET Nat, NEW k \in I, \A i \in I : k <= i
    PROVE  Min(I) = k
<1>1. Min(I) \in I /\ Min(I) <= k
    BY LeastIs
<1>2. k <= Min(I) /\ Min(I) \in Nat /\ k \in Nat
    BY <1>1
<1> QED BY ONLY <1>1, <1>2

\* Spaces are skipped to the first symbol that is none.
LEMMA SkipsTo ==
    ASSUME NEW text, Len(text) \in Nat, NEW from \in Nat \ {0}, NEW k \in from..Len(text),
           text[k] \notin Spaces, \A i \in from..(k - 1) : text[i] \in Spaces
    PROVE  SkipSpaces(text, from) = k
<1> DEFINE I == {i \in from..Len(text) : ~(text[i] \in Spaces)}
<1>1. SkipSpaces(text, from) = LET i == IF I # {} THEN Min(I) ELSE 0
                               IN  IF i = 0 THEN Len(text) + 1 ELSE i
    BY DEF SkipSpaces, PastAll, SelectInSubSeq
<1>2. I \in SUBSET Nat /\ k \in I /\ \A i \in I : k <= i
    OBVIOUS
<1>3. Min(I) = k /\ I # {} /\ k # 0
    <2>1. k # 0
        OBVIOUS
    <2> HIDE DEF I
    <2> QED BY <1>2, <2>1, LeastOf
<1> HIDE DEF I
<1> QED BY <1>1, <1>3

\* A word ends at the first space behind its begin.
LEMMA WordEndsAt ==
    ASSUME NEW text, Len(text) \in Nat, NEW from, NEW begin \in Nat \ {0},
           SkipSpaces(text, from) = begin, NEW k \in begin..Len(text), text[k] \in Spaces,
           \A i \in begin..(k - 1) : text[i] \notin Spaces
    PROVE  WordEnd(text, from) = k /\ NextWord(text, from) = SubSeq(text, begin, k - 1)
<1> DEFINE I == {i \in begin..Len(text) : ~(text[i] \notin Spaces)}
<1>1. WordEnd(text, from) = LET i == IF I # {} THEN Min(I) ELSE 0
                            IN  IF i = 0 THEN Len(text) + 1 ELSE i
    BY DEF WordEnd, PastAll, SelectInSubSeq
<1>2. I \in SUBSET Nat /\ k \in I /\ \A i \in I : k <= i
    OBVIOUS
<1>3. Min(I) = k /\ I # {} /\ k # 0
    <2>1. k # 0
        OBVIOUS
    <2> HIDE DEF I
    <2> QED BY <1>2, <2>1, LeastOf
<1>4. WordEnd(text, from) = k
    <2> HIDE DEF I
    <2> QED BY <1>1, <1>3
<1> QED BY <1>4 DEF NextWord

\* The end of a line, symbol by symbol.
LEMMA CrlfAt ==
    ASSUME NEW t, NEW i \in Nat
    PROVE  SubSeq(t, i, i + 1) = Crlf <=> t[i] = Cr /\ t[i + 1] = Lf
<1>1. PICK u, n, c : u = SubSeq(t, i, n) /\ n = i + 1 /\ c = Crlf
    OBVIOUS
<1>2. n \in Nat /\ i <= n /\ n - i + 1 = 2 /\ i + 1 - 1 = i /\ i + 2 - 1 = i + 1
    BY <1>1
<1>3. IsText(u) /\ Len(u) = n - i + 1 /\ \A j \in 1..Len(u) : u[j] = t[i + j - 1]
    <2>1. IsText(u)
        BY <1>1, <1>2, TextOfPart
    <2>2. Len(u) = n - i + 1
        BY <1>1, <1>2, TextOfPart
    <2>3. \A j \in 1..Len(u) : u[j] = t[i + j - 1]
        BY <1>1, <1>2, TextOfPart
    <2> QED BY ONLY <2>1, <2>2, <2>3
<1>4. Len(u) = 2 /\ u[1] = t[i] /\ u[2] = t[i + 1]
    <2>1. 1 \in 1..Len(u) /\ 2 \in 1..Len(u)
        BY ONLY <1>2, <1>3
    <2>2. u[1] = t[i + 1 - 1] /\ u[2] = t[i + 2 - 1]
        BY ONLY <1>3, <2>1
    <2> QED BY ONLY <1>2, <1>3, <2>2
<1>5. PICK S : u \in Seq(S)
    BY <1>3 DEF IsText
<1>6. c = <<Cr, Lf>>
    BY <1>1, SpacesAre
<1>7. u = c <=> u[1] = Cr /\ u[2] = Lf
    BY ONLY <1>4, <1>5, <1>6
<1> QED BY <1>1, <1>4, <1>7

\* The first end of a line.
LEMMA FirstCrlf ==
    ASSUME NEW t, Len(t) \in Nat, NEW k \in 1..(Len(t) - 1), t[k] = Cr, t[k + 1] = Lf,
           \A i \in 1..(k - 1) : t[i] # Cr
    PROVE  FindSeq(t, Crlf) = k
<1> DEFINE I == {i \in 1 .. Len(t) - 2 + 1 : SubSeq(t, i, i + 2 - 1) = Crlf}
<1>1. FindSeq(t, Crlf) = IF I = {} THEN 0 ELSE Min(I)
    <2>1. Len(Crlf) = 2
        BY CrlfTwice
    <2> QED BY <2>1 DEF FindSeq
<1>2. I \in SUBSET Nat
    OBVIOUS
<1>3. \A i \in 1..(Len(t) - 1) : i \in I <=> (t[i] = Cr /\ t[i + 1] = Lf)
    <2> TAKE i \in 1..(Len(t) - 1)
    <2>1. i \in Nat /\ i + 2 - 1 = i + 1 /\ i \in 1 .. Len(t) - 2 + 1
        OBVIOUS
    <2>2. SubSeq(t, i, i + 1) = Crlf <=> t[i] = Cr /\ t[i + 1] = Lf
        BY ONLY <2>1, CrlfAt
    <2> QED BY <2>1, <2>2
<1>4. \A i \in I : i \in 1..(Len(t) - 1)
    OBVIOUS
<1> HIDE DEF I
<1>5. k \in I
    BY <1>3
<1>6. \A i \in I : k <= i
    <2> SUFFICES ASSUME NEW i \in I, ~(k <= i) PROVE FALSE
        OBVIOUS
    <2>1. i \in 1..(Len(t) - 1) /\ t[i] = Cr
        BY <1>3, <1>4
    <2>2. i \in 1..(k - 1)
        BY <2>1
    <2> QED BY <2>1, <2>2
<1>7. Min(I) = k
    BY ONLY <1>2, <1>5, <1>6, LeastOf
<1> QED BY <1>1, <1>5, <1>7

\* The words of a line that are separated by one space.
Lines(line, m, target) ==
    /\ Len(line) = Len(target) + 4 /\ Len(target) \in Nat \ {0}
    /\ line[1] = m /\ line[2] = Sp /\ m \notin Spaces
    /\ \A i \in 1..Len(target) : line[2 + i] = target[i] /\ target[i] \notin Spaces
    /\ line[Len(target) + 3] = Sp

\* The first two words of such a line are the method and the target.
LEMMA WordsRead ==
    ASSUME NEW S, NEW m \in S, NEW target \in Seq(S), NEW line \in Seq(S), Lines(line, m, target),
           NEW path, path = WordEnd(line, 1)
    PROVE  /\ NextWord(line, 1) = <<m>> /\ NextWord(line, path) = target
           /\ WordEnd(line, path) = Len(target) + 3
<1>1. PICK p : p = Len(target)
    OBVIOUS
<1>2. /\ Len(line) = p + 4 /\ p \in Nat \ {0}
      /\ line[1] = m /\ line[2] = Sp /\ m \notin Spaces
      /\ \A i \in 1..p : line[2 + i] = target[i] /\ target[i] \notin Spaces
      /\ line[p + 3] = Sp /\ Sp \in Spaces
    BY <1>1, SpacesAre DEF Lines
<1>3. /\ Len(line) \in Nat /\ 1 \in Nat \ {0} /\ 2 \in Nat \ {0} /\ 3 \in Nat \ {0}
      /\ 1 \in 1..Len(line) /\ 2 \in 1..Len(line) /\ 3 \in 2..Len(line) /\ p + 3 \in 3..Len(line)
      /\ 1 - 1 = 0 /\ 2 - 1 = 1 /\ 3 - 1 = 2 /\ p + 3 - 1 = p + 2
    BY ONLY <1>2
<1>4. SkipSpaces(line, 1) = 1
    <2>1. \A i \in 1..(1 - 1) : line[i] \in Spaces
        OBVIOUS
    <2> QED BY ONLY <1>2, <1>3, <2>1, SkipsTo
<1>5. path = 2 /\ NextWord(line, 1) = SubSeq(line, 1, 1)
    <2>1. PICK a, k : a = 1 /\ k = 2
        OBVIOUS
    <2>2. \A i \in a..(k - 1) : line[i] \notin Spaces
        BY <1>2, <2>1
    <2>3. /\ Len(line) \in Nat /\ a \in Nat \ {0} /\ SkipSpaces(line, a) = a
          /\ k \in a..Len(line) /\ line[k] \in Spaces
        BY <1>2, <1>3, <1>4, <2>1
    <2>4. WordEnd(line, a) = k /\ NextWord(line, a) = SubSeq(line, a, k - 1)
        BY ONLY <2>2, <2>3, WordEndsAt
    <2> QED BY ONLY <1>3, <2>1, <2>4, path = WordEnd(line, 1)
<1>6. \A i \in 3..(p + 2) : line[i] = target[i - 2] /\ line[i] \notin Spaces
    <2> TAKE i \in 3..(p + 2)
    <2>1. i - 2 \in 1..p /\ 2 + (i - 2) = i
        BY <1>2
    <2> QED BY ONLY <1>2, <2>1
<1>7. SkipSpaces(line, 2) = 3
    <2>1. line[3] \notin Spaces
        BY <1>2, <1>6
    <2>2. \A i \in 2..(3 - 1) : line[i] \in Spaces
        BY <1>2
    <2> QED BY ONLY <1>2, <1>3, <2>1, <2>2, SkipsTo
<1>8. NextWord(line, 2) = SubSeq(line, 3, p + 2) /\ WordEnd(line, 2) = p + 3
    <2>1. PICK k : k = p + 3
        OBVIOUS
    <2>2. \A i \in 3..(k - 1) : line[i] \notin Spaces
        BY <1>2, <1>6, <2>1
    <2>3. k \in 3..Len(line) /\ line[k] \in Spaces
        BY <1>2, <1>3, <2>1
    <2>4. NextWord(line, 2) = SubSeq(line, 3, k - 1) /\ WordEnd(line, 2) = k
        BY ONLY <1>3, <1>7, <2>2, <2>3, WordEndsAt
    <2> QED BY ONLY <1>2, <1>3, <2>1, <2>4
<1>9. SubSeq(line, 1, 1) = <<m>>
    <2>1. PICK u, n : u = SubSeq(line, n, n) /\ n = 1
        OBVIOUS
    <2>2. n \in Nat /\ n <= n /\ n - n + 1 = 1 /\ n + 1 - 1 = 1
        BY ONLY <2>1
    <2>3. IsText(u) /\ Len(u) = n - n + 1 /\ \A i \in 1..Len(u) : u[i] = line[n + i - 1]
        <3>1. IsText(u)
            BY ONLY <2>1, <2>2, TextOfPart
        <3>2. Len(u) = n - n + 1
            BY ONLY <2>1, <2>2, TextOfPart
        <3>3. \A i \in 1..Len(u) : u[i] = line[n + i - 1]
            BY ONLY <2>1, <2>2, TextOfPart
        <3> QED BY ONLY <3>1, <3>2, <3>3
    <2>4. Len(u) = 1 /\ u[1] = m
        BY ONLY <1>2, <2>2, <2>3
    <2>5. PICK R : u \in Seq(R)
        BY <2>3 DEF IsText
    <2>6. u = <<m>>
        BY ONLY <2>4, <2>5
    <2> QED BY ONLY <2>1, <2>6
<1>10. SubSeq(line, 3, p + 2) = target
    <2>1. PICK u, b, n : u = SubSeq(line, b, n) /\ b = 3 /\ n = p + 2
        OBVIOUS
    <2>2. b \in Nat /\ n \in Nat /\ b <= n /\ n - b + 1 = p
        BY ONLY <1>2, <2>1
    <2>3. IsText(u) /\ Len(u) = n - b + 1 /\ \A i \in 1..Len(u) : u[i] = line[b + i - 1]
        <3>1. IsText(u)
            BY ONLY <2>1, <2>2, TextOfPart
        <3>2. Len(u) = n - b + 1
            BY ONLY <2>1, <2>2, TextOfPart
        <3>3. \A i \in 1..Len(u) : u[i] = line[b + i - 1]
            BY ONLY <2>1, <2>2, TextOfPart
        <3> QED BY ONLY <3>1, <3>2, <3>3
    <2>4. \A i \in 1..p : b + i - 1 = 2 + i
        BY ONLY <1>2, <2>1
    <2>5. Len(u) = p /\ \A i \in 1..p : u[i] = target[i]
        BY ONLY <1>2, <2>2, <2>3, <2>4
    <2>6. PICK R : u \in Seq(R)
        BY <2>3 DEF IsText
    <2>7. u = target
        BY <1>1, <1>2, <2>5, <2>6
    <2> QED BY ONLY <2>1, <2>7
<1> QED BY ONLY <1>1, <1>5, <1>8, <1>9, <1>10

\* There is a third word, the version.
LEMMA VersionRead ==
    ASSUME NEW S, NEW line \in Seq(S), NEW p \in Nat, Len(line) = p + 4,
           line[p + 3] \in Spaces, line[p + 4] \notin Spaces
    PROVE  NextWord(line, p + 3) # <<>>
<1>1. PICK from, k : from = p + 3 /\ k = p + 4
    OBVIOUS
<1>2. /\ from \in Nat \ {0} /\ k \in from..Len(line) /\ Len(line) \in Nat
      /\ line[k] \notin Spaces
    BY <1>1
<1>3. \A i \in from..(k - 1) : line[i] \in Spaces
    BY <1>1
<1>4. SkipSpaces(line, from) = k
    BY ONLY <1>2, <1>3, SkipsTo
<1>5. WordEnd(line, from) = k + 1
    <2>1. WordEnd(line, from) = PastAll(line, k, LAMBDA x : x \notin Spaces)
        BY <1>4 DEF WordEnd
    <2>2. PICK I : I = {i \in k..Len(line) : line[i] \in Spaces}
        OBVIOUS
    <2>3. WordEnd(line, from) = IF (IF I # {} THEN Min(I) ELSE 0) = 0 THEN Len(line) + 1
                                ELSE IF I # {} THEN Min(I) ELSE 0
        BY <2>1, <2>2 DEF PastAll, SelectInSubSeq
    <2>4. I = {}
        BY <1>1, <1>2, <2>2
    <2> QED BY <1>1, <2>3, <2>4
<1>6. NextWord(line, from) = SubSeq(line, k, k)
    <2>1. (k + 1) - 1 = k
        BY <1>2
    <2>2. NextWord(line, from) = SubSeq(line, k, (k + 1) - 1)
        BY ONLY <1>4, <1>5 DEF NextWord
    <2> QED BY ONLY <2>1, <2>2
<1>7. SubSeq(line, k, k) # <<>>
    <2>1. PICK u : u = SubSeq(line, k, k)
        OBVIOUS
    <2>2. k \in Nat /\ k <= k /\ k - k + 1 = 1
        BY <1>2
    <2>3. Len(u) = k - k + 1
        BY ONLY <2>1, <2>2, TextOfPart
    <2>4. Len(u) = 1
        BY ONLY <2>2, <2>3
    <2>5. u # <<>>
        <3>1. Len(<<>>) = 0
            OBVIOUS
        <3>2. 1 # 0
            OBVIOUS
        <3> QED BY ONLY <2>4, <3>1, <3>2, Zenon
    <2> QED BY <2>1, <2>5
<1> QED BY <1>1, <1>6, <1>7

\* Where a request has words that can be told apart and a header line.
Plainly(m, target, x) ==
    /\ m \notin Spaces /\ Len(target) # 0 /\ \A i \in 1..Len(target) : target[i] \notin Spaces
    /\ Line(x) /\ Len(x) # 0

\* What was read holds the whole head, which ends at h.
Reached(raw, text, n, h) == Cut(raw, text, n) /\ h + 3 <= n /\ HeaderEnd(raw) = h

\* The first line of what was read, once the head is in it.
FirstLineIs(raw, h, crlf, line) ==
    /\ crlf = FindSeq(SubSeq(raw, 1, h - 1), Crlf)
    /\ line = SubSeq(SubSeq(raw, 1, h - 1), 1, crlf - 1)

\* It is the line that was written, three words of it.
LEMMA LineRead ==
    ASSUME NEW S, NEW text, NEW m, NEW target, NEW x, NEW body,
           Formed(text, S, m, target, x, body), Plainly(m, target, x),
           NEW n, NEW raw, Cut(raw, text, n), NEW h, HeadIs(h, target, x), h + 3 <= n,
           NEW crlf, NEW line, FirstLineIs(raw, h, crlf, line)
    PROVE  /\ HeaderEnd(raw) = h /\ h # 0 /\ crlf # 0
           /\ line \in Seq(S) /\ m \in S /\ Lines(line, m, target)
           /\ line[Len(target) + 4] = "HTTP/1.1"
<1>1. PICK p, q : p = Len(target) /\ q = Len(x)
    OBVIOUS
<1>2. /\ p \in Nat \ {0} /\ q \in Nat \ {0} /\ h = p + q + 7 /\ h \in Nat /\ text \in Seq(S)
      /\ n \in 0..Len(text) /\ raw = SubSeq(text, 1, n) /\ target \in Seq(S)
    BY <1>1 DEF Formed, HeadIs, Cut, Plainly
<1>3. /\ text[1] = m /\ text[2] = Sp
      /\ \A i \in 1..p : text[2 + i] = target[i] /\ target[i] \notin Spaces
      /\ text[p + 3] = Sp /\ text[p + 4] = "HTTP/1.1" /\ text[p + 5] = Cr /\ text[p + 6] = Lf
      /\ m \notin Spaces
    BY <1>1 DEF Formed, Plainly
<1>4. m # Cr /\ Line(target) /\ Line(x) /\ Len(x) # 0
    BY SpacesAre DEF Plainly, Line
<1>5. HeaderEnd(raw) = IF n < h + 3 THEN 0 ELSE h
    BY <1>4, HeadEnds
<1>6. PICK headers : /\ headers = SubSeq(raw, 1, h - 1) /\ crlf = FindSeq(headers, Crlf)
                     /\ line = SubSeq(headers, 1, crlf - 1)
    BY DEF FirstLineIs
<1>7. HeaderEnd(raw) = h /\ h + 3 <= n
    BY <1>2, <1>5
<1>8. IsText(headers) /\ Len(headers) = h - 1 /\ \A i \in 1..(h - 1) : headers[i] = text[i]
    <2>1. h \in 1..(n + 1)
        BY <1>2, <1>7
    <2>2. headers = Headers(text, n, h)
        BY <1>2, <1>6 DEF Headers
    <2>3. text \in Seq(S) /\ n \in 0..Len(text)
        BY <1>2
    <2> QED BY ONLY <2>1, <2>2, <2>3, HeadersAre
<1>9. crlf = p + 5
    <2>1. PICK k : k = p + 5
        OBVIOUS
    <2>2. /\ k \in 1..(Len(headers) - 1) /\ k \in 1..(h - 1) /\ k + 1 \in 1..(h - 1)
          /\ k + 1 = p + 6 /\ Len(headers) \in Nat
        BY ONLY <1>2, <1>8, <2>1
    <2>3. headers[k] = Cr /\ headers[k + 1] = Lf
        BY ONLY <1>3, <1>8, <2>1, <2>2
    <2>4. ASSUME NEW i \in 1..(k - 1) PROVE headers[i] # Cr
        <3>1. headers[i] = text[i]
            <4>1. i \in 1..(h - 1)
                <5>1. k \in Nat /\ k <= h - 1
                    BY ONLY <1>2, <2>2
                <5> QED BY <1>2, <5>1
            <4> QED BY ONLY <1>8, <4>1
        <3>2. i = 1 \/ i = 2 \/ i = p + 3 \/ i = p + 4 \/ i \in 3..(p + 2)
            BY <1>2, <2>1
        <3>3. CASE i = 1 \/ i = 2 \/ i = p + 3 \/ i = p + 4
            <4>1. Cr # "HTTP/1.1"
                BY Zenon DEF Cr
            <4> QED BY <1>3, <1>4, <3>1, <3>3, <4>1, SpacesAre
        <3>4. CASE i \in 3..(p + 2)
            <4>1. PICK j : j = i - 2
                OBVIOUS
            <4>2. j \in 1..p /\ i = 2 + j
                BY <1>2, <3>4, <4>1
            <4> QED BY <1>1, <1>3, <1>4, <3>1, <4>2 DEF Line
        <3> QED BY <3>2, <3>3, <3>4
    <2>5. FindSeq(headers, Crlf) = k
        BY ONLY <2>2, <2>3, <2>4, FirstCrlf
    <2> QED BY ONLY <1>6, <2>1, <2>5
<1>10. line \in Seq(S) /\ Len(line) = p + 4 /\ \A i \in 1..(p + 4) : line[i] = text[i]
    <2>1. PICK e : e = p + 4
        OBVIOUS
    <2>2. e \in 0..Len(headers) /\ crlf - 1 = e /\ e <= h - 1 /\ e \in Nat
        BY ONLY <1>2, <1>8, <1>9, <2>1
    <2>3. PICK R : headers \in Seq(R)
        BY <1>8 DEF IsText
    <2>4. line = SubSeq(headers, 1, e)
        BY ONLY <1>6, <2>2
    <2>5. Len(line) = e /\ \A i \in 1..e : line[i] = headers[i]
        BY ONLY <2>2, <2>3, <2>4, PrefixIs
    <2>6. IsText(line)
        BY ONLY <2>2, <2>3, <2>4, PrefixIs
    <2>7. \A i \in 1..e : i \in 1..(h - 1) /\ i \in 1..Len(text)
        <3>1. Len(text) \in Nat /\ h - 1 <= Len(text)
            BY <1>2, <1>7
        <3> QED BY ONLY <1>2, <2>2, <3>1
    <2>8. \A i \in 1..e : line[i] = text[i] /\ line[i] \in S
        <3>1. \A i \in 1..Len(text) : text[i] \in S
            BY <1>2
        <3> QED BY ONLY <1>8, <2>5, <2>7, <3>1
    <2>9. PICK R2 : line \in Seq(R2)
        BY <2>6 DEF IsText
    <2>10. line \in Seq(S)
        BY ONLY <2>2, <2>5, <2>8, <2>9
    <2> QED BY ONLY <2>1, <2>5, <2>8, <2>10
<1>11. Lines(line, m, target)
    <2>1. /\ 1 \in 1..(p + 4) /\ 2 \in 1..(p + 4) /\ p + 3 \in 1..(p + 4)
          /\ \A i \in 1..p : 2 + i \in 1..(p + 4)
        BY ONLY <1>2
    <2>2. /\ line[1] = m /\ line[2] = Sp /\ line[p + 3] = Sp
          /\ \A i \in 1..p : line[2 + i] = target[i] /\ target[i] \notin Spaces
        BY ONLY <1>3, <1>10, <2>1
    <2> QED BY ONLY <1>1, <1>2, <1>3, <1>10, <2>2 DEF Lines
<1>12. m \in S /\ line[p + 4] = "HTTP/1.1" /\ crlf # 0 /\ h # 0
    <2>1. 1 \in 1..(p + 4) /\ p + 4 \in 1..(p + 4)
        BY ONLY <1>2
    <2>2. line[1] \in S /\ line[1] = m /\ line[p + 4] = "HTTP/1.1"
        BY ONLY <1>3, <1>10, <2>1
    <2> QED BY <1>2, <1>9, <2>2
<1> QED BY ONLY <1>1, <1>7, <1>10, <1>11, <1>12

\* What is parsed is the method, the target and what was read behind the head.
LEMMA RequestRead ==
    ASSUME NEW S, NEW text, NEW m, NEW target, NEW x, NEW body,
           Formed(text, S, m, target, x, body), Plainly(m, target, x),
           NEW n, NEW raw, Cut(raw, text, n), NEW h, HeadIs(h, target, x),
           NEW request, request = ParseHttpRequest(raw), request # None
    PROVE  /\ request.method = <<m>> /\ request.path = target
           /\ Reached(raw, text, n, h) /\ request.body = SubSeq(raw, h + 4, Len(raw))
<1>1. HeaderEnd(raw) = IF n < h + 3 THEN 0 ELSE h
    <2>1. m # Cr /\ Line(target) /\ Line(x) /\ Len(x) # 0
        BY SpacesAre DEF Plainly, Line
    <2> QED BY <2>1, HeadEnds
<1>2. PICK headers, crlf, line, path :
        /\ headers = SubSeq(raw, 1, h - 1) /\ crlf = FindSeq(headers, Crlf)
        /\ line = SubSeq(headers, 1, crlf - 1) /\ path = WordEnd(line, 1)
    OBVIOUS
<1>3. HeaderEnd(raw) # 0
    BY DEF ParseHttpRequest
<1>4. HeaderEnd(raw) = h /\ h + 3 <= n
    <2>1. n \in Nat /\ h \in Nat
        <3>1. Len(text) \in Nat /\ Len(target) \in Nat /\ Len(x) \in Nat
            BY DEF Formed
        <3> QED BY <3>1 DEF Cut, HeadIs
    <2> QED BY <1>1, <1>3, <2>1
<1>5. /\ request.method = NextWord(line, 1) /\ request.path = NextWord(line, path)
      /\ request.body = SubSeq(raw, h + 4, Len(raw))
    BY <1>2, <1>4 DEF ParseHttpRequest
<1>6. line \in Seq(S) /\ m \in S /\ Lines(line, m, target)
    <2>1. /\ Formed(text, S, m, target, x, body) /\ Plainly(m, target, x)
          /\ Cut(raw, text, n) /\ HeadIs(h, target, x) /\ h + 3 <= n
        BY <1>4
    <2>2. FirstLineIs(raw, h, crlf, line)
        BY <1>2 DEF FirstLineIs
    <2> QED BY ONLY <2>1, <2>2, LineRead
<1>7. target \in Seq(S)
    BY DEF Formed
<1>8. NextWord(line, 1) = <<m>> /\ NextWord(line, path) = target
    <2>1. path = WordEnd(line, 1)
        BY <1>2
    <2> QED BY ONLY <1>6, <1>7, <2>1, WordsRead
<1>9. Reached(raw, text, n, h)
    BY ONLY <1>4, Cut(raw, text, n) DEF Reached
<1> QED BY ONLY <1>5, <1>8, <1>9

\* Once the head is read there is a request.
LEMMA RequestComes ==
    ASSUME NEW S, NEW text, NEW m, NEW target, NEW x, NEW body,
           Formed(text, S, m, target, x, body), Plainly(m, target, x),
           NEW n, NEW raw, Cut(raw, text, n), NEW h, HeadIs(h, target, x), h + 3 <= n
    PROVE  \E a, b : /\ a \in Seq(S) /\ b \in Seq(S)
                     /\ ParseHttpRequest(raw) =
                           [method |-> a, path |-> b, body |-> SubSeq(raw, h + 4, Len(raw))]
<1>1. PICK headers, crlf, line, path, version :
        /\ headers = SubSeq(raw, 1, h - 1) /\ crlf = FindSeq(headers, Crlf)
        /\ line = SubSeq(headers, 1, crlf - 1) /\ path = WordEnd(line, 1)
        /\ version = WordEnd(line, path)
    OBVIOUS
<1>2. /\ HeaderEnd(raw) = h /\ h # 0 /\ crlf # 0
      /\ line \in Seq(S) /\ m \in S /\ Lines(line, m, target)
      /\ line[Len(target) + 4] = "HTTP/1.1"
    <2>1. /\ Formed(text, S, m, target, x, body) /\ Plainly(m, target, x)
          /\ Cut(raw, text, n) /\ HeadIs(h, target, x) /\ h + 3 <= n
        OBVIOUS
    <2>2. FirstLineIs(raw, h, crlf, line)
        BY <1>1 DEF FirstLineIs
    <2> QED BY ONLY <2>1, <2>2, LineRead
<1>3. target \in Seq(S)
    BY DEF Formed
<1>4. /\ NextWord(line, 1) = <<m>> /\ NextWord(line, path) = target
      /\ version = Len(target) + 3
    <2>1. path = WordEnd(line, 1) /\ version = WordEnd(line, path)
        BY <1>1
    <2>2. /\ NextWord(line, 1) = <<m>> /\ NextWord(line, path) = target
          /\ WordEnd(line, path) = Len(target) + 3
        <3>1. line \in Seq(S) /\ m \in S /\ Lines(line, m, target) /\ path = WordEnd(line, 1)
            BY <1>2, <2>1
        <3> QED BY ONLY <1>3, <3>1, WordsRead
    <2> QED BY ONLY <2>1, <2>2
<1>5. NextWord(line, version) # <<>>
    <2>1. PICK p : p = Len(target)
        OBVIOUS
    <2>2. "HTTP/1.1" \notin Spaces
        <3>1. "HTTP/1.1" # Sp /\ "HTTP/1.1" # Cr /\ "HTTP/1.1" # Lf
            BY Zenon DEF Sp, Cr, Lf
        <3> QED BY <3>1, SpacesAre
    <2>3. p \in Nat /\ Len(line) = p + 4 /\ line[p + 3] \in Spaces /\ line[p + 4] \notin Spaces
        BY <1>2, <2>1, <2>2, SpacesAre DEF Lines
    <2> QED BY ONLY <1>2, <1>4, <2>1, <2>3, VersionRead
<1>6. ParseHttpRequest(raw) = [method |-> <<m>>, path |-> target,
                               body |-> SubSeq(raw, h + 4, Len(raw))]
    BY ONLY <1>1, <1>2, <1>4, <1>5 DEF ParseHttpRequest
<1>7. <<m>> \in Seq(S)
    BY ONLY <1>2
<1> QED BY ONLY <1>3, <1>6, <1>7

-----------------------------------------------------------------------------
(* Where a request is routed *)

\* Where a query string begins.
Mark == "?"

\* A target without a query string is a path as it is.
LEMMA Unmarked ==
    ASSUME NEW S, NEW t \in Seq(S), \A i \in 1..Len(t) : t[i] # Mark
    PROVE  StripQuery(t) = t
<1>1. PICK k, one : k = Find(t, one, Mark) /\ one = 1
    OBVIOUS
<1>2. Len(t) \in Nat /\ one \in Nat /\ \A i \in one..Len(t) : i \in 1..Len(t)
    BY <1>1
<1>3. k = 0 \/ (k \in one..Len(t) /\ t[k] = Mark)
    BY ONLY <1>1, <1>2, FindIs
<1>4. k = 0
    BY <1>2, <1>3
<1> QED BY <1>1, <1>4, Zenon DEF StripQuery, Mark

\* A target of one symbol may have a query string behind.
LEMMA Marked ==
    ASSUME NEW S, NEW t \in Seq(S), Len(t) # 0, t[1] # Mark, Len(t) > 1 => t[2] = Mark
    PROVE  StripQuery(t) = <<t[1]>>
<1>0. Len(t) \in Nat
    OBVIOUS
<1>1. CASE Len(t) = 1
    <2>1. \A i \in 1..Len(t) : t[i] # Mark
        BY <1>1
    <2>2. StripQuery(t) = t
        BY ONLY t \in Seq(S), <2>1, Unmarked
    <2>3. t = <<t[1]>>
        BY <1>1
    <2> QED BY ONLY <2>2, <2>3
<1>2. CASE Len(t) > 1
    <2>1. PICK k, one : k = 2 /\ one = 1
        OBVIOUS
    <2>2. one \in Nat /\ k \in one..Len(t) /\ t[k] = Mark /\ \A i \in one..(k - 1) : t[i] # Mark
        BY <1>0, <1>2, <2>1
    <2>3. Find(t, one, Mark) = k
        BY ONLY <1>0, <2>2, FindFirst
    <2>4. StripQuery(t) = SubSeq(t, one, k - 1)
        <3>1. k # 0
            BY <2>1
        <3> QED BY ONLY <2>1, <2>3, <3>1, Zenon DEF StripQuery, Mark
    <2>5. SubSeq(t, one, k - 1) = <<t[1]>>
        <3>1. PICK u, n : u = SubSeq(t, n, n) /\ n = 1
            OBVIOUS
        <3>2. n \in Nat /\ n <= n /\ n - n + 1 = 1 /\ n + 1 - 1 = 1
            BY ONLY <3>1
        <3>3. Len(u) = n - n + 1
            BY ONLY <3>1, <3>2, TextOfPart
        <3>4. \A i \in 1..Len(u) : u[i] = t[n + i - 1]
            BY ONLY <3>1, <3>2, TextOfPart
        <3>5. IsText(u)
            BY ONLY <3>1, <3>2, TextOfPart
        <3>6. Len(u) = 1 /\ u[1] = t[1]
            BY ONLY <3>2, <3>3, <3>4
        <3>7. PICK R : u \in Seq(R)
            BY <3>5 DEF IsText
        <3>8. u = <<t[1]>>
            BY ONLY <3>6, <3>7
        <3>9. k - 1 = n /\ one = n
            BY ONLY <2>1, <3>1
        <3> QED BY ONLY <3>1, <3>8, <3>9
    <2> QED BY ONLY <2>4, <2>5
<1>3. Len(t) = 1 \/ Len(t) > 1
    <2>1. PICK l : l = Len(t)
        OBVIOUS
    <2>2. l \in Nat /\ l # 0
        BY <1>0, <2>1
    <2>3. l = 1 \/ l > 1
        BY ONLY <2>2
    <2> QED BY ONLY <2>1, <2>3
<1> QED BY ONLY <1>1, <1>2, <1>3

\* A path that is no longer than what stands around a parameter has none.
LEMMA NoParam ==
    ASSUME NEW path, NEW prefix, NEW suffix, ~(Len(path) - Len(prefix) - Len(suffix) > 0)
    PROVE  ExtractPathParam(path, prefix, suffix) = None
BY DEF ExtractPathParam

\* Nor has one that begins otherwise.
LEMMA OtherPrefix ==
    ASSUME NEW S, NEW path \in Seq(S), NEW a, NEW suffix, Len(path) # 0, path[1] # a
    PROVE  ExtractPathParam(path, <<a>>, suffix) = None
<1>1. PICK prefix : prefix = <<a>>
    OBVIOUS
<1>2. Len(prefix) = 1 /\ prefix[1] = a /\ prefix \in Seq({a}) /\ Len(path) \in Nat
    BY <1>1
<1>3. ~IsPrefix(prefix, path)
    <2>1. SUFFICES ASSUME SubSeq(prefix, 1, Len(prefix)) = SubSeq(path, 1, Len(prefix)) PROVE FALSE
        BY DEF IsPrefix
    <2>2. PICK u, v, n : u = SubSeq(prefix, 1, n) /\ v = SubSeq(path, 1, n) /\ n = 1
        OBVIOUS
    <2>3. n \in 0..Len(prefix) /\ n \in 0..Len(path)
        BY <1>2, <2>2
    <2>4. \A i \in 1..n : u[i] = prefix[i]
        BY ONLY <1>2, <2>2, <2>3, PrefixIs
    <2>5. \A i \in 1..n : v[i] = path[i]
        BY ONLY path \in Seq(S), <2>2, <2>3, PrefixIs
    <2>6. u = v
        BY <1>2, <2>1, <2>2
    <2>7. 1 \in 1..n
        BY <2>2
    <2> QED BY ONLY <1>2, <2>4, <2>5, <2>6, <2>7, path[1] # a
<1> QED BY <1>1, <1>3 DEF ExtractPathParam

\* What stands between a prefix and a suffix, of a symbol or none.
Between(path, a, param, suffix) == path = <<a>> \o param \o suffix

\* What such a path is, symbol by symbol.
LEMMA BetweenIs ==
    ASSUME NEW S, NEW a \in S, NEW param \in Seq(S), NEW suffix \in Seq(S),
           NEW path, Between(path, a, param, suffix)
    PROVE  /\ path \in Seq(S) /\ Len(param) \in Nat /\ Len(suffix) \in Nat
           /\ Len(path) = Len(param) + Len(suffix) + 1 /\ path[1] = a
           /\ \A i \in 1..Len(param) : path[1 + i] = param[i]
           /\ \A i \in 1..Len(suffix) : path[Len(param) + 1 + i] = suffix[i]
<1>1. PICK b, c : b = <<a>> /\ c = b \o param
    OBVIOUS
<1>2. b \in Seq(S) /\ Len(b) = 1 /\ b[1] = a
    BY <1>1
<1>3. /\ c \in Seq(S) /\ Len(c) = Len(b) + Len(param) /\ Len(param) \in Nat
      /\ \A i \in 1..Len(b) : c[i] = b[i]
      /\ \A i \in 1..Len(param) : c[Len(b) + i] = param[i]
    BY <1>1, <1>2, Joined
<1>4. path = c \o suffix
    BY <1>1 DEF Between
<1>5. /\ path \in Seq(S) /\ Len(path) = Len(c) + Len(suffix) /\ Len(suffix) \in Nat
      /\ \A i \in 1..Len(c) : path[i] = c[i]
      /\ \A i \in 1..Len(suffix) : path[Len(c) + i] = suffix[i]
    <2>1. c \in Seq(S) /\ suffix \in Seq(S)
        BY <1>3
    <2> QED BY ONLY <1>4, <2>1, Joined
<1>6. Len(c) = Len(param) + 1 /\ 1 \in 1..Len(c) /\ 1 \in 1..Len(b)
      /\ \A i \in 1..Len(param) : 1 + i \in 1..Len(c)
    BY ONLY <1>2, <1>3
<1>7. path[1] = a /\ \A i \in 1..Len(param) : path[1 + i] = param[i]
    <2>1. \A i \in 1..Len(param) : c[1 + i] = param[i]
        BY ONLY <1>2, <1>3
    <2>2. path[1] = a
        BY ONLY <1>2, <1>3, <1>5, <1>6
    <2> QED BY ONLY <1>5, <1>6, <2>1, <2>2
<1>8. Len(path) = Len(param) + Len(suffix) + 1
    <2>1. PICK i, j, k : i = Len(param) /\ j = Len(suffix) /\ k = Len(c)
        OBVIOUS
    <2>2. i \in Nat /\ j \in Nat /\ k = i + 1 /\ Len(path) = k + j
        BY ONLY <1>3, <1>5, <1>6, <2>1
    <2>3. k + j = i + j + 1
        BY ONLY <2>2
    <2> QED BY ONLY <2>1, <2>2, <2>3
<1>9. \A i \in 1..Len(suffix) : path[Len(param) + 1 + i] = suffix[i]
    <2> TAKE i \in 1..Len(suffix)
    <2>1. path[Len(c) + i] = suffix[i]
        BY <1>5
    <2> QED BY ONLY <1>6, <2>1
<1> QED BY ONLY <1>3, <1>5, <1>7, <1>8, <1>9

\* What a text starts with is its prefix.
LEMMA StartIsPrefix ==
    ASSUME NEW S, NEW x \in Seq(S), NEW y \in Seq(S), Starts(x, y)
    PROVE  IsPrefix(y, x)
<1>1. PICK u, v, n, one : /\ n = Len(y) /\ one = 1
                          /\ u = SubSeq(y, one, n) /\ v = SubSeq(x, one, n)
    OBVIOUS
<1>2. n \in Nat /\ Len(x) \in Nat /\ n <= Len(x) /\ \A i \in 1..n : x[i] = y[i]
    BY <1>1 DEF Starts
<1>3. n \in 0..Len(y) /\ n \in 0..Len(x) /\ u = SubSeq(y, 1, n) /\ v = SubSeq(x, 1, n)
    BY <1>1, <1>2
<1>4. IsText(u) /\ Len(u) = n /\ \A i \in 1..n : u[i] = y[i]
    BY ONLY y \in Seq(S), <1>3, PrefixIs
<1>5. IsText(v) /\ Len(v) = n /\ \A i \in 1..n : v[i] = x[i]
    BY ONLY x \in Seq(S), <1>3, PrefixIs
<1>6. PICK U, V : u \in Seq(U) /\ v \in Seq(V)
    BY <1>4, <1>5 DEF IsText
<1>7. \A i \in 1..n : u[i] = v[i]
    BY ONLY <1>2, <1>4, <1>5
<1>8. u = v
    BY ONLY <1>2, <1>4, <1>5, <1>6, <1>7
<1> QED BY ONLY <1>1, <1>2, <1>3, <1>8 DEF IsPrefix

\* A text backwards.
LEMMA ReverseIs ==
    ASSUME NEW S, NEW s \in Seq(S), NEW r, r = Reverse(s)
    PROVE  r \in Seq(S) /\ Len(r) = Len(s) /\ \A i \in 1..Len(s) : r[i] = s[Len(s) - i + 1]
<1>1. PICK n : n = Len(s)
    OBVIOUS
<1>2. n \in Nat /\ \A i \in 1..n : s[i] \in S
    BY <1>1
<1>3. r = [i \in 1..n |-> s[(n - i) + 1]]
    BY <1>1 DEF Reverse
<1>4. \A i \in 1..n : n - i + 1 \in 1..n
    BY ONLY <1>2
<1>5. r \in [1..n -> S]
    BY ONLY <1>2, <1>3, <1>4
<1>6. r \in Seq(S) /\ Len(r) = n
    BY ONLY <1>2, <1>5
<1>7. \A i \in 1..n : r[i] = s[n - i + 1]
    BY ONLY <1>3
<1> QED BY ONLY <1>1, <1>6, <1>7

\* A parameter is extracted as it was written (http_server.cpp:505-513).
LEMMA ParamBetween ==
    ASSUME NEW S, NEW a \in S, NEW param \in Seq(S), Len(param) # 0, NEW suffix \in Seq(S),
           NEW path, Between(path, a, param, suffix)
    PROVE  ExtractPathParam(path, <<a>>, suffix) = param
<1>1. /\ path \in Seq(S) /\ Len(param) \in Nat /\ Len(suffix) \in Nat
      /\ Len(path) = Len(param) + Len(suffix) + 1 /\ path[1] = a
      /\ \A i \in 1..Len(param) : path[1 + i] = param[i]
      /\ \A i \in 1..Len(suffix) : path[Len(param) + 1 + i] = suffix[i]
    BY BetweenIs
<1>2. PICK p, q, l, prefix : p = Len(param) /\ q = Len(suffix) /\ l = Len(path) /\ prefix = <<a>>
    OBVIOUS
<1>3. /\ p \in Nat \ {0} /\ q \in Nat /\ l = p + q + 1 /\ l \in Nat
      /\ \A i \in 1..p : path[1 + i] = param[i]
      /\ \A i \in 1..q : path[p + 1 + i] = suffix[i]
    BY <1>1, <1>2
<1>4. prefix \in Seq(S) /\ Len(prefix) = 1 /\ prefix[1] = a
    BY <1>2
<1>5. IsPrefix(prefix, path)
    <2>1. Starts(path, prefix)
        BY <1>1, <1>2, <1>3, <1>4 DEF Starts
    <2> QED BY ONLY <1>1, <1>4, <2>1, StartIsPrefix
<1>6. IsSuffix(suffix, path)
    <2>1. PICK x, y : x = Reverse(path) /\ y = Reverse(suffix)
        OBVIOUS
    <2>2. x \in Seq(S) /\ Len(x) = l /\ \A i \in 1..l : x[i] = path[l - i + 1]
        <3>1. path \in Seq(S) /\ x = Reverse(path)
            BY <1>1, <2>1
        <3>2. x \in Seq(S) /\ Len(x) = Len(path)
              /\ \A i \in 1..Len(path) : x[i] = path[Len(path) - i + 1]
            BY ONLY <3>1, ReverseIs
        <3> QED BY ONLY <1>2, <3>2
    <2>3. y \in Seq(S) /\ Len(y) = q /\ \A i \in 1..q : y[i] = suffix[q - i + 1]
        <3>1. suffix \in Seq(S)
            OBVIOUS
        <3> QED BY ONLY <1>2, <2>1, <3>1, ReverseIs
    <2>4. ASSUME NEW i \in 1..q PROVE x[i] = y[i]
        <3>1. PICK j : j = q - i + 1
            OBVIOUS
        <3>2. j \in 1..q /\ l - i + 1 = p + 1 + j /\ i \in 1..l
            BY ONLY <1>3, <3>1, i \in 1..q
        <3>3. x[i] = path[l - i + 1]
            BY <2>2, <3>2
        <3>4. y[i] = suffix[j]
            BY <2>3, <3>1
        <3>5. path[p + 1 + j] = suffix[j]
            BY <1>3, <3>2
        <3> QED BY ONLY <3>2, <3>3, <3>4, <3>5
    <2>5. q <= l
        BY ONLY <1>3
    <2>6. Starts(x, y)
        BY ONLY <2>2, <2>3, <2>4, <2>5 DEF Starts
    <2>7. IsPrefix(y, x)
        BY ONLY <2>2, <2>3, <2>6, StartIsPrefix
    <2> QED BY ONLY <2>1, <2>7 DEF IsSuffix
<1>7. PICK n, b : n = Len(path) - Len(prefix) - Len(suffix) /\ b = Len(prefix) + 1
    OBVIOUS
<1>8. n = p /\ n > 0 /\ Len(prefix) + n = p + 1 /\ b = 2
    <2>1. n = l - 1 - q /\ b = 1 + 1 /\ Len(prefix) + n = 1 + n
        BY ONLY <1>2, <1>4, <1>7
    <2> QED BY ONLY <1>3, <2>1
<1>9. ExtractPathParam(path, prefix, suffix) = SubSeq(path, b, p + 1)
    BY ONLY <1>5, <1>6, <1>7, <1>8 DEF ExtractPathParam
<1>10. SubSeq(path, b, p + 1) = param
    <2>1. PICK u, e : u = SubSeq(path, b, e) /\ e = p + 1
        OBVIOUS
    <2>2. b \in Nat /\ e \in Nat /\ b <= e /\ e - b + 1 = p
        BY ONLY <1>3, <1>8, <2>1
    <2>3. IsText(u)
        BY ONLY <2>1, <2>2, TextOfPart
    <2>4. Len(u) = e - b + 1
        <3>1. b \in Nat /\ e \in Nat /\ u = SubSeq(path, b, e)
            BY ONLY <2>1, <2>2
        <3>2. b <= e => Len(u) = e - b + 1
            BY ONLY <3>1, TextOfPart
        <3> QED BY ONLY <2>2, <3>2
    <2>5. \A i \in 1..Len(u) : u[i] = path[b + i - 1]
        <3>1. b \in Nat /\ e \in Nat /\ u = SubSeq(path, b, e)
            BY ONLY <2>1, <2>2
        <3> QED BY ONLY <3>1, TextOfPart
    <2>6. \A i \in 1..p : b + i - 1 = 1 + i
        BY ONLY <1>3, <1>8
    <2>7. \A i \in 1..p : u[i] = param[i]
        BY ONLY <1>3, <2>2, <2>4, <2>5, <2>6
    <2>8. PICK R : u \in Seq(R)
        BY <2>3 DEF IsText
    <2>9. Len(u) = p /\ Len(param) = p /\ param \in Seq(S)
        BY <1>2, <2>2, <2>4
    <2>10. u = param
        BY ONLY <1>3, <2>7, <2>8, <2>9
    <2> QED BY ONLY <2>1, <2>10
<1> QED BY ONLY <1>2, <1>9, <1>10

\* The literal paths, methods and prefixes are told apart.
LEMMA PathsApart ==
    /\ Queries = {"device", "batch", "transaction"}
    /\ \A op \in Queries :
          /\ \E a : Prefix(op) = <<a>> /\ a # Mark /\ a # Sp
          /\ Suffix(op) = <<>> \/ \E z : Suffix(op) = <<z>> /\ z # Mark /\ z # Sp
    /\ \A op, other \in Queries : Prefix(op) = Prefix(other) => op = other
<1>1. Queries = {"device", "batch", "transaction"}
    BY DEF Queries
<1>2. /\ "/api/v1/devices/" # Mark /\ "/api/v1/devices/" # Sp
      /\ "/api/v1/batches/" # Mark /\ "/api/v1/batches/" # Sp
      /\ "/api/v1/transactions/" # Mark /\ "/api/v1/transactions/" # Sp
      /\ "/latest" # Mark /\ "/latest" # Sp /\ "/trace" # Mark /\ "/trace" # Sp
    BY Zenon DEF Mark, Sp
<1>3. /\ Prefix("device") = <<"/api/v1/devices/">> /\ Suffix("device") = <<"/latest">>
      /\ Prefix("batch") = <<"/api/v1/batches/">> /\ Suffix("batch") = <<"/trace">>
      /\ Prefix("transaction") = <<"/api/v1/transactions/">> /\ Suffix("transaction") = <<>>
    BY DEF Prefix, Suffix
<1>4. \A op \in Queries : \E a : Prefix(op) = <<a>> /\ a # Mark /\ a # Sp
    BY <1>1, <1>2, <1>3
<1>5. \A op \in Queries :
         Suffix(op) = <<>> \/ \E z : Suffix(op) = <<z>> /\ z # Mark /\ z # Sp
    BY <1>1, <1>2, <1>3
<1>6. \A op, other \in Queries : Prefix(op) = Prefix(other) => op = other
    BY <1>1, <1>3
<1> QED BY <1>1, <1>4, <1>5, <1>6

\* A path that a query is taken from.
Fits(request, path, op) ==
    request.method = <<"GET">> /\ ExtractPathParam(path, Prefix(op), Suffix(op)) # None

\* A path of one symbol is routed to what the path is for.
LEMMA EndpointRouted ==
    ASSUME NEW m, NEW t, NEW request, request.method = <<m>>,
           StripQuery(request.path) = <<t>>
    PROVE  RouteOf(request) = Endpoint(m, t)
<1>1. PICK path : path = StripQuery(request.path)
    OBVIOUS
<1>2. path = <<t>> /\ Len(path) = 1
    BY <1>1
<1>3. \A op \in Queries : ExtractPathParam(path, Prefix(op), Suffix(op)) = None
    <2> TAKE op \in Queries
    <2>1. Len(Prefix(op)) = 1 /\ Len(Suffix(op)) \in {0, 1}
        <3>1. PICK x, y : x = Prefix(op) /\ y = Suffix(op)
            OBVIOUS
        <3>2. PICK a : x = <<a>>
            BY <3>1, PathsApart
        <3>3. y = <<>> \/ \E z : y = <<z>>
            BY <3>1, PathsApart
        <3>4. Len(x) = 1 /\ Len(y) \in {0, 1}
            BY ONLY <3>2, <3>3
        <3> QED BY ONLY <3>1, <3>4
    <2>2. PICK i, j, k : i = Len(path) /\ j = Len(Prefix(op)) /\ k = Len(Suffix(op))
        OBVIOUS
    <2>3. ~(i - j - k > 0)
        BY ONLY <1>2, <2>1, <2>2
    <2>4. ~(Len(path) - Len(Prefix(op)) - Len(Suffix(op)) > 0)
        BY ONLY <2>2, <2>3
    <2> QED BY ONLY <2>4, NoParam
<1>4. {op \in Queries : Fits(request, path, op)} = {}
    BY <1>3 DEF Fits
<1>5. \A s : path = <<s>> <=> t = s
    BY <1>2
<1>6. \A s : request.method = <<s>> <=> m = s
    OBVIOUS
<1>7. path \in {<<"/ws/telemetry">>, <<"/ws/alerts">>} <=> t \in {"/ws/telemetry", "/ws/alerts"}
    BY <1>5
<1>8. RouteOf(request) =
        CASE t \in {"/ws/telemetry", "/ws/alerts"} -> [op |-> "upgrade", param |-> <<t>>]
          [] m = "GET" /\ t = "/health" -> [op |-> "health", param |-> <<>>]
          [] m = "POST" /\ t = "/api/v1/ingest" -> [op |-> "ingest", param |-> <<>>]
          [] m = "GET" /\ t = "/api/v1/metrics/overview" -> [op |-> "metrics", param |-> <<>>]
          [] OTHER -> [op |-> "404", param |-> <<>>]
    BY <1>1, <1>2, <1>4, <1>5, <1>6, <1>7 DEF RouteOf, Fits
<1>9. \A a, b : <<m, t>> = <<a, b>> <=> m = a /\ t = b
    OBVIOUS
<1>10. Endpoint(m, t) =
        CASE t \in {"/ws/telemetry", "/ws/alerts"} -> [op |-> "upgrade", param |-> <<t>>]
          [] m = "GET" /\ t = "/health" -> [op |-> "health", param |-> <<>>]
          [] m = "POST" /\ t = "/api/v1/ingest" -> [op |-> "ingest", param |-> <<>>]
          [] m = "GET" /\ t = "/api/v1/metrics/overview" -> [op |-> "metrics", param |-> <<>>]
          [] OTHER -> [op |-> "404", param |-> <<>>]
    BY <1>9 DEF Endpoint
<1> QED BY ONLY <1>8, <1>10

\* A query with its parameter is routed to that query, for that parameter.
LEMMA QueryRouted ==
    ASSUME NEW op \in Queries, NEW param \in Seq(STRING), Len(param) # 0,
           NEW request, request.method = <<"GET">>,
           StripQuery(request.path) = Prefix(op) \o param \o Suffix(op)
    PROVE  RouteOf(request) = [op |-> op, param |-> param]
<1>1. PICK a : Prefix(op) = <<a>>
    BY PathsApart
<1>2. PICK S, suffix : S = STRING \cup {a} \cup ToSet(suffix) /\ suffix = Suffix(op)
    OBVIOUS
<1>3. a \in S /\ STRING \subseteq S
    BY <1>2
<1>4. suffix \in Seq(S)
    <2>1. suffix = <<>> \/ \E z : suffix = <<z>>
        BY <1>2, PathsApart
    <2>2. CASE suffix = <<>>
        BY <2>2
    <2>3. ASSUME NEW z, suffix = <<z>> PROVE suffix \in Seq(S)
        <3>1. z \in ToSet(suffix)
            BY <2>3 DEF ToSet
        <3>2. z \in S
            BY <1>2, <3>1
        <3> QED BY ONLY <2>3, <3>2
    <2> QED BY ONLY <2>1, <2>2, <2>3
<1>5. param \in Seq(S)
    <2>1. Seq(STRING) \subseteq Seq(S)
        BY <1>3, SeqMonotonic
    <2> QED BY <2>1
<1>6. PICK path : path = StripQuery(request.path)
    OBVIOUS
<1>7. Between(path, a, param, suffix)
    BY <1>1, <1>2, <1>6 DEF Between
<1>8. Len(param) # 0
    OBVIOUS
<1>9. ExtractPathParam(path, Prefix(op), Suffix(op)) = param
    <2>1. ExtractPathParam(path, <<a>>, suffix) = param
        BY ONLY <1>3, <1>4, <1>5, <1>7, <1>8, ParamBetween
    <2> QED BY ONLY <1>1, <1>2, <2>1
<1>10. path \in Seq(S) /\ path[1] = a /\ Len(path) >= 2
    <2>1. /\ path \in Seq(S) /\ Len(param) \in Nat /\ Len(suffix) \in Nat
          /\ Len(path) = Len(param) + Len(suffix) + 1 /\ path[1] = a
        BY ONLY <1>3, <1>4, <1>5, <1>7, BetweenIs
    <2>2. PICK i, j : i = Len(param) /\ j = Len(suffix)
        OBVIOUS
    <2>3. i \in Nat /\ j \in Nat /\ i # 0 /\ Len(path) = i + j + 1
        BY ONLY <1>8, <2>1, <2>2
    <2>4. i + j + 1 >= 2
        BY ONLY <2>3
    <2> QED BY ONLY <2>1, <2>3, <2>4
<1>11. param # None
    BY WordAssumption
<1>12. \A other \in Queries \ {op} :
          ExtractPathParam(path, Prefix(other), Suffix(other)) = None
    <2> TAKE other \in Queries \ {op}
    <2>1. PICK b : Prefix(other) = <<b>>
        BY PathsApart
    <2>2. b # a
        BY <1>1, <2>1, PathsApart
    <2>3. Len(path) # 0 /\ path[1] # b
        BY ONLY <1>10, <2>2
    <2>4. ExtractPathParam(path, <<b>>, Suffix(other)) = None
        BY ONLY <1>10, <2>3, OtherPrefix
    <2> QED BY ONLY <2>1, <2>4
<1>13. PICK query : query = {q \in Queries : Fits(request, path, q)}
    OBVIOUS
<1>14. query = {op}
    BY <1>9, <1>11, <1>12, <1>13 DEF Fits
<1>15. query # {} /\ (CHOOSE q \in query : TRUE) = op
    BY ONLY <1>14
<1>16. \A s : path # <<s>>
    <2> SUFFICES ASSUME NEW s, path = <<s>> PROVE FALSE
        OBVIOUS
    <2>1. Len(path) = 1
        OBVIOUS
    <2> QED BY ONLY <1>10, <2>1
<1>17. RouteOf(request) = IF query # {}
                          THEN [op |-> CHOOSE q \in query : TRUE,
                                param |-> ExtractPathParam(path, Prefix(CHOOSE q \in query : TRUE),
                                                           Suffix(CHOOSE q \in query : TRUE))]
                          ELSE [op |-> "404", param |-> <<>>]
    BY <1>6, <1>13, <1>16 DEF RouteOf, Fits
<1> QED BY ONLY <1>9, <1>15, <1>17

\* A symbol that is not found is nowhere.
LEMMA FindNone ==
    ASSUME NEW S, NEW text \in Seq(S), NEW s, Find(text, 1, s) = 0
    PROVE  \A i \in 1..Len(text) : text[i] # s
<1> DEFINE I == {i \in 1..Len(text) : text[i] = s}
<1>1. Find(text, 1, s) = IF I # {} THEN Min(I) ELSE 0
    BY DEF Find, SelectInSubSeq
<1>2. I \in SUBSET Nat /\ 0 \notin I
    OBVIOUS
<1>3. I = {}
    <2> SUFFICES ASSUME I # {} PROVE FALSE
        OBVIOUS
    <2>1. Min(I) = 0
        <3> HIDE DEF I
        <3> QED BY <1>1
    <2>2. Min(I) \in I
        <3> HIDE DEF I
        <3> QED BY <1>2, LeastIs
    <2> QED BY <1>2, <2>1, <2>2
<1> QED BY <1>3

\* A request that was written with words that can be told apart.
Asks(text, m, target, length, body) ==
    /\ m \in Symbols /\ target \in Seq(Symbols) /\ body \in Seq(Symbols)
    /\ length # None => Len(body) + length \in Nat
    /\ text = RequestText(m, target, length, body)
    /\ m \notin Spaces /\ Len(target) # 0 /\ \A i \in 1..Len(target) : target[i] \notin Spaces

\* What it is read as.
LEMMA SentRead ==
    ASSUME NEW text, NEW m, NEW target, NEW length, NEW body, Asks(text, m, target, length, body),
           NEW n, NEW raw, Cut(raw, text, n),
           NEW request, request = ParseHttpRequest(raw), request # None
    PROVE  request.method = <<m>> /\ request.path = target
<1>0. /\ m \in Symbols /\ target \in Seq(Symbols) /\ body \in Seq(Symbols)
      /\ length # None => Len(body) + length \in Nat
      /\ text = RequestText(m, target, length, body)
      /\ m \notin Spaces /\ Len(target) # 0 /\ \A i \in 1..Len(target) : target[i] \notin Spaces
    BY DEF Asks
<1>1. PICK x, h : x = HeaderLine(length, body) /\ h = Len(target) + Len(x) + 7
    OBVIOUS
<1>2. x \in Seq(Symbols) /\ Line(x) /\ Len(x) # 0
    BY <1>0, <1>1, HeaderLineIs
<1>3. Formed(text, Symbols, m, target, x, body)
    <2>1. Written(text, m, target, x, body)
        BY <1>0, <1>1, RequestWritten
    <2>2. m \in Symbols /\ target \in Seq(Symbols) /\ body \in Seq(Symbols)
        BY <1>0
    <2> QED BY ONLY <1>2, <2>1, <2>2, SymbolsAre, RequestFormed
<1>4. Plainly(m, target, x) /\ Cut(raw, text, n) /\ HeadIs(h, target, x)
    BY <1>0, <1>1, <1>2 DEF Plainly, Cut, HeadIs
<1>5. request = ParseHttpRequest(raw) /\ request # None
    OBVIOUS
<1> QED BY ONLY <1>3, <1>4, <1>5, RequestRead

\* A request of a device is routed to Ingest (http_server.cpp:521).
LEMMA PostRouted ==
    ASSUME NEW s \in Posts, NEW n \in 0..Len(s.text), NEW raw, raw = SubSeq(s.text, 1, n),
           NEW request, request = ParseHttpRequest(raw), request # None
    PROVE  RouteOf(request) = s.wants
<1>1. PICK p \in Packets, order \in Orders, length \in Lengths :
        /\ s.text = RequestText("POST", <<"/api/v1/ingest">>, length, Body(p, order))
        /\ s.wants = [op |-> "ingest", param |-> <<>>]
    BY PostIs
<1>2. PICK m, t, target, body, text :
        /\ m = "POST" /\ t = "/api/v1/ingest" /\ target = <<t>>
        /\ body = Body(p, order) /\ text = s.text
    OBVIOUS
<1>3. m \in Symbols /\ t \in Symbols
    BY <1>2, SymbolsAre
<1>4. m \notin Spaces /\ t \notin Spaces /\ t # Mark
    <2>1. m # Sp /\ m # Cr /\ m # Lf /\ t # Sp /\ t # Cr /\ t # Lf /\ t # Mark
        BY <1>2, Zenon DEF Sp, Cr, Lf, Mark
    <2> QED BY <2>1, SpacesAre
<1>5. target \in Seq(Symbols) /\ Len(target) = 1 /\ target[1] = t
    BY <1>2, <1>3
<1>6. Len(target) # 0 /\ \A i \in 1..Len(target) : target[i] \notin Spaces /\ target[i] # Mark
    BY <1>4, <1>5
<1>7. body \in Seq(Symbols) /\ (length # None => Len(body) + length \in Nat)
    BY <1>2, BodyIs, LengthsAssumption
<1>8. /\ text = RequestText(m, target, length, body) /\ n \in 0..Len(text)
      /\ raw = SubSeq(text, 1, n) /\ request = ParseHttpRequest(raw) /\ request # None
    BY <1>1, <1>2
<1>9. request.method = <<m>> /\ request.path = target
    <2>1. Asks(text, m, target, length, body)
        BY ONLY <1>3, <1>4, <1>5, <1>6, <1>7, <1>8 DEF Asks
    <2>2. Cut(raw, text, n)
        BY ONLY <1>8 DEF Cut
    <2>3. request = ParseHttpRequest(raw) /\ request # None
        BY <1>8
    <2> QED BY ONLY <2>1, <2>2, <2>3, SentRead
<1>10. StripQuery(request.path) = <<t>>
    <2>1. StripQuery(target) = target
        BY ONLY <1>5, <1>6, Unmarked
    <2> QED BY ONLY <1>2, <1>9, <2>1
<1>11. RouteOf(request) = Endpoint(m, t)
    BY ONLY <1>9, <1>10, EndpointRouted
<1>12. Endpoint(m, t) = [op |-> "ingest", param |-> <<>>]
    BY <1>2 DEF Endpoint
<1> QED BY <1>1, <1>11, <1>12

\* What a client asks a query by,
Query(a, op, param) ==
    /\ op \in Queries /\ param \in Seq(STRING) /\ a.method = "GET"
    /\ a.wants = [op |-> op, param |-> param]
    /\ a.target = Prefix(op) \o param \o Suffix(op)

\* and everything else.
Simple(a) ==
    /\ a.target # <<>> /\ a.target[1] # Mark /\ Sp \notin ToSet(a.target)
    /\ Len(a.target) > 1 => a.target[2] = Mark
    /\ a.wants = Endpoint(a.method, a.target[1])

\* What the other requests are.
LEMMA AskedFor ==
    ASSUME NEW a \in Asked
    PROVE  /\ a.target \in Seq(STRING) /\ a.method \notin Spaces
           /\ \A s \in ToSet(a.target) : s # Cr /\ s # Lf
           /\ a.wants.op \in Queries => Query(a, a.wants.op, a.wants.param)
           /\ a.wants.op \notin Queries => Simple(a)
<1>1. /\ a.target \in Seq(STRING) /\ a.method # Sp
      /\ {Cr, Lf, ContentLength} \cap ({a.method} \cup ToSet(a.target)) = {}
    BY AskedAssumption, Zenon DEF Sp, Cr, Lf, ContentLength
<1>2. a.method \notin Spaces /\ \A s \in ToSet(a.target) : s # Cr /\ s # Lf
    BY <1>1, SpacesAre
<1>3. ASSUME a.wants.op \in Queries PROVE Query(a, a.wants.op, a.wants.param)
    BY <1>3, AskedAssumption, Zenon DEF Query
<1>4. ASSUME a.wants.op \notin Queries PROVE Simple(a)
    BY <1>4, AskedAssumption, Zenon DEF Simple, Mark, Sp
<1> QED BY <1>1, <1>2, <1>3, <1>4

\* The target of a query has no space and no mark but in its parameter.
LEMMA QueryTarget ==
    ASSUME NEW op \in Queries, NEW param \in Seq(STRING),
           \A i \in 1..Len(param) : param[i] # Sp /\ param[i] # Mark,
           NEW target, target = Prefix(op) \o param \o Suffix(op)
    PROVE  /\ Len(target) # 0
           /\ \A i \in 1..Len(target) : target[i] # Sp /\ target[i] # Mark
<1>1. PICK a, suffix : Prefix(op) = <<a>> /\ suffix = Suffix(op) /\ a # Mark /\ a # Sp
    BY PathsApart
<1>2. PICK S : S = STRING \cup {a} \cup ToSet(suffix)
    OBVIOUS
<1>3. a \in S /\ STRING \subseteq S
    BY <1>2
<1>4. suffix \in Seq(S) /\ \A i \in 1..Len(suffix) : suffix[i] # Sp /\ suffix[i] # Mark
    <2>1. suffix = <<>> \/ \E z : suffix = <<z>> /\ z # Mark /\ z # Sp
        BY <1>1, PathsApart
    <2>2. CASE suffix = <<>>
        BY <2>2
    <2>3. ASSUME NEW z, suffix = <<z>>, z # Mark, z # Sp
          PROVE  suffix \in Seq(S) /\ \A i \in 1..Len(suffix) : suffix[i] # Sp /\ suffix[i] # Mark
        <3>1. z \in ToSet(suffix)
            BY <2>3 DEF ToSet
        <3>2. z \in S
            BY <1>2, <3>1
        <3> QED BY ONLY <2>3, <3>2
    <2> QED BY ONLY <2>1, <2>2, <2>3
<1>5. param \in Seq(S)
    <2>1. Seq(STRING) \subseteq Seq(S)
        BY <1>3, SeqMonotonic
    <2> QED BY <2>1
<1>6. Between(target, a, param, suffix)
    BY <1>1 DEF Between
<1>7. /\ Len(param) \in Nat /\ Len(suffix) \in Nat
      /\ Len(target) = Len(param) + Len(suffix) + 1 /\ target[1] = a
      /\ \A i \in 1..Len(param) : target[1 + i] = param[i]
      /\ \A i \in 1..Len(suffix) : target[Len(param) + 1 + i] = suffix[i]
    BY ONLY <1>3, <1>4, <1>5, <1>6, BetweenIs
<1>8. PICK p, q, l : p = Len(param) /\ q = Len(suffix) /\ l = Len(target)
    OBVIOUS
<1>9. p \in Nat /\ q \in Nat /\ l = p + q + 1
    BY <1>7, <1>8
<1>10. ASSUME NEW i \in 1..l PROVE target[i] # Sp /\ target[i] # Mark
    <2>1. CASE i = 1
        BY <1>1, <1>7, <2>1
    <2>2. CASE i \in 2..(p + 1)
        <3>1. PICK j : j = i - 1
            OBVIOUS
        <3>2. j \in 1..p /\ i = 1 + j
            BY ONLY <1>9, <2>2, <3>1
        <3>3. target[i] = param[j]
            BY <1>7, <1>8, <3>2
        <3> QED BY <1>8, <3>2, <3>3
    <2>3. CASE i \in (p + 2)..l
        <3>1. PICK j : j = i - p - 1
            OBVIOUS
        <3>2. j \in 1..q /\ i = p + 1 + j
            BY ONLY <1>9, <2>3, <3>1
        <3>3. target[i] = suffix[j]
            BY <1>7, <1>8, <3>2
        <3> QED BY <1>4, <1>8, <3>2, <3>3
    <2>4. i = 1 \/ i \in 2..(p + 1) \/ i \in (p + 2)..l
        BY ONLY <1>9, i \in 1..l
    <2> QED BY ONLY <2>1, <2>2, <2>3, <2>4
<1>11. l # 0
    BY ONLY <1>9
<1> QED BY ONLY <1>8, <1>10, <1>11

\* A client that the property is about.
Clear(wants) ==
    /\ wants.op \in Queries => wants.param # <<>>
    /\ Find(wants.param, 1, Sp) = 0 /\ Find(wants.param, 1, Mark) = 0

\* Another request is routed to what it is for (http_server.cpp:517-580).
LEMMA OtherRouted ==
    ASSUME NEW s \in Others, Clear(s.wants), NEW n, NEW raw, Cut(raw, s.text, n),
           NEW request, request = ParseHttpRequest(raw), request # None
    PROVE  RouteOf(request) = s.wants
<1>1. PICK a \in Asked : s.text = RequestText(a.method, a.target, None, <<>>) /\ s.wants = a.wants
    BY DEF Others
<1>2. PICK m, target, text, body :
        m = a.method /\ target = a.target /\ text = s.text /\ body = <<>>
    OBVIOUS
<1>3. /\ target \in Seq(STRING) /\ m \notin Spaces /\ m \in Symbols
      /\ \A i \in 1..Len(target) : target[i] # Cr /\ target[i] # Lf
    <2>1. target \in Seq(STRING) /\ m \notin Spaces /\ \A x \in ToSet(target) : x # Cr /\ x # Lf
        BY <1>2, AskedFor
    <2>2. \A i \in 1..Len(target) : target[i] \in ToSet(target)
        BY <2>1 DEF ToSet
    <2>3. m \in Symbols
        BY <1>2, SymbolsAre
    <2> QED BY ONLY <2>1, <2>2, <2>3
<1>4. target \in Seq(Symbols) /\ body \in Seq(Symbols)
    <2>1. Seq(STRING) \subseteq Seq(Symbols)
        BY SymbolsAre, SeqMonotonic
    <2> QED BY <1>2, <1>3, <2>1
<1>5. ASSUME Len(target) # 0, \A i \in 1..Len(target) : target[i] # Sp
      PROVE  request.method = <<m>> /\ request.path = target
    <2>1. \A i \in 1..Len(target) : target[i] \notin Spaces
        BY <1>3, <1>5, SpacesAre
    <2>2. text = RequestText(m, target, None, body)
        BY <1>1, <1>2
    <2>3. Asks(text, m, target, None, body)
        BY ONLY <1>3, <1>4, <1>5, <2>1, <2>2 DEF Asks
    <2>4. Cut(raw, text, n) /\ request = ParseHttpRequest(raw) /\ request # None
        BY <1>2
    <2> QED BY ONLY <2>3, <2>4, SentRead
<1>6. CASE s.wants.op \in Queries
    <2>1. PICK op, param : op = s.wants.op /\ param = s.wants.param
        OBVIOUS
    <2>2. Query(a, op, param)
        BY <1>1, <1>6, <2>1, AskedFor
    <2>3. /\ op \in Queries /\ param \in Seq(STRING) /\ m = "GET"
          /\ s.wants = [op |-> op, param |-> param]
          /\ target = Prefix(op) \o param \o Suffix(op)
        BY ONLY <1>1, <1>2, <2>2 DEF Query
    <2>4. param # <<>> /\ Find(param, 1, Sp) = 0 /\ Find(param, 1, Mark) = 0
        BY <1>6, <2>1 DEF Clear
    <2>5. \A i \in 1..Len(param) : param[i] # Sp /\ param[i] # Mark
        <3>1. \A i \in 1..Len(param) : param[i] # Sp
            BY ONLY <2>3, <2>4, FindNone
        <3>2. \A i \in 1..Len(param) : param[i] # Mark
            BY ONLY <2>3, <2>4, FindNone
        <3> QED BY ONLY <3>1, <3>2
    <2>6. Len(target) # 0 /\ \A i \in 1..Len(target) : target[i] # Sp /\ target[i] # Mark
        BY ONLY <2>3, <2>5, QueryTarget
    <2>7. request.method = <<m>> /\ request.path = target
        BY <1>5, <2>6
    <2>8. StripQuery(target) = target
        BY ONLY <1>3, <2>6, Unmarked
    <2>9. Len(param) # 0
        BY ONLY <2>3, <2>4
    <2>10. StripQuery(request.path) = Prefix(op) \o param \o Suffix(op)
           /\ request.method = <<"GET">>
        BY ONLY <2>3, <2>7, <2>8
    <2>11. RouteOf(request) = [op |-> op, param |-> param]
        BY ONLY <2>3, <2>9, <2>10, QueryRouted
    <2> QED BY ONLY <2>3, <2>11
<1>7. CASE s.wants.op \notin Queries
    <2>1. Simple(a)
        BY <1>1, <1>7, AskedFor
    <2>2. /\ target # <<>> /\ target[1] # Mark /\ Sp \notin ToSet(target)
          /\ Len(target) > 1 => target[2] = Mark
          /\ s.wants = Endpoint(m, target[1])
        BY ONLY <1>1, <1>2, <2>1 DEF Simple
    <2>3. Len(target) # 0
        BY ONLY <1>3, <2>2
    <2>4. \A i \in 1..Len(target) : target[i] # Sp
        BY ONLY <1>3, <2>2 DEF ToSet
    <2>5. request.method = <<m>> /\ request.path = target
        BY <1>5, <2>3, <2>4
    <2>6. StripQuery(target) = <<target[1]>>
        BY ONLY <1>3, <2>2, <2>3, Marked
    <2>7. PICK t : t = target[1]
        OBVIOUS
    <2>8. request.method = <<m>> /\ StripQuery(request.path) = <<t>>
        BY ONLY <2>5, <2>6, <2>7
    <2>9. RouteOf(request) = Endpoint(m, t)
        BY ONLY <2>8, EndpointRouted
    <2> QED BY ONLY <2>2, <2>7, <2>9
<1> QED BY <1>6, <1>7

\* RoutedAsAsked: a request is routed to what its client asked for, whatever
\* part of it was read (Route, ExtractPathParam, StripQuery:
\* http_server.cpp:505-580).
THEOREM RoutedAsTheyAsk == Spec => []RoutedAsAsked
<1>1. Init => RoutedAsAsked
    BY DEF Init, RoutedAsAsked
<1>2. ReadInv /\ RoutedAsAsked /\ [Next]_vars => RoutedAsAsked'
    <2> SUFFICES ASSUME ReadInv, RoutedAsAsked, [Next]_vars PROVE RoutedAsAsked'
        OBVIOUS
    <2>0. sent' = sent
        BY DEF Next, Recv, RecvEnds, HandleClient, vars
    <2>1. CASE routed' = routed
        BY <2>0, <2>1 DEF RoutedAsAsked
    <2>2. CASE routed' # routed
        <3>1. PICK request : request = ParseHttpRequest(Raw) /\ request # None
                             /\ routed' = RouteOf(request)
            BY <2>2 DEF Next, Recv, RecvEnds, HandleClient, NoRequest, InvalidRequest, Ingest,
                        RouteOther, vars
        <3>2. sent \in Posts \cup Others /\ got \in 0..Len(sent.text)
              /\ Raw = SubSeq(sent.text, 1, got)
            <4>1. sent.text \in Seq(Symbols)
                BY SentReads DEF ReadInv
            <4>2. Len(sent.text) \in Nat
                BY <4>1
            <4> QED BY <4>2 DEF ReadInv, Raw
        <3>3. ASSUME Clear(sent.wants) PROVE routed' = sent.wants
            <4>1. CASE sent \in Posts
                BY <3>1, <3>2, <4>1, PostRouted
            <4>2. CASE sent \in Others
                <5>1. Cut(Raw, sent.text, got)
                    BY ONLY <3>2 DEF Cut
                <5> QED BY ONLY <3>1, <3>3, <4>2, <5>1, OtherRouted
            <4> QED BY <3>2, <4>1, <4>2
        <3> QED BY <2>0, <3>3, Zenon DEF RoutedAsAsked, Clear, Sp, Mark
    <2> QED BY <2>1, <2>2
<1> QED BY <1>1, <1>2, ReadInvariant, PTL DEF Spec

-----------------------------------------------------------------------------
(* What is no None *)

\* All symbols are strings.
LEMMA SignsStrings == Signs \subseteq STRING
<1>1. /\ Names \subseteq STRING /\ ToSet(Numerals) \subseteq STRING
      /\ {"{", "}", ",", ":", " ", "\r", "\n", "POST", "HTTP/1.1", "/api/v1/ingest",
          "Host: gateway", "Content-Length:", "sha", "sig", "key-1", Quote} \subseteq STRING
    BY SymbolsAssumption, Zenon
<1>5. {Backslash, Opening, Closing, Comma, Colon, "null", "true", "false", "now", "tx",
       "near ", "key", "missing ", "telemetry.ingested", "ingest.rejected", "accepted",
       "route not found", "invalid HTTP request", "400", "202", "404",
       "Connection: close", "HTTP/1.1", "wifi", "default-pubkey", ContentLength} \subseteq STRING
    BY SymbolsAssumption, Zenon DEF Backslash, Opening, Closing, Comma, Colon, ContentLength
<1>2. {a.method : a \in Asked} \subseteq STRING
    <2>1. \A a \in Asked : a.method \in STRING
        BY AskedAssumption, Zenon
    <2> QED BY ONLY <2>1
<1>3. Digits \subseteq STRING
    BY <1>1, NumeralsAre
<1>4. Symbols \subseteq STRING
    BY ONLY <1>1, <1>2, <1>3, Zenon DEF Symbols
<1> QED BY ONLY <1>4, <1>5, Zenon DEF Signs

\* A text, a packet, a request and a result are no None.
LEMMA TextIsSome ==
    ASSUME NEW t \in Seq(Signs) PROVE t \in Seq(STRING) /\ t # None
<1>1. t \in Seq(STRING)
    BY SignsStrings, SeqMonotonic
<1> QED BY <1>1, WordAssumption

\* A packet that was parsed is a packet,
LEMMA PacketIsSome ==
    ASSUME NEW text \in Seq(Signs), NEW json, json = ParseTelemetryPacketJson(text), json.ok
    PROVE  json.packet # None
<1>1. PICK p : p = json.packet
    OBVIOUS
<1>2. PacketTexts(p)
    BY <1>1, ParsedTexts
<1>3. /\ p.deviceId \in Seq(Signs) /\ p.hashHex \in Seq(Signs) /\ p.signature \in Seq(Signs)
      /\ p.pubKeyId \in Seq(Signs) /\ p.transport \in Seq(Signs) /\ p.batchCode \in Seq(Signs)
      /\ p.timestamp \in Nat /\ p.telemetryJson \in Seq(Signs)
    BY <1>2 DEF PacketTexts, PassedTexts
<1>4. /\ p.deviceId \in Seq(STRING) /\ p.hashHex \in Seq(STRING) /\ p.signature \in Seq(STRING)
      /\ p.pubKeyId \in Seq(STRING) /\ p.transport \in Seq(STRING)
      /\ p.batchCode \in Seq(STRING) /\ p.telemetryJson \in Seq(STRING)
    BY <1>3, TextIsSome
<1>5. p = [deviceId |-> p.deviceId, timestamp |-> p.timestamp, telemetryJson |-> p.telemetryJson,
           hashHex |-> p.hashHex, signature |-> p.signature, pubKeyId |-> p.pubKeyId,
           transport |-> p.transport, batchCode |-> p.batchCode]
    <2>1. PICK a, b, c, d, e, f, g, h :
             p = [deviceId |-> a, timestamp |-> b, telemetryJson |-> c, hashHex |-> d,
                  signature |-> e, pubKeyId |-> f, transport |-> g, batchCode |-> h]
        BY <1>1 DEF ParseTelemetryPacketJson
    <2> QED BY ONLY <2>1
<1>6. p \in Packet
    BY ONLY <1>3, <1>4, <1>5 DEF Packet
<1> QED BY <1>1, <1>6, NoneAssumption

\* and a request that was parsed a request.
LEMMA RequestIsSome ==
    ASSUME NEW a \in Seq(Signs), NEW b \in Seq(Signs), NEW c \in Seq(Signs)
    PROVE  [method |-> a, path |-> b, body |-> c] # None
<1>1. a \in Seq(STRING) /\ b \in Seq(STRING) /\ c \in Seq(STRING)
    BY TextIsSome
<1>2. [method |-> a, path |-> b, body |-> c] \in Request
    BY ONLY <1>1 DEF Request
<1> QED BY <1>2, NoneAssumption

\* A text of one symbol or of four.
LEMMA ShortTexts ==
    ASSUME NEW S, NEW a \in S, NEW b \in S, NEW c \in S, NEW d \in S
    PROVE  <<a>> \in Seq(S) /\ <<a, b, c, d>> \in Seq(S)
OBVIOUS

\* A result is none either.
LEMMA ResultIsSome ==
    ASSUME NEW p PROVE IngestResult(p) # None
<1>1. PICK ok \in Seq(STRING), tx \in Seq(STRING), no \in Seq(STRING) :
        ok = <<"accepted">> /\ tx = <<"tx">> /\ no = <<"near ", Quote, "key", Quote>>
    <2>1. PICK a \in STRING, b \in STRING, c \in STRING, d \in STRING :
            a = "accepted" /\ b = "tx" /\ c = "near " /\ d = "key"
        BY SymbolsAssumption, Zenon
    <2>2. Quote \in STRING
        BY SymbolsAssumption, Zenon
    <2>3. <<a>> \in Seq(STRING) /\ <<b>> \in Seq(STRING) /\ <<c, Quote, d, Quote>> \in Seq(STRING)
        BY ONLY <2>1, <2>2, ShortTexts, Zenon
    <2> QED BY ONLY <2>1, <2>3, Zenon
<1>2. PICK r : r = IngestResult(p)
    OBVIOUS
<1>3. \/ r = [accepted |-> TRUE, message |-> ok, recordId |-> 1,
              receipt |-> [txHash |-> tx, blockHeight |-> 7]]
      \/ r = [accepted |-> FALSE, message |-> no, recordId |-> 0, receipt |-> None]
    BY <1>1, <1>2, Zenon DEF IngestResult
<1>4. r \in Result
    <2>1. ok \in Seq(STRING) /\ tx \in Seq(STRING) /\ no \in Seq(STRING)
        OBVIOUS
    <2>2. PICK a : a = [txHash |-> tx, blockHeight |-> 7]
        OBVIOUS
    <2>3. a \in {None} \cup [txHash : Seq(STRING), blockHeight : Nat]
        BY ONLY <2>1, <2>2
    <2>4. None \in {None} \cup [txHash : Seq(STRING), blockHeight : Nat]
        OBVIOUS
    <2>5. CASE r = [accepted |-> TRUE, message |-> ok, recordId |-> 1, receipt |-> a]
        BY ONLY <2>1, <2>3, <2>5 DEF Result
    <2>6. CASE r = [accepted |-> FALSE, message |-> no, recordId |-> 0, receipt |-> None]
        BY ONLY <2>1, <2>4, <2>6 DEF Result
    <2> QED BY ONLY <1>3, <2>2, <2>5, <2>6
<1> QED BY <1>2, <1>4, NoneAssumption

-----------------------------------------------------------------------------
(* What the search for a string finds *)

\* The colon is no space and no name, and no symbol is the empty one.
LEMMA ColonIs ==
    /\ Colon \notin Spaces /\ Quote \notin Spaces /\ Colon # Quote /\ ~HasQuote(Colon)
    /\ Colon # "" /\ Quote # "" /\ HasQuote(Quote)
<1>1. Colon \notin Names
    <2>1. Colon \notin ToSet(Required)
        BY RequiredAre, Zenon DEF Colon
    <2> QED BY <2>1, Zenon DEF Names, Optional, Colon
<1>2. Colon # Quote /\ Colon # "" /\ Quote # ""
    BY Zenon DEF Colon, Quote
<1>3. Colon \notin Spaces /\ Quote \notin Spaces
    BY Zenon DEF Colon, Quote, Spaces
<1> QED BY <1>1, <1>2, <1>3, Zenon DEF HasQuote

\* A symbol that is there is at a position of the text.
LEMMA AtIs ==
    ASSUME NEW text, IsText(text), NEW i, NEW s \in {Quote, Colon}, At(text, i) = s
    PROVE  i \in 1..Len(text) /\ text[i] = s
<1>1. s # ""
    BY ColonIs
<1>2. i \in DOMAIN text /\ text[i] = s
    BY <1>1 DEF At
<1> QED BY ONLY <1>2, IsText(text), TextLength

\* Spaces are skipped forwards.
LEMMA SkipsOn ==
    ASSUME NEW text, Len(text) \in Nat, NEW from \in 1..(Len(text) + 1)
    PROVE  SkipSpaces(text, from) \in from..(Len(text) + 1)
<1> DEFINE I == {i \in from..Len(text) : ~(text[i] \in Spaces)}
<1>1. SkipSpaces(text, from) = LET i == IF I # {} THEN Min(I) ELSE 0
                               IN  IF i = 0 THEN Len(text) + 1 ELSE i
    BY DEF SkipSpaces, PastAll, SelectInSubSeq
<1>2. I \in SUBSET Nat /\ I \subseteq from..Len(text)
    OBVIOUS
<1>3. I # {} => Min(I) \in I
    <2> HIDE DEF I
    <2> QED BY <1>2, LeastIs
<1> QED BY <1>1, <1>2, <1>3

\* A value stands behind its name and a colon.
LEMMA ValuePast ==
    ASSUME NEW text, IsText(text), NEW i \in 1..Len(text)
    PROVE  ValueAt(text, i) = 0 \/ ValueAt(text, i) \in (i + 2)..(Len(text) + 1)
<1>1. Len(text) \in Nat
    BY TextLength
<1>2. PICK c : c = SkipSpaces(text, i + 1)
    OBVIOUS
<1>3. c \in (i + 1)..(Len(text) + 1)
    BY <1>1, <1>2, SkipsOn
<1>4. CASE At(text, c) # Colon
    BY <1>2, <1>4, Zenon DEF ValueAt, Colon
<1>5. CASE At(text, c) = Colon
    <2>1. c \in 1..Len(text)
        BY <1>5, AtIs
    <2>2. c + 1 \in 1..(Len(text) + 1)
        BY <1>1, <2>1
    <2>3. SkipSpaces(text, c + 1) \in (c + 1)..(Len(text) + 1)
        BY ONLY <1>1, <2>2, SkipsOn
    <2>4. ValueAt(text, i) = SkipSpaces(text, c + 1)
        BY <1>2, <1>5, Zenon DEF ValueAt, Colon
    <2> QED BY <1>1, <1>3, <2>1, <2>3, <2>4
<1> QED BY <1>4, <1>5

\* Behind a name and a colon the value begins at once, if it is no blank.
LEMMA ValueAfter ==
    ASSUME NEW text, IsText(text), NEW i \in Nat \ {0}, i + 2 <= Len(text),
           text[i + 1] = Colon, text[i + 2] \notin Spaces
    PROVE  ValueAt(text, i) = i + 2
<1>1. Len(text) \in Nat /\ DOMAIN text = 1..Len(text)
    BY TextLength
<1>2. SkipSpaces(text, i + 1) = i + 1
    <2>2. Colon \notin Spaces
        BY ColonIs, Zenon
    <2>1. /\ Len(text) \in Nat /\ i + 1 \in Nat \ {0} /\ i + 1 \in (i + 1)..Len(text)
          /\ text[i + 1] \notin Spaces /\ \A k \in (i + 1)..((i + 1) - 1) : text[k] \in Spaces
        BY <1>1, <2>2
    <2> QED BY ONLY <2>1, SkipsTo
<1>3. SkipSpaces(text, (i + 1) + 1) = i + 2
    <2>1. /\ Len(text) \in Nat /\ (i + 1) + 1 \in Nat \ {0} /\ i + 2 \in ((i + 1) + 1)..Len(text)
          /\ text[i + 2] \notin Spaces
          /\ \A k \in ((i + 1) + 1)..((i + 2) - 1) : text[k] \in Spaces
        BY <1>1
    <2> QED BY ONLY <2>1, SkipsTo
<1>4. At(text, i + 1) = Colon
    <2>1. i + 1 \in DOMAIN text
        BY <1>1
    <2> QED BY <2>1 DEF At
<1> QED BY <1>2, <1>3, <1>4, Zenon DEF ValueAt, Colon

\* A string ends at the first quote, if there is one.
LEMMA QuoteCloses ==
    ASSUME NEW text, Len(text) \in Nat, NEW from \in Nat \ {0}
    PROVE  /\ \A k \in from..Len(text) :
                 HasQuote(text[k]) /\ (\A i \in from..(k - 1) : ~HasQuote(text[i]))
                    => ClosingQuote(text, from) = k
           /\ (\A i \in from..Len(text) : ~HasQuote(text[i])) => ClosingQuote(text, from) = 0
<1> DEFINE I == {i \in from..Len(text) : HasQuote(text[i])}
<1>1. ClosingQuote(text, from) = IF I # {} THEN Min(I) ELSE 0
    BY DEF ClosingQuote, SelectInSubSeq
<1>2. ASSUME NEW k \in from..Len(text), HasQuote(text[k]),
             \A i \in from..(k - 1) : ~HasQuote(text[i])
      PROVE  ClosingQuote(text, from) = k
    <2>1. I \in SUBSET Nat /\ k \in I /\ \A i \in I : k <= i
        BY <1>2
    <2>2. Min(I) = k /\ I # {}
        <3> HIDE DEF I
        <3> QED BY <2>1, LeastOf
    <2> HIDE DEF I
    <2> QED BY <1>1, <2>2
<1>3. ASSUME \A i \in from..Len(text) : ~HasQuote(text[i])
      PROVE  ClosingQuote(text, from) = 0
    <2>1. I = {}
        BY <1>3
    <2> HIDE DEF I
    <2> QED BY <1>1, <2>1
<1> QED BY <1>2, <1>3

\* Where the search finds the key with a string behind it.
StringsAt(text, key) ==
    {i \in DOMAIN text : /\ text[i] = key /\ At(text, ValueAt(text, i)) = Quote
                         /\ ClosingQuote(text, ValueAt(text, i) + 1) # 0}

\* The first of them is what ExtractStringValue returns.
LEMMA StringFound ==
    ASSUME NEW text, IsText(text), NEW key, NEW I, I = StringsAt(text, key),
           NEW begin, begin = ValueAt(text, Min(I))
    PROVE  /\ I = {} => ExtractStringValue(text, key) = None
           /\ I # {} => /\ Min(I) \in I /\ begin \in 1..Len(text)
                        /\ ExtractStringValue(text, key) =
                              SubSeq(text, begin + 1, ClosingQuote(text, begin + 1) - 1)
<1>1. PICK b : b = IF I = {} THEN 0 ELSE begin
    OBVIOUS
<1>2. ExtractStringValue(text, key) =
          IF b = 0 THEN None ELSE SubSeq(text, b + 1, ClosingQuote(text, b + 1) - 1)
    BY <1>1 DEF ExtractStringValue, SearchValue, StringsAt
<1>3. I \in SUBSET Nat
    BY TextLength DEF StringsAt
<1>4. CASE I = {}
    BY ONLY <1>1, <1>2, <1>4
<1>5. CASE I # {}
    <2>1. Min(I) \in I
        BY ONLY <1>3, <1>5, LeastIs
    <2>2. At(text, begin) = Quote
        BY <2>1 DEF StringsAt
    <2>3. begin \in 1..Len(text)
        BY <2>2, AtIs
    <2>4. b = begin /\ b # 0
        BY <1>1, <1>5, <2>3
    <2> QED BY ONLY <1>2, <1>5, <2>1, <2>3, <2>4
<1> QED BY <1>4, <1>5

\* A member with a string behind s, symbol by symbol.
Carries(text, s, key, v) ==
    /\ s \in Nat /\ Len(v) \in Nat /\ s + Len(v) + 4 <= Len(text)
    /\ text[s + 1] = key /\ text[s + 2] = Colon /\ text[s + 3] = Quote
    /\ \A i \in 1..Len(v) : text[s + 3 + i] = v[i]
    /\ text[s + Len(v) + 4] = Quote

\* A member with a string is written so.
LEMMA CarriesIs ==
    ASSUME NEW S, Colon \in S, Quote \in S, NEW key \in S, NEW v \in Seq(S),
           NEW text, NEW s, Part(text, s, Member(key, Quoted(v)))
    PROVE  Carries(text, s, key, v)
<1>1. PICK x, y : x = Quoted(v) /\ y = Member(key, x)
    OBVIOUS
<1>2. Wraps(x, Quote, v, Quote)
    BY <1>1 DEF Wraps, Quoted
<1>3. /\ x \in Seq(S) /\ Len(v) \in Nat /\ Len(x) = Len(v) + 2
      /\ x[1] = Quote /\ x[Len(v) + 2] = Quote /\ Part(x, 1, v)
    BY ONLY Quote \in S, v \in Seq(S), <1>2, Wrapped
<1>4. Membered(y, S, key, x)
    BY <1>1, <1>3, MemberIs
<1>5. /\ Len(y) = Len(v) + 4 /\ y[1] = key /\ y[2] = Colon /\ y[3] = Quote
      /\ y[Len(v) + 4] = Quote /\ \A i \in 1..Len(v) : y[3 + i] = v[i]
    <2>1. /\ Len(y) = Len(x) + 2 /\ y[1] = key /\ y[2] = Colon
          /\ \A i \in 1..Len(x) : y[2 + i] = x[i]
        BY <1>4 DEF Membered
    <2>2. y[2 + 1] = x[1] /\ y[2 + (Len(v) + 2)] = x[Len(v) + 2]
        BY ONLY <1>3, <2>1
    <2>3. \A i \in 1..Len(v) : x[1 + i] = v[i]
        BY <1>3 DEF Part
    <2>4. ASSUME NEW i \in 1..Len(v) PROVE y[3 + i] = v[i]
        <3>1. 1 + i \in 1..Len(x) /\ 2 + (1 + i) = 3 + i
            BY <1>3
        <3> QED BY <2>1, <2>3, <3>1
    <2> QED BY <1>3, <2>1, <2>2, <2>4
<1>6. s \in Nat /\ s + Len(y) <= Len(text) /\ \A i \in 1..Len(y) : text[s + i] = y[i]
    BY <1>1, Zenon DEF Part
<1>7. \A i \in 1..Len(v) : text[s + 3 + i] = v[i]
    <2>1. ASSUME NEW i \in 1..Len(v) PROVE text[s + 3 + i] = v[i]
        <3>1. 3 + i \in 1..Len(y) /\ s + (3 + i) = s + 3 + i
            BY <1>3, <1>5, <1>6
        <3> QED BY <1>5, <1>6, <3>1
    <2> QED BY <2>1
<1>8. /\ text[s + 1] = key /\ text[s + 2] = Colon /\ text[s + 3] = Quote
      /\ text[s + (Len(v) + 4)] = Quote /\ s + (Len(v) + 4) = s + Len(v) + 4
    <2>1. {1, 2, 3, Len(v) + 4} \subseteq 1..Len(y)
        BY <1>3, <1>5
    <2> QED BY ONLY <1>3, <1>5, <1>6, <2>1
<1> QED BY <1>3, <1>5, <1>6, <1>7, <1>8 DEF Carries

\* A text without a name.
Nameless(t) == \A i \in 1..Len(t) : t[i] \notin Names

\* What the search takes of a string: all that is before the first quote in it.
LEMMA BeforeQuoteIs ==
    ASSUME NEW S, NEW v \in Seq(S), NEW w, w = BeforeQuote(v)
    PROVE  /\ w \in Seq(S) /\ Len(w) \in Nat /\ Len(w) <= Len(v) /\ Unquoted(w)
           /\ \A i \in 1..Len(w) : w[i] = v[i]
           /\ Len(w) < Len(v) => HasQuote(v[Len(w) + 1])
           /\ Unquoted(v) => w = v
<1>1. Len(v) \in Nat
    OBVIOUS
<1> DEFINE I == {i \in 1..Len(v) : HasQuote(v[i])}
<1>2. PICK q : q = ClosingQuote(v, 1)
    OBVIOUS
<1>3. q = IF I # {} THEN Min(I) ELSE 0
    BY <1>2 DEF ClosingQuote, SelectInSubSeq
<1>4. I \in SUBSET Nat /\ 0 \notin I
    OBVIOUS
<1>5. CASE I = {}
    <2>1. q = 0
        BY <1>3, <1>5
    <2>2. w = v
        BY <1>2, <2>1 DEF BeforeQuote
    <2>3. Unquoted(v)
        BY <1>5 DEF Unquoted
    <2> QED BY <1>1, <2>2, <2>3
<1>6. CASE I # {}
    <2>1. Min(I) \in I /\ \A i \in I : Min(I) <= i
        <3> HIDE DEF I
        <3> QED BY ONLY <1>4, <1>6, LeastIs
    <2>2. q \in 1..Len(v) /\ HasQuote(v[q]) /\ q \in Nat
        BY <1>3, <1>6, <2>1
    <2>3. ASSUME NEW i \in 1..(q - 1) PROVE ~HasQuote(v[i])
        <3>1. i \in 1..Len(v) /\ ~(q <= i)
            BY <1>1, <2>2
        <3>2. i \notin I
            <4>1. q = Min(I)
                BY <1>3, <1>6
            <4> HIDE DEF I
            <4> QED BY ONLY <2>1, <3>1, <4>1
        <3> QED BY <3>1, <3>2
    <2> HIDE DEF I
    <2>4. w = SubSeq(v, 1, q - 1)
        BY <1>2, <2>2 DEF BeforeQuote
    <2>5. q - 1 \in 0..Len(v)
        BY <1>1, <2>2
    <2>6. w \in Seq(S) /\ Len(w) = q - 1 /\ \A i \in 1..(q - 1) : w[i] = v[i]
        BY <2>4, <2>5
    <2>7. Unquoted(w)
        BY <2>3, <2>6 DEF Unquoted
    <2>8. Len(w) + 1 = q
        BY <2>2, <2>6
    <2>9. ~Unquoted(v)
        BY <2>2 DEF Unquoted
    <2> QED BY <1>1, <2>2, <2>6, <2>7, <2>8, <2>9
<1> QED BY <1>5, <1>6

\* A member with a string is one with what the search takes of it, too.
LEMMA CarriesBefore ==
    ASSUME NEW S, NEW v \in Seq(S), Nameless(v), NEW text, NEW s, NEW key,
           Carries(text, s, key, v), NEW w, w = BeforeQuote(v)
    PROVE  Carries(text, s, key, w)
<1>1. /\ s \in Nat /\ Len(v) \in Nat /\ s + Len(v) + 4 <= Len(text)
      /\ text[s + 1] = key /\ text[s + 2] = Colon /\ text[s + 3] = Quote
      /\ \A i \in 1..Len(v) : text[s + 3 + i] = v[i]
      /\ text[s + Len(v) + 4] = Quote
    BY DEF Carries
<1>2. /\ Len(w) \in Nat /\ Len(w) <= Len(v) /\ \A i \in 1..Len(w) : w[i] = v[i]
      /\ Len(w) < Len(v) => HasQuote(v[Len(w) + 1])
    BY BeforeQuoteIs
<1>3. \A i \in 1..Len(w) : text[s + 3 + i] = w[i]
    BY <1>1, <1>2
<1>4. text[s + Len(w) + 4] = Quote
    <2>1. CASE Len(w) = Len(v)
        BY <1>1, <2>1
    <2>2. CASE Len(w) < Len(v)
        <3>1. PICK j : j = Len(w) + 1
            OBVIOUS
        <3>2. j \in 1..Len(v) /\ s + 3 + j = s + Len(w) + 4
            BY <1>1, <1>2, <2>2, <3>1
        <3>3. v[j] = Quote
            BY <1>2, <2>2, <3>1, <3>2 DEF HasQuote, Nameless
        <3> QED BY <1>1, <3>2, <3>3
    <2> QED BY <1>1, <1>2, <2>1, <2>2
<1>5. s + Len(w) + 4 <= Len(text) \/ Len(text) \notin Int
    BY <1>1, <1>2
<1> QED BY <1>1, <1>2, <1>3, <1>4, <1>5 DEF Carries

\* Such a member is found, and it is what is found if the key is not before.
LEMMA StringRead ==
    ASSUME NEW S, NEW text \in Seq(S), NEW s, NEW key, NEW v \in Seq(S), Carries(text, s, key, v),
           Unquoted(v)
    PROVE  /\ s + 1 \in StringsAt(text, key)
           /\ (\A k \in 1..s : text[k] # key) => ExtractStringValue(text, key) = v
<1>1. /\ s \in Nat /\ Len(v) \in Nat /\ s + Len(v) + 4 <= Len(text)
      /\ text[s + 1] = key /\ text[s + 2] = Colon /\ text[s + 3] = Quote
      /\ \A i \in 1..Len(v) : text[s + 3 + i] = v[i]
      /\ text[s + Len(v) + 4] = Quote
    BY DEF Carries
<1>2. IsText(text) /\ Len(text) \in Nat /\ DOMAIN text = 1..Len(text)
    BY DEF IsText
<1>3. Quote \notin Spaces /\ HasQuote(Quote)
    BY ColonIs, Zenon
<1>4. ValueAt(text, s + 1) = s + 3
    <2>1. /\ IsText(text) /\ s + 1 \in Nat \ {0} /\ (s + 1) + 2 <= Len(text)
          /\ text[(s + 1) + 1] = Colon /\ text[(s + 1) + 2] \notin Spaces
          /\ (s + 1) + 2 = s + 3
        BY ONLY <1>1, <1>2, <1>3
    <2> QED BY ONLY <2>1, ValueAfter
<1>5. ClosingQuote(text, (s + 3) + 1) = s + Len(v) + 4
    <2>1. PICK k, from : k = s + Len(v) + 4 /\ from = (s + 3) + 1
        OBVIOUS
    <2>2. /\ Len(text) \in Nat /\ from \in Nat \ {0} /\ k \in from..Len(text)
          /\ HasQuote(text[k])
        BY ONLY <1>1, <1>2, <1>3, <2>1
    <2>3. ASSUME NEW i \in from..(k - 1) PROVE ~HasQuote(text[i])
        <3>1. i - s - 3 \in 1..Len(v) /\ s + 3 + (i - s - 3) = i
            BY <1>1, <2>1, <2>3
        <3>2. ~HasQuote(v[i - s - 3]) /\ text[i] = v[i - s - 3]
            BY <1>1, <3>1 DEF Unquoted
        <3> QED BY ONLY <3>2
    <2>4. ClosingQuote(text, from) = k
        BY ONLY <2>2, <2>3, QuoteCloses
    <2> QED BY ONLY <2>1, <2>4
<1>6. s + 1 \in StringsAt(text, key)
    <2>1. At(text, s + 3) = Quote
        <3>1. s + 3 \in DOMAIN text
            BY <1>1, <1>2
        <3> QED BY <1>1, <3>1 DEF At
    <2>2. s + 1 \in DOMAIN text /\ s + Len(v) + 4 # 0
        BY <1>1, <1>2
    <2> QED BY <1>1, <1>4, <1>5, <2>1, <2>2 DEF StringsAt
<1>7. ASSUME \A k \in 1..s : text[k] # key PROVE ExtractStringValue(text, key) = v
    <2>1. PICK I : I = StringsAt(text, key)
        OBVIOUS
    <2>2. /\ I \in SUBSET Nat /\ s + 1 \in I
        BY <1>2, <1>6, <2>1 DEF StringsAt
    <2>3. ASSUME NEW i \in I PROVE s + 1 <= i
        <3>1. i \in 1..Len(text) /\ text[i] = key
            BY <1>2, <2>1, <2>3 DEF StringsAt
        <3> QED BY <1>1, <1>2, <1>7, <3>1
    <2>4. Min(I) = s + 1
        BY ONLY <2>2, <2>3, LeastOf
    <2>5. ExtractStringValue(text, key) = SubSeq(text, (s + 3) + 1, (s + Len(v) + 4) - 1)
        <3>1. PICK begin : begin = ValueAt(text, Min(I))
            OBVIOUS
        <3>2. ExtractStringValue(text, key) =
                  SubSeq(text, begin + 1, ClosingQuote(text, begin + 1) - 1)
            BY ONLY <1>2, <2>1, <2>2, <3>1, StringFound
        <3>3. begin = s + 3
            BY ONLY <1>4, <2>4, <3>1
        <3> QED BY ONLY <1>5, <3>2, <3>3
    <2>6. SubSeq(text, (s + 3) + 1, (s + 3) + Len(v)) = v
        <3>1. Part(text, s + 3, v)
            BY <1>1 DEF Part
        <3> QED BY <3>1, PartIsSubSeq
    <2>7. (s + Len(v) + 4) - 1 = (s + 3) + Len(v)
        BY <1>1
    <2> QED BY ONLY <2>5, <2>6, <2>7
<1> QED BY <1>6, <1>7

\* Where the key is not there is no string of it.
LEMMA StringMissing ==
    ASSUME NEW text, IsText(text), NEW key, \A k \in 1..Len(text) : text[k] # key
    PROVE  ExtractStringValue(text, key) = None
<1>1. StringsAt(text, key) = {}
    BY TextLength DEF StringsAt
<1> QED BY ONLY <1>1, IsText(text), StringFound

\* Of a text that was cut the string is found as it is, or not at all.
LEMMA StringCut ==
    ASSUME NEW S, NEW text \in Seq(S), NEW s, NEW key \in Names, NEW v \in Seq(S),
           Carries(text, s, key, v), Unquoted(v), \A k \in 1..s : text[k] # key,
           NEW m, NEW b, Cut(b, text, m)
    PROVE  ExtractStringValue(b, key) \in {None, v}
<1>1. /\ s \in Nat /\ Len(v) \in Nat /\ s + Len(v) + 4 <= Len(text)
      /\ text[s + 1] = key /\ text[s + 2] = Colon /\ text[s + 3] = Quote
      /\ \A i \in 1..Len(v) : text[s + 3 + i] = v[i]
      /\ text[s + Len(v) + 4] = Quote
    BY DEF Carries
<1>2. m \in 0..Len(text) /\ b = SubSeq(text, 1, m) /\ Len(text) \in Nat
    BY DEF Cut
<1>3. IsText(b) /\ Len(b) = m /\ \A i \in 1..m : b[i] = text[i]
    BY <1>2, PrefixIs
<1>4. b \in Seq(S)
    BY <1>2
<1>5. CASE s + Len(v) + 4 <= m
    <2>1. Carries(b, s, key, v)
        <3>1. /\ s + 1 \in 1..m /\ s + 2 \in 1..m /\ s + 3 \in 1..m /\ s + Len(v) + 4 \in 1..m
              /\ \A i \in 1..Len(v) : s + 3 + i \in 1..m
            BY ONLY <1>1, <1>2, <1>5
        <3> QED BY ONLY <1>1, <1>3, <1>5, <3>1 DEF Carries
    <2>2. \A k \in 1..s : b[k] # key
        BY <1>1, <1>2, <1>3, <1>5
    <2> QED BY <1>4, <2>1, <2>2, StringRead
<1>6. CASE m < s + Len(v) + 4
    <2>1. StringsAt(b, key) = {}
        <3> SUFFICES ASSUME NEW i \in StringsAt(b, key) PROVE FALSE
            OBVIOUS
        <3>1. /\ i \in 1..m /\ text[i] = key /\ At(b, ValueAt(b, i)) = Quote
              /\ ClosingQuote(b, ValueAt(b, i) + 1) # 0
            BY <1>3, TextLength DEF StringsAt
        <3>2. i = s + 1
            <4>1. i > s
                BY <1>1, <1>2, <3>1
            <4>2. key # Colon /\ key # Quote /\ HasQuote(key)
                <5>1. ~HasQuote(Colon) /\ Quote \notin Names
                    BY ColonIs, MarksApart, Zenon
                <5>2. HasQuote(key)
                    BY DEF HasQuote
                <5> QED BY <5>1, <5>2
            <4>3. i # s + 2 /\ i # s + 3
                BY <1>1, <3>1, <4>2
            <4>4. i \notin (s + 4)..(s + 3 + Len(v))
                <5> SUFFICES ASSUME i \in (s + 4)..(s + 3 + Len(v)) PROVE FALSE
                    OBVIOUS
                <5>3. PICK l : l = Len(v)
                    OBVIOUS
                <5>4. l \in Nat /\ s \in Nat /\ i \in (s + 4)..(s + 3 + l)
                    BY <1>1, <5>3
                <5>1. i - s - 3 \in 1..Len(v) /\ s + 3 + (i - s - 3) = i
                    BY ONLY <5>3, <5>4
                <5>2. text[i] = v[i - s - 3] /\ ~HasQuote(v[i - s - 3])
                    BY <1>1, <5>1 DEF Unquoted
                <5> QED BY ONLY <3>1, <4>2, <5>2
            <4> QED BY ONLY <1>1, <1>2, <1>6, <3>1, <4>1, <4>3, <4>4
        <3>3. ValueAt(b, i) \in 1..Len(b)
            BY <1>3, <3>1, AtIs
        <3>4. ValueAt(b, i) \in (i + 2)..(m + 1)
            BY <1>3, <3>1, <3>3, ValuePast
        <3>5. s + 3 <= m
            BY <1>1, <1>2, <1>3, <3>2, <3>3, <3>4
        <3>6. ValueAt(b, i) = i + 2
            <4>1. b[i + 1] = Colon /\ b[i + 2] = Quote
                <5>1. s + 2 \in 1..m /\ s + 3 \in 1..m /\ i + 1 = s + 2 /\ i + 2 = s + 3
                    BY <1>1, <1>2, <3>2, <3>5
                <5> QED BY ONLY <1>1, <1>3, <5>1
            <4>2. Quote \notin Spaces
                BY ColonIs, Zenon
            <4>3. i \in Nat \ {0} /\ i + 2 <= Len(b)
                BY <1>1, <1>2, <1>3, <3>2, <3>5
            <4> QED BY <1>3, <4>1, <4>2, <4>3, ValueAfter
        <3>7. ASSUME NEW k \in (i + 3)..Len(b) PROVE ~HasQuote(b[k])
            <4>1. k - s - 3 \in 1..Len(v) /\ s + 3 + (k - s - 3) = k /\ k \in 1..m
                BY <1>1, <1>2, <1>3, <1>6, <3>2, <3>7
            <4>2. b[k] = v[k - s - 3] /\ ~HasQuote(v[k - s - 3])
                BY <1>1, <1>3, <4>1 DEF Unquoted
            <4> QED BY ONLY <4>2
        <3>8. ClosingQuote(b, i + 3) = 0
            <4>1. Len(b) \in Nat /\ i + 3 \in Nat \ {0}
                BY <1>1, <1>2, <1>3, <3>2
            <4> QED BY ONLY <3>7, <4>1, QuoteCloses
        <3>9. (i + 2) + 1 = i + 3
            BY <3>1
        <3> QED BY ONLY <3>1, <3>6, <3>8, <3>9
    <2>2. ExtractStringValue(b, key) = None
        BY ONLY <1>3, <2>1, StringFound
    <2> QED BY <2>2
<1>7. s + Len(v) + 4 \in Nat /\ m \in Nat
    BY <1>1, <1>2
<1> QED BY <1>5, <1>6, <1>7

-----------------------------------------------------------------------------
(* What the searches for a number and an object find *)

\* Digits end before the first symbol that is none.
LEMMA DigitsStop ==
    ASSUME NEW text, Len(text) \in Nat, NEW from \in Nat \ {0}, NEW k \in from..Len(text),
           ~IsDigit(text[k]), \A i \in from..(k - 1) : IsDigit(text[i])
    PROVE  PastAll(text, from, IsDigit) = k
<1> DEFINE I == {i \in from..Len(text) : ~IsDigit(text[i])}
<1>1. PastAll(text, from, IsDigit) = LET i == IF I # {} THEN Min(I) ELSE 0
                                     IN  IF i = 0 THEN Len(text) + 1 ELSE i
    BY DEF PastAll, SelectInSubSeq
<1>2. I \in SUBSET Nat /\ k \in I /\ \A i \in I : k <= i /\ k # 0
    OBVIOUS
<1>3. Min(I) = k /\ I # {} /\ k # 0
    <2> HIDE DEF I
    <2> QED BY <1>2, LeastOf
<1> HIDE DEF I
<1> QED BY <1>1, <1>3

\* A member with a number behind s, and something else behind that.
Numbers(text, s, key, d) ==
    /\ s \in Nat /\ Len(d) \in Nat /\ Len(d) # 0 /\ s + Len(d) + 3 <= Len(text)
    /\ text[s + 1] = key /\ text[s + 2] = Colon
    /\ \A i \in 1..Len(d) : text[s + 2 + i] = d[i]
    /\ text[s + Len(d) + 3] \notin Digits

\* Digits are no spaces.
LEMMA DigitsNoSpaces == \A d \in Digits : d \notin Spaces
BY SpacesAre

\* Where the search finds the key with a digit behind it.
NumbersAt(text, key) ==
    {i \in DOMAIN text : text[i] = key /\ IsDigit(At(text, ValueAt(text, i)))}

\* The first of them is what ExtractUnsignedValue returns, if it fits.
LEMMA NumberFound ==
    ASSUME NEW text, IsText(text), NEW key, NEW I, I = NumbersAt(text, key),
           NEW begin, begin = ValueAt(text, Min(I))
    PROVE  /\ I = {} => ExtractUnsignedValue(text, key) = None
           /\ I # {} => /\ Min(I) \in I /\ begin \in 1..Len(text)
                        /\ ExtractUnsignedValue(text, key) = ParseUnsigned(DigitsAt(text, begin))
<1>1. PICK b : b = IF I = {} THEN 0 ELSE begin
    OBVIOUS
<1>2. ExtractUnsignedValue(text, key) = IF b = 0 THEN None ELSE ParseUnsigned(DigitsAt(text, b))
    BY <1>1 DEF ExtractUnsignedValue, SearchValue, NumbersAt
<1>3. I \in SUBSET Nat /\ I \subseteq 1..Len(text)
    BY TextLength DEF NumbersAt
<1>4. CASE I = {}
    BY ONLY <1>1, <1>2, <1>4
<1>5. CASE I # {}
    <2>1. Min(I) \in I
        BY ONLY <1>3, <1>5, LeastIs
    <2>2. IsDigit(At(text, begin))
        BY <2>1 DEF NumbersAt
    <2>3. begin \in Nat
        <3>1. Len(text) \in Nat /\ Min(I) \in Nat
            BY <1>3, <2>1, TextLength
        <3> QED BY <3>1, ValueIs
    <2>4. begin \in 1..Len(text)
        BY <2>2, <2>3, NumberAt
    <2>5. b = begin /\ b # 0
        BY <1>1, <1>5, <2>4
    <2> QED BY ONLY <1>2, <1>5, <2>1, <2>4, <2>5
<1> QED BY <1>4, <1>5

\* A number that a device wrote is read as it is, or not at all if it is too large.
LEMMA NumberRead ==
    ASSUME NEW S, NEW text \in Seq(S), NEW s, NEW key, NEW n \in Nat, NEW d, d = Decimal[n],
           Numbers(text, s, key, d), \A k \in 1..s : text[k] # key
    PROVE  ExtractUnsignedValue(text, key) = IF n < Word THEN n ELSE None
<1>1. /\ s \in Nat /\ Len(d) \in Nat /\ Len(d) # 0 /\ s + Len(d) + 3 <= Len(text)
      /\ text[s + 1] = key /\ text[s + 2] = Colon
      /\ \A i \in 1..Len(d) : text[s + 2 + i] = d[i]
      /\ text[s + Len(d) + 3] \notin Digits
    BY DEF Numbers
<1>2. IsText(text) /\ Len(text) \in Nat /\ DOMAIN text = 1..Len(text)
    BY DEF IsText
<1>3. d \in Seq(Digits) /\ NumberOf(d) = n
    BY DecimalIsRead
<1>4. \A i \in 1..Len(d) : d[i] \in Digits
    BY <1>3
<1>5. \A x : IsDigit(x) <=> x \in Digits
    BY DigitValues
<1>6. text[s + 3] \in Digits
    <2>1. 1 \in 1..Len(d) /\ s + 2 + 1 = s + 3
        BY <1>1
    <2> QED BY ONLY <1>1, <1>4, <2>1
<1>7. ValueAt(text, s + 1) = s + 3
    <2>1. text[s + 3] \notin Spaces
        BY <1>6, DigitsNoSpaces
    <2>2. /\ IsText(text) /\ s + 1 \in Nat \ {0} /\ (s + 1) + 2 <= Len(text)
          /\ text[(s + 1) + 1] = Colon /\ text[(s + 1) + 2] \notin Spaces
          /\ (s + 1) + 2 = s + 3
        BY ONLY <1>1, <1>2, <2>1
    <2> QED BY ONLY <2>2, ValueAfter
<1>8. PICK I : I = NumbersAt(text, key)
    OBVIOUS
<1>9. I \in SUBSET Nat /\ s + 1 \in I
    <2>1. s + 1 \in DOMAIN text /\ s + 3 \in DOMAIN text
        BY <1>1, <1>2
    <2>2. At(text, s + 3) = text[s + 3]
        BY <2>1 DEF At
    <2>3. IsDigit(At(text, ValueAt(text, s + 1)))
        BY ONLY <1>5, <1>6, <1>7, <2>2
    <2> QED BY <1>1, <1>2, <1>8, <2>1, <2>3 DEF NumbersAt
<1>10. Min(I) = s + 1
    <2>1. ASSUME NEW i \in I PROVE s + 1 <= i
        <3>1. i \in 1..Len(text) /\ text[i] = key
            BY <1>2, <1>8, <2>1 DEF NumbersAt
        <3> QED BY <1>1, <1>2, <3>1
    <2> QED BY ONLY <1>9, <2>1, LeastOf
<1>11. ExtractUnsignedValue(text, key) = ParseUnsigned(DigitsAt(text, s + 3))
    <2>1. PICK begin : begin = ValueAt(text, Min(I))
        OBVIOUS
    <2>2. ExtractUnsignedValue(text, key) = ParseUnsigned(DigitsAt(text, begin))
        BY ONLY <1>2, <1>8, <1>9, <2>1, NumberFound
    <2>3. begin = s + 3
        BY ONLY <1>7, <1>10, <2>1
    <2> QED BY ONLY <2>2, <2>3
<1>12. PastAll(text, s + 3, IsDigit) = s + Len(d) + 3
    <2>1. PICK from, k : from = s + 3 /\ k = s + Len(d) + 3
        OBVIOUS
    <2>2. Len(text) \in Nat /\ from \in Nat \ {0} /\ k \in from..Len(text) /\ ~IsDigit(text[k])
        BY ONLY <1>1, <1>2, <1>5, <2>1
    <2>3. ASSUME NEW i \in from..(k - 1) PROVE IsDigit(text[i])
        <3>1. PICK l : l = Len(d)
            OBVIOUS
        <3>2. l \in Nat /\ s \in Nat /\ i \in (s + 3)..((s + l + 3) - 1)
            BY <1>1, <2>1, <3>1
        <3>3. i - s - 2 \in 1..Len(d) /\ s + 2 + (i - s - 2) = i
            BY ONLY <3>1, <3>2
        <3> QED BY ONLY <1>1, <1>4, <1>5, <3>3
    <2>4. PastAll(text, from, IsDigit) = k
        BY ONLY <2>2, <2>3, DigitsStop
    <2> QED BY ONLY <2>1, <2>4
<1>13. DigitsAt(text, s + 3) = d
    <2>1. DigitsAt(text, s + 3) = SubSeq(text, s + 3, (s + Len(d) + 3) - 1)
        BY <1>12 DEF DigitsAt
    <2>2. PICK T : T = S \cup Digits
        OBVIOUS
    <2>3. text \in Seq(T) /\ d \in Seq(T)
        BY <1>3, <2>2
    <2>4. Part(text, s + 2, d)
        BY <1>1 DEF Part
    <2>5. SubSeq(text, (s + 2) + 1, (s + 2) + Len(d)) = d
        BY ONLY <2>3, <2>4, PartIsSubSeq
    <2>6. (s + 2) + 1 = s + 3 /\ (s + 2) + Len(d) = (s + Len(d) + 3) - 1
        BY ONLY <1>1
    <2> QED BY ONLY <2>1, <2>5, <2>6
<1>14. ParseUnsigned(d) = IF n < Word THEN n ELSE None
    BY <1>3 DEF ParseUnsigned
<1> QED BY ONLY <1>11, <1>13, <1>14

\* Where the key is not there is no number and no object of it.
LEMMA OthersMissing ==
    ASSUME NEW text, IsText(text), NEW key, \A k \in 1..Len(text) : text[k] # key
    PROVE  ExtractUnsignedValue(text, key) = None /\ ExtractObjectValue(text, key) = None
<1>1. NumbersAt(text, key) = {}
    BY TextLength DEF NumbersAt
<1>2. ExtractUnsignedValue(text, key) = None
    BY ONLY <1>1, IsText(text), NumberFound
<1>3. Find(text, 1, key) = 0
    BY TextLength, FindIs
<1>4. ExtractObjectValue(text, key) = None
    BY <1>3 DEF ExtractObjectValue, FindAfter
<1> QED BY <1>2, <1>4

-----------------------------------------------------------------------------
(* What a device writes *)

\* The members of a packet, and those with a string.
PacketNames == ToSet(Required) \cup Optional
\* The members that are strings.
StringFields == {"deviceId", "hash", "signature", "pubKeyId", "transport", "batchCode"}

\* The string that a device writes.
StringOf(p, name) ==
    CASE name = "deviceId"  -> p.deviceId
      [] name = "hash"      -> <<"sha">>
      [] name = "signature" -> <<"sig">>
      [] name = "pubKeyId"  -> <<"key-1">>
      [] name = "transport" -> p.transport
      [] name = "batchCode" -> p.batchCode

\* What the parser takes of it.
TakenOf(p, name) == BeforeQuote(StringOf(p, name))

\* The members of a packet, of which two are no strings.
LEMMA FieldsAre ==
    /\ PacketNames = StringFields \cup {"timestamp", "telemetry"}
    /\ "timestamp" \notin StringFields /\ "telemetry" \notin StringFields
    /\ "timestamp" # "telemetry" /\ PacketNames \subseteq Names
<1>1. PacketNames = StringFields \cup {"timestamp", "telemetry"}
    BY RequiredAre DEF PacketNames, StringFields, Optional
<1>2. "timestamp" \notin StringFields /\ "telemetry" \notin StringFields
    BY DEF StringFields
<1>3. PacketNames \subseteq Names
    BY Zenon DEF PacketNames, Names
<1> QED BY <1>1, <1>2, <1>3

\* Names are no separators and no digits; the other words of a packet are no names.
LEMMA NamesApart ==
    /\ Opening \notin Names /\ Closing \notin Names /\ Comma \notin Names /\ Colon \notin Names
    /\ Quote \notin Names /\ \A d \in Digits : d \notin Names
    /\ \A word \in {"sha", "sig", "key-1"} : ~HasQuote(word)
<1>1. Opening \notin Names
    BY RequiredAre, Zenon DEF Names, Optional, Opening
<1>2. Closing \notin Names
    BY RequiredAre, Zenon DEF Names, Optional, Closing
<1>3. Comma \notin Names
    BY RequiredAre, Zenon DEF Names, Optional, Comma
<1>4. Colon \notin Names
    BY ColonIs, Zenon DEF HasQuote
<1>5. \A d \in Digits : d \notin Names
    BY SymbolsApart, Zenon DEF HasQuote
<1>6. Quote \notin Names
    BY MarksApart, Zenon
<1>7. ~HasQuote("sha") /\ ~HasQuote("sig") /\ ~HasQuote("key-1")
    <2>1. "sha" \notin Names
        BY RequiredAre, Zenon DEF Names, Optional
    <2>2. "sig" \notin Names
        BY RequiredAre, Zenon DEF Names, Optional
    <2>3. "key-1" \notin Names
        BY RequiredAre, Zenon DEF Names, Optional
    <2>4. "sha" # Quote /\ "sig" # Quote /\ "key-1" # Quote
        BY Zenon DEF Quote
    <2> QED BY <2>1, <2>2, <2>3, <2>4, Zenon DEF HasQuote
<1>8. \A word \in {"sha", "sig", "key-1"} : ~HasQuote(word)
    BY ONLY <1>7, Zenon
<1> QED BY ONLY <1>1, <1>2, <1>3, <1>4, <1>5, <1>6, <1>8, Zenon

\* A text of one symbol.
LEMMA OneSymbol ==
    ASSUME NEW S, NEW s \in S, ~HasQuote(s) PROVE <<s>> \in Seq(S) /\ Unquoted(<<s>>)
<1>1. <<s>> \in Seq(S) /\ Len(<<s>>) = 1 /\ <<s>>[1] = s
    OBVIOUS
<1> QED BY <1>1 DEF Unquoted

\* What the values of members are.
LEMMA StringsWritten ==
    ASSUME NEW p \in Packets, NEW name \in StringFields
    PROVE  /\ Value(p, name) = Quoted(StringOf(p, name))
           /\ StringOf(p, name) \in Seq(Signs) /\ Nameless(StringOf(p, name))
           /\ name \in {"hash", "signature", "pubKeyId"} => Unquoted(StringOf(p, name))
<1>0. \A v : Unquoted(v) => Nameless(v)
    BY Zenon DEF Unquoted, Nameless, HasQuote
<1>1. PICK one, two, three : one = <<"sha">> /\ two = <<"sig">> /\ three = <<"key-1">>
    OBVIOUS
<1>2. /\ one \in Seq(Signs) /\ Unquoted(one) /\ two \in Seq(Signs) /\ Unquoted(two)
      /\ three \in Seq(Signs) /\ Unquoted(three)
    <2>1. "sha" \in Signs /\ "sig" \in Signs /\ "key-1" \in Signs
        BY Zenon DEF Signs, Symbols
    <2>2. ~HasQuote("sha") /\ ~HasQuote("sig") /\ ~HasQuote("key-1")
        BY NamesApart, Zenon
    <2> QED BY ONLY <1>1, <2>1, <2>2, OneSymbol, Zenon
<1>3. ASSUME NEW v \in {p.deviceId, p.transport, p.batchCode}
      PROVE  v \in Seq(Signs) /\ Nameless(v)
    <2>1. v \in Seq(STRING \ Names)
        BY <1>3, PacketsAssumption
    <2>2. STRING \ Names \subseteq Signs
        BY Zenon DEF Signs, Symbols
    <2>3. v \in Seq(Signs)
        BY ONLY <2>1, <2>2, SeqMonotonic
    <2>4. \A i \in 1..Len(v) : v[i] \notin Names
        BY ONLY <2>1
    <2> QED BY ONLY <2>3, <2>4 DEF Nameless
<1>4. /\ p.deviceId \in Seq(Signs) /\ Nameless(p.deviceId)
      /\ p.transport \in Seq(Signs) /\ Nameless(p.transport)
      /\ p.batchCode \in Seq(Signs) /\ Nameless(p.batchCode)
    BY ONLY <1>3
<1>11. "deviceId" \notin {"hash", "signature", "pubKeyId"}
       /\ "transport" \notin {"hash", "signature", "pubKeyId"}
       /\ "batchCode" \notin {"hash", "signature", "pubKeyId"}
    BY Zenon
<1>5. CASE name = "deviceId"
    BY <1>4, <1>5, <1>11, Zenon DEF Value, StringOf
<1>6. CASE name = "hash"
    <2>1. StringOf(p, name) = one /\ Value(p, name) = Quoted(one)
        BY <1>1, <1>6 DEF Value, StringOf
    <2> QED BY ONLY <1>0, <1>2, <2>1
<1>7. CASE name = "signature"
    <2>1. StringOf(p, name) = two /\ Value(p, name) = Quoted(two)
        BY <1>1, <1>7 DEF Value, StringOf
    <2> QED BY ONLY <1>0, <1>2, <2>1
<1>8. CASE name = "pubKeyId"
    <2>1. StringOf(p, name) = three /\ Value(p, name) = Quoted(three)
        BY <1>1, <1>8 DEF Value, StringOf
    <2> QED BY ONLY <1>0, <1>2, <2>1
<1>9. CASE name = "transport"
    <2>1. StringOf(p, name) = p.transport /\ Value(p, name) = Quoted(p.transport)
        BY <1>9 DEF Value, StringOf
    <2> QED BY ONLY <1>4, <1>9, <1>11, <2>1
<1>10. CASE name = "batchCode"
    <2>1. StringOf(p, name) = p.batchCode /\ Value(p, name) = Quoted(p.batchCode)
        BY <1>10 DEF Value, StringOf
    <2> QED BY ONLY <1>4, <1>10, <1>11, <2>1
<1> QED BY <1>5, <1>6, <1>7, <1>8, <1>9, <1>10, Zenon DEF StringFields

\* What is taken of a string is a text without quotes, and it is what AsRead
\* has of the packet.
LEMMA StringsTaken ==
    ASSUME NEW p \in Packets, NEW name \in StringFields
    PROVE  /\ TakenOf(p, name) \in Seq(Signs) /\ Unquoted(TakenOf(p, name))
           /\ Value(AsRead(p), name) = Quoted(TakenOf(p, name))
<1>1. PICK v, w : v = StringOf(p, name) /\ w = TakenOf(p, name)
    OBVIOUS
<1>2. /\ v \in Seq(Signs)
      /\ name \in {"hash", "signature", "pubKeyId"} => Unquoted(v) /\ Value(p, name) = Quoted(v)
    BY <1>1, StringsWritten
<1>3. w = BeforeQuote(v)
    BY <1>1 DEF TakenOf
<1>4. w \in Seq(Signs) /\ Unquoted(w) /\ (Unquoted(v) => w = v)
    BY ONLY <1>2, <1>3, BeforeQuoteIs
<1>5. Value(AsRead(p), name) = Quoted(w)
    <2>1. CASE name \in {"hash", "signature", "pubKeyId"}
        <3>1. Value(AsRead(p), name) = Value(p, name)
            BY <2>1 DEF Value
        <3> QED BY <1>2, <1>4, <2>1, <3>1
    <2>2. CASE name = "deviceId"
        <3>1. Value(AsRead(p), name) = Quoted(AsRead(p).deviceId) /\ v = p.deviceId
            BY <1>1, <2>2 DEF Value, StringOf
        <3> QED BY <1>3, <3>1 DEF AsRead
    <2>3. CASE name = "transport"
        <3>1. Value(AsRead(p), name) = Quoted(AsRead(p).transport) /\ v = p.transport
            BY <1>1, <2>3 DEF Value, StringOf
        <3> QED BY <1>3, <3>1 DEF AsRead
    <2>4. CASE name = "batchCode"
        <3>1. Value(AsRead(p), name) = Quoted(AsRead(p).batchCode) /\ v = p.batchCode
            BY <1>1, <2>4 DEF Value, StringOf
        <3> QED BY <1>3, <3>1 DEF AsRead
    <2> QED BY <2>1, <2>2, <2>3, <2>4 DEF StringFields
<1> QED BY <1>1, <1>4, <1>5

\* The other two members are the same in it.
LEMMA OthersTaken ==
    ASSUME NEW p, NEW name \in {"timestamp", "telemetry"}
    PROVE  Value(AsRead(p), name) = Value(p, name)
BY DEF Value, AsRead

\* A number and an object are written without quotes around.
LEMMA OthersWritten ==
    ASSUME NEW p \in Packets
    PROVE  /\ Value(p, "timestamp") = Decimal[p.timestamp] /\ p.timestamp \in Nat
           /\ Decimal[p.timestamp] \in Seq(Digits) /\ Len(Decimal[p.timestamp]) >= 1
           /\ Value(p, "telemetry") = p.telemetryJson /\ p.telemetryJson \in Seq(Signs)
           /\ p.telemetryJson[1] = Opening /\ WholeObject(p.telemetryJson)
<1>1. p.timestamp \in Nat /\ p.telemetryJson \in Seq(STRING) /\ IsObject(p.telemetryJson)
    BY PacketsAssumption
<1>2. STRING \subseteq Signs
    BY Zenon DEF Signs, Symbols
<1>3. p.telemetryJson \in Seq(Signs)
    BY ONLY <1>1, <1>2, SeqMonotonic
<1>4. p.telemetryJson[1] = Opening
    BY <1>1, Zenon DEF IsObject, Opening
<1>5. WholeObject(p.telemetryJson)
    BY PacketsReadable DEF Readable
<1>6. Decimal[p.timestamp] \in Seq(Digits) /\ Len(Decimal[p.timestamp]) >= 1
    BY <1>1, DecimalIsRead
<1>7. Value(p, "timestamp") = Decimal[p.timestamp] /\ Value(p, "telemetry") = p.telemetryJson
    BY DEF Value
<1> QED BY ONLY <1>1, <1>3, <1>4, <1>5, <1>6, <1>7

-----------------------------------------------------------------------------
(* Where the members of a body are *)

\* A text of these symbols.
LEMMA TextOver ==
    ASSUME NEW S, NEW v \in Seq(S), NEW B, \A i \in 1..Len(v) : v[i] \in B
    PROVE  v \in Seq(B)
OBVIOUS

\* In the value of a member no name stands, the telemetry object aside.
LEMMA ValueWithout ==
    ASSUME NEW p \in Packets, NEW name \in PacketNames, NEW key \in PacketNames,
           name = "telemetry" =>
               \A i \in 1..Len(p.telemetryJson) : p.telemetryJson[i] # key,
           NEW v, v = Value(p, name)
    PROVE  v \in Seq(Signs) /\ \A i \in 1..Len(v) : v[i] # key
<1>1. key \in Names /\ key # Quote
    BY FieldsAre, NamesApart
<1>2. CASE name \in StringFields
    <2>1. PICK w : w = StringOf(p, name)
        OBVIOUS
    <2>2. v = Quoted(w) /\ w \in Seq(Signs) /\ Nameless(w)
        BY <1>2, <2>1, StringsWritten
    <2>3. Quote \in Signs
        BY SignsAre
    <2>4. Wraps(v, Quote, w, Quote)
        BY <2>2 DEF Wraps, Quoted
    <2>5. /\ v \in Seq(Signs) /\ Len(w) \in Nat /\ Len(v) = Len(w) + 2
          /\ v[1] = Quote /\ v[Len(w) + 2] = Quote /\ Part(v, 1, w)
        BY ONLY <2>2, <2>3, <2>4, Wrapped
    <2>6. \A i \in 1..Len(w) : v[1 + i] = w[i] /\ w[i] # key
        <3>1. \A i \in 1..Len(w) : v[1 + i] = w[i]
            BY <2>5 DEF Part
        <3>2. \A i \in 1..Len(w) : w[i] # key
            BY <1>1, <2>2, Zenon DEF Nameless
        <3> QED BY <3>1, <3>2
    <2>7. ASSUME NEW i \in 1..Len(v) PROVE v[i] # key
        <3>1. CASE i = 1 \/ i = Len(w) + 2
            BY <1>1, <2>5, <3>1
        <3>2. CASE i # 1 /\ i # Len(w) + 2
            <4>1. i - 1 \in 1..Len(w) /\ 1 + (i - 1) = i
                BY <2>5, <2>7, <3>2
            <4> QED BY <2>6, <4>1
        <3> QED BY <3>1, <3>2
    <2> QED BY <2>5, <2>7
<1>3. CASE name = "timestamp"
    <2>1. v \in Seq(Digits)
        BY <1>3, OthersWritten
    <2>2. Digits \subseteq Signs /\ \A d \in Digits : d # key
        BY <1>1, SignsAre, NamesApart
    <2>3. v \in Seq(Signs)
        BY ONLY <2>1, <2>2, SeqMonotonic
    <2>4. \A i \in 1..Len(v) : v[i] \in Digits
        BY ONLY <2>1
    <2> QED BY <2>2, <2>3, <2>4
<1>4. CASE name = "telemetry"
    <2>1. v = p.telemetryJson /\ v \in Seq(Signs)
        BY <1>4, OthersWritten
    <2> QED BY <1>4, <2>1
<1> QED BY <1>2, <1>3, <1>4, FieldsAre

\* A member holds no other name than its own, unless its value does,
LEMMA MemberWithout ==
    ASSUME NEW p \in Packets, NEW name \in PacketNames, NEW key \in PacketNames,
           name = "telemetry" =>
               \A i \in 1..Len(p.telemetryJson) : p.telemetryJson[i] # key,
           NEW m, m = Member(name, Value(p, name))
    PROVE  m \in Seq(Signs) /\ (name # key => m \in Seq(Signs \ {key}))
<1>1. PICK v : v = Value(p, name)
    OBVIOUS
<1>2. v \in Seq(Signs) /\ \A i \in 1..Len(v) : v[i] # key
    BY <1>1, ValueWithout
<1>3. name \in Signs /\ Colon \in Signs /\ Colon # key
    BY FieldsAre, SignsAre, NamesApart
<1>4. Membered(m, Signs, name, v)
    BY <1>1, <1>2, <1>3, MemberIs
<1>5. /\ m \in Seq(Signs) /\ Len(m) = Len(v) + 2 /\ Len(v) \in Nat
      /\ m[1] = name /\ m[2] = Colon /\ \A i \in 1..Len(v) : m[2 + i] = v[i]
    BY <1>4 DEF Membered
<1>6. ASSUME name # key PROVE m \in Seq(Signs \ {key})
    <2>1. ASSUME NEW i \in 1..Len(m) PROVE m[i] \in Signs \ {key}
        <3>1. m[i] \in Signs
            BY <1>5
        <3>2. CASE i = 1 \/ i = 2
            BY <1>3, <1>5, <1>6, <3>1, <3>2
        <3>3. CASE i # 1 /\ i # 2
            <4>1. i - 2 \in 1..Len(v) /\ 2 + (i - 2) = i
                BY <1>5, <2>1, <3>3
            <4>2. m[i] # key
                BY <1>2, <1>5, <4>1
            <4> QED BY <3>1, <4>2
        <3> QED BY <3>2, <3>3
    <2> QED BY ONLY <1>5, <2>1, TextOver
<1> QED BY <1>5, <1>6

\* and it consists of signs.
LEMMA MemberIn ==
    ASSUME NEW p \in Packets, NEW name \in PacketNames
    PROVE  /\ Value(p, name) \in Seq(Signs) /\ name \in Signs
           /\ Member(name, Value(p, name)) \in Seq(Signs)
<1>1. name \in Signs /\ Colon \in Signs
    BY FieldsAre, SignsAre
<1>2. Value(p, name) \in Seq(Signs)
    <2>1. CASE name = "telemetry"
        BY <2>1, OthersWritten
    <2>2. CASE name # "telemetry"
        BY <2>2, ValueWithout
    <2> QED BY <2>1, <2>2
<1> QED BY <1>1, <1>2, MemberIs DEF Membered

\* The place of a member in the order, 0 for none, and whether its name is
\* found in the telemetry object before.
Placed(order, name) == SelectInSeq(order, LAMBDA x : x = name)
\* The member is hidden: its name stands in the telemetry object, and before.
Hides(p, order, name) ==
    /\ Find(p.telemetryJson, 1, name) # 0
    /\ Placed(order, name) = 0 \/ Placed(order, "telemetry") < Placed(order, name)

\* Where a member is placed, and that it is the first.
LEMMA PlacedIs ==
    ASSUME NEW S, NEW order \in Seq(S), NEW name, NEW k, k = Placed(order, name)
    PROVE  /\ k = 0 => \A i \in 1..Len(order) : order[i] # name
           /\ k # 0 => /\ k \in 1..Len(order) /\ order[k] = name
                       /\ \A i \in 1..(k - 1) : order[i] # name
           /\ k \in Nat
<1>1. PICK I : I = {i \in 1..Len(order) : order[i] = name}
    OBVIOUS
<1>2. k = IF I # {} THEN Min(I) ELSE 0
    BY <1>1 DEF Placed, SelectInSeq
<1>3. I \in SUBSET Nat /\ Len(order) \in Nat
    BY <1>1
<1>4. CASE I = {}
    BY <1>1, <1>2, <1>4
<1>5. CASE I # {}
    <2>1. k \in I /\ \A i \in I : k <= i
        BY <1>2, <1>3, <1>5, LeastIs
    <2> QED BY <1>1, <1>3, <2>1
<1> QED BY <1>4, <1>5

\* The members of a body as they are written.
Members(p, order) == [i \in DOMAIN order |-> Member(order[i], Value(p, order[i]))]

\* A body is the object of its members.
LEMMA MembersAre ==
    ASSUME NEW p \in Packets, NEW order \in Orders, NEW members, members = Members(p, order)
    PROVE  /\ Body(p, order) = JsonObject(members)
           /\ members \in Seq(Seq(Signs)) /\ Len(members) = Len(order) /\ Len(order) \in Nat
           /\ \A i \in 1..Len(order) :
                 order[i] \in PacketNames /\ members[i] = Member(order[i], Value(p, order[i]))
<1>1. order \in Seq(PacketNames)
    BY OrdersAssumption DEF PacketNames
<1>2. DOMAIN order = 1..Len(order) /\ Len(order) \in Nat
    BY <1>1
<1>3. \A i \in 1..Len(order) : order[i] \in PacketNames
    BY <1>1
<1>4. \A i \in 1..Len(order) : members[i] = Member(order[i], Value(p, order[i]))
    BY <1>2 DEF Members
<1>5. \A i \in 1..Len(order) : members[i] \in Seq(Signs)
    BY <1>3, <1>4, MemberIn
<1>6. members \in Seq(Seq(Signs)) /\ Len(members) = Len(order)
    <2>1. members = [i \in 1..Len(order) |-> members[i]]
        BY <1>2 DEF Members
    <2> QED BY ONLY <1>2, <1>5, <2>1
<1>7. Body(p, order) = JsonObject(members)
    BY Zenon DEF Body, Members
<1> QED BY <1>2, <1>3, <1>4, <1>6, <1>7

\* The parts of an object.
LEMMA ObjectOver ==
    ASSUME NEW S, Opening \in S, Closing \in S, Comma \in S, NEW members \in Seq(Seq(S))
    PROVE  JsonObject(members) \in Seq(S)
<1>1. PICK x, seqs : x = JsonObject(members) /\ seqs = Listed(members)
    OBVIOUS
<1>2. ListsMembers(x, seqs, S, members)
    BY <1>1, ListedAre
<1>3. seqs \in Seq(Seq(S)) /\ Wraps(x, Opening, FlattenSeq(seqs), Closing)
    BY <1>2 DEF ListsMembers
<1>4. FlattenSeq(seqs) \in Seq(S)
    BY <1>3, FlattenIs
<1>5. x \in Seq(S)
    BY ONLY Opening \in S, Closing \in S, <1>3, <1>4, Wrapped
<1> QED BY <1>1, <1>5

\* Braces and commas are signs, and no name of a member.
LEMMA MarksIn ==
    ASSUME NEW key \in PacketNames
    PROVE  /\ {Opening, Closing, Comma} \subseteq Signs \ {key}
           /\ {Opening, Closing, Comma} \subseteq Signs
<1>1. key \in Names
    BY FieldsAre
<1> QED BY <1>1, NamesApart, SignsAre

\* A body consists of signs.
LEMMA BodySigns ==
    ASSUME NEW p \in Packets, NEW order \in Orders
    PROVE  Body(p, order) \in Seq(Signs)
<1>1. PICK members : members = Members(p, order)
    OBVIOUS
<1>2. Body(p, order) = JsonObject(members) /\ members \in Seq(Seq(Signs))
    BY <1>1, MembersAre
<1>3. Opening \in Signs /\ Closing \in Signs /\ Comma \in Signs
    BY SignsAre
<1> QED BY <1>2, <1>3, ObjectOver

\* A member stands in the body, a first of its name that nothing hides behind
\* no other place with that name.
LEMMA MemberFound ==
    ASSUME NEW p \in Packets, NEW order \in Orders, NEW key \in PacketNames,
           Placed(order, key) # 0, NEW m, m = Member(key, Value(p, key)), NEW body, body = Body(p, order)
    PROVE  /\ \E s, last : Stands(body, s, m, Signs, last)
           /\ ~Hides(p, order, key) => \E s, last : Stands(body, s, m, Signs \ {key}, last)
<1>1. PICK members : members = Members(p, order)
    OBVIOUS
<1>2. /\ body = JsonObject(members)
      /\ members \in Seq(Seq(Signs)) /\ Len(members) = Len(order) /\ Len(order) \in Nat
      /\ \A i \in 1..Len(order) :
            order[i] \in PacketNames /\ members[i] = Member(order[i], Value(p, order[i]))
    BY <1>1, MembersAre
<1>3. PICK k : k = Placed(order, key)
    OBVIOUS
<1>4. k \in 1..Len(order) /\ order[k] = key /\ \A i \in 1..(k - 1) : order[i] # key
    BY <1>3, OrdersAssumption, PlacedIs
<1>5. k \in 1..Len(members) /\ members[k] = m
    BY <1>2, <1>4
<1>6. Opening \in Signs /\ Closing \in Signs /\ Comma \in Signs
    BY SignsAre
<1>7. \E s : Stands(body, s, m, Signs, k = Len(members))
    <2>1. \A j \in 1..(k - 1) : members[j] \in Seq(Signs)
        BY <1>2, <1>4
    <2>2. \E s : Stands(body, s, members[k], Signs, k = Len(members))
        BY ONLY <1>2, <1>5, <1>6, <2>1, MemberStands
    <2> QED BY <1>5, <2>2
<1>8. ASSUME ~Hides(p, order, key)
      PROVE  \E s : Stands(body, s, m, Signs \ {key}, k = Len(members))
    <2>1. ASSUME NEW j \in 1..(k - 1) PROVE members[j] \in Seq(Signs \ {key})
        <3>1. j \in 1..Len(order) /\ order[j] # key /\ order[j] \in PacketNames
              /\ members[j] = Member(order[j], Value(p, order[j]))
            BY <1>2, <1>4
        <3>2. ASSUME order[j] = "telemetry"
              PROVE  \A i \in 1..Len(p.telemetryJson) : p.telemetryJson[i] # key
            <4>1. PICK t : t = Placed(order, "telemetry")
                OBVIOUS
            <4>2. /\ t = 0 => \A i \in 1..Len(order) : order[i] # "telemetry"
                  /\ t # 0 => /\ t \in 1..Len(order)
                              /\ \A i \in 1..(t - 1) : order[i] # "telemetry"
                BY <4>1, OrdersAssumption, PlacedIs
            <4>3. t # 0 /\ t \in Nat
                BY <3>1, <3>2, <4>2
            <4>4. t <= j
                BY <1>2, <3>1, <3>2, <4>2
            <4>5. t < k
                BY <1>4, <3>1, <4>2, <4>3, <4>4
            <4>6. Find(p.telemetryJson, 1, key) = 0
                BY <1>3, <1>8, <4>1, <4>5 DEF Hides
            <4>7. p.telemetryJson \in Seq(Signs)
                BY OthersWritten
            <4> QED BY ONLY <4>6, <4>7, FindNone
        <3>3. PICK name \in PacketNames : name = order[j]
            BY <3>1
        <3>4. name # key /\ members[j] = Member(name, Value(p, name))
            BY ONLY <3>1, <3>3
        <3>5. name = "telemetry" => \A i \in 1..Len(p.telemetryJson) : p.telemetryJson[i] # key
            BY <3>2, <3>3
        <3> QED BY ONLY p \in Packets, key \in PacketNames, name \in PacketNames, <3>4, <3>5,
                        MemberWithout
    <2>2. Opening \in Signs \ {key} /\ Comma \in Signs \ {key}
        BY MarksIn
    <2>3. \E s : Stands(body, s, members[k], Signs \ {key}, k = Len(members))
        BY ONLY <1>2, <1>5, <1>6, <2>1, <2>2, MemberStands
    <2> QED BY <1>5, <2>3
<1> QED BY <1>7, <1>8

\* Without such a member the name is nowhere.
LEMMA MemberAbsent ==
    ASSUME NEW p \in Packets, NEW order \in Orders, NEW key \in PacketNames,
           Placed(order, key) = 0, ~Hides(p, order, key), NEW body, body = Body(p, order)
    PROVE  \A i \in 1..Len(body) : body[i] # key
<1>1. PICK members : members = Members(p, order)
    OBVIOUS
<1>2. /\ body = JsonObject(members)
      /\ members \in Seq(Seq(Signs)) /\ Len(members) = Len(order) /\ Len(order) \in Nat
      /\ \A i \in 1..Len(order) :
            order[i] \in PacketNames /\ members[i] = Member(order[i], Value(p, order[i]))
    BY <1>1, MembersAre
<1>3. \A i \in 1..Len(order) : order[i] # key
    BY OrdersAssumption, PlacedIs
<1>4. \A i \in 1..Len(p.telemetryJson) : p.telemetryJson[i] # key
    <2>1. Find(p.telemetryJson, 1, key) = 0
        BY DEF Hides
    <2>2. p.telemetryJson \in Seq(Signs)
        BY OthersWritten
    <2> QED BY ONLY <2>1, <2>2, FindNone
<1>5. ASSUME NEW i \in 1..Len(members) PROVE members[i] \in Seq(Signs \ {key})
    <2>1. PICK name \in PacketNames : name = order[i]
        BY <1>2
    <2>2. name # key /\ members[i] = Member(name, Value(p, name))
        BY ONLY <1>2, <1>3, <1>5, <2>1
    <2> QED BY ONLY p \in Packets, key \in PacketNames, name \in PacketNames, <1>4, <2>2,
                    MemberWithout
<1>6. members \in Seq(Seq(Signs \ {key}))
    <2>1. PICK T : T = Seq(Signs \ {key})
        OBVIOUS
    <2>2. \A i \in 1..Len(members) : members[i] \in T
        BY <1>5, <2>1
    <2> QED BY <1>2, <2>1, <2>2, TextOver
<1>7. Opening \in Signs \ {key} /\ Closing \in Signs \ {key} /\ Comma \in Signs \ {key}
    BY MarksIn
<1>8. body \in Seq(Signs \ {key})
    BY ONLY <1>2, <1>6, <1>7, ObjectOver
<1> QED BY <1>8

-----------------------------------------------------------------------------
(* What is read of a body *)

\* Where a member with a string stands it is, symbol by symbol, up to a quote.
LEMMA StringStands ==
    ASSUME NEW p \in Packets, NEW order \in Orders, NEW key \in StringFields,
           NEW body, body = Body(p, order), NEW B, NEW s, NEW last,
           Stands(body, s, Member(key, Value(p, key)), B, last)
    PROVE  Carries(body, s, key, TakenOf(p, key)) /\ \A k \in 1..s : body[k] \in B
<1>1. PICK v : v = StringOf(p, key)
    OBVIOUS
<1>2. Value(p, key) = Quoted(v) /\ v \in Seq(Signs) /\ Nameless(v)
    BY <1>1, StringsWritten
<1>3. key \in Signs /\ Colon \in Signs /\ Quote \in Signs
    BY FieldsAre, SignsAre
<1>4. Part(body, s, Member(key, Quoted(v))) /\ \A k \in 1..s : body[k] \in B
    BY <1>2 DEF Stands
<1>5. Carries(body, s, key, v)
    BY ONLY <1>2, <1>3, <1>4, CarriesIs
<1>6. PICK w : w = BeforeQuote(v)
    OBVIOUS
<1>7. Carries(body, s, key, w)
    BY ONLY <1>2, <1>5, <1>6, CarriesBefore
<1> QED BY <1>1, <1>4, <1>6, <1>7 DEF TakenOf

\* A string that was sent and that nothing hides comes out as it was written, up
\* to the first quote in it; of a body that was cut it does so, too, or not at all.
LEMMA StringOfBody ==
    ASSUME NEW p \in Packets, NEW order \in Orders, NEW key \in StringFields,
           ~Hides(p, order, key), NEW body, body = Body(p, order)
    PROVE  /\ ExtractStringValue(body, key) =
                  IF Placed(order, key) = 0 THEN None ELSE TakenOf(p, key)
           /\ \A b, m : Cut(b, body, m) =>
                  /\ ExtractStringValue(b, key) \in {None, TakenOf(p, key)}
                  /\ Placed(order, key) = 0 => ExtractStringValue(b, key) = None
<1>1. key \in PacketNames /\ key \in Names
    BY FieldsAre
<1>2. body \in Seq(Signs) /\ Len(body) \in Nat
    BY BodySigns
<1>3. CASE Placed(order, key) = 0
    <2>1. \A i \in 1..Len(body) : body[i] # key
        BY <1>1, <1>3, MemberAbsent
    <2>2. ASSUME NEW b, NEW m, Cut(b, body, m) PROVE ExtractStringValue(b, key) = None
        <3>1. m \in 0..Len(body) /\ b = SubSeq(body, 1, m)
            BY <2>2 DEF Cut
        <3>2. IsText(b) /\ Len(b) = m /\ \A i \in 1..m : b[i] = body[i]
            BY ONLY <1>2, <3>1, PrefixIs
        <3>3. \A k \in 1..Len(b) : b[k] # key
            BY ONLY <1>2, <2>1, <3>1, <3>2
        <3> QED BY ONLY <3>2, <3>3, StringMissing
    <2>3. ExtractStringValue(body, key) = None
        <3>1. IsText(body)
            BY <1>2 DEF IsText
        <3> QED BY ONLY <2>1, <3>1, StringMissing
    <2> QED BY <1>3, <2>2, <2>3
<1>4. CASE Placed(order, key) # 0
    <2>1. PICK s, last : Stands(body, s, Member(key, Value(p, key)), Signs \ {key}, last)
        BY <1>1, <1>4, MemberFound
    <2>2. PICK v : v = TakenOf(p, key)
        OBVIOUS
    <2>3. Carries(body, s, key, v) /\ \A k \in 1..s : body[k] \in Signs \ {key}
        BY <2>1, <2>2, StringStands
    <2>4. v \in Seq(Signs) /\ Unquoted(v)
        BY <2>2, StringsTaken
    <2>5. \A k \in 1..s : body[k] # key
        BY ONLY <2>3
    <2>6. ExtractStringValue(body, key) = v
        BY ONLY <1>2, <2>3, <2>4, <2>5, StringRead
    <2>7. ASSUME NEW b, NEW m, Cut(b, body, m) PROVE ExtractStringValue(b, key) \in {None, v}
        BY ONLY <1>1, <1>2, <2>3, <2>4, <2>5, <2>7, StringCut
    <2> QED BY <1>4, <2>2, <2>6, <2>7
<1> QED BY <1>3, <1>4

\* Also one that the telemetry object hides is found, if only as another.
LEMMA StringIsFound ==
    ASSUME NEW p \in Packets, NEW order \in Orders, NEW key \in StringFields,
           Placed(order, key) # 0, NEW body, body = Body(p, order)
    PROVE  ExtractStringValue(body, key) # None
<1>1. key \in PacketNames
    BY FieldsAre
<1>2. body \in Seq(Signs) /\ Len(body) \in Nat /\ IsText(body)
    BY BodySigns DEF IsText
<1>3. PICK s, last : Stands(body, s, Member(key, Value(p, key)), Signs, last)
    BY <1>1, MemberFound
<1>4. PICK v : v = TakenOf(p, key)
    OBVIOUS
<1>5. Carries(body, s, key, v)
    BY <1>3, <1>4, StringStands
<1>6. v \in Seq(Signs) /\ Unquoted(v)
    BY <1>4, StringsTaken
<1>7. PICK I, begin : I = StringsAt(body, key) /\ begin = ValueAt(body, Min(I))
    OBVIOUS
<1>8. s + 1 \in I
    BY ONLY <1>2, <1>5, <1>6, <1>7, StringRead
<1>9. /\ Min(I) \in I /\ begin \in 1..Len(body)
      /\ ExtractStringValue(body, key) =
            SubSeq(body, begin + 1, ClosingQuote(body, begin + 1) - 1)
    BY ONLY <1>2, <1>7, <1>8, StringFound
<1>10. PICK k : k = ClosingQuote(body, begin + 1)
    OBVIOUS
<1>11. k # 0
    BY <1>7, <1>9, <1>10 DEF StringsAt
<1>12. k \in (begin + 1)..Len(body)
    <2>1. PICK J : J = {i \in (begin + 1)..Len(body) : HasQuote(body[i])}
        OBVIOUS
    <2>2. k = IF J # {} THEN Min(J) ELSE 0
        BY <1>10, <2>1 DEF ClosingQuote, SelectInSubSeq
    <2>3. J \in SUBSET Nat
        BY <1>2, <1>9, <2>1
    <2> QED BY <1>11, <2>1, <2>2, <2>3, LeastIs
<1>13. SubSeq(body, begin + 1, k - 1) \in Seq(Signs)
    <2>1. Within(SubSeq(body, begin + 1, k - 1), body)
        <3>1. begin + 1 \in Nat \ {0} /\ k - 1 \in Nat /\ k - 1 <= Len(body)
            BY <1>2, <1>9, <1>12
        <3> QED BY <3>1 DEF Within
    <2> QED BY ONLY <1>2, <2>1, WithinIs
<1>14. SubSeq(body, begin + 1, k - 1) # None
    BY <1>13, TextIsSome
<1> QED BY ONLY <1>9, <1>10, <1>14

\* So do the number, unless it is too large, and the object.
LEMMA TimestampOfBody ==
    ASSUME NEW p \in Packets, NEW order \in Orders,
           ~Hides(p, order, "timestamp"), NEW body, body = Body(p, order)
    PROVE  ExtractUnsignedValue(body, "timestamp") =
               IF Placed(order, "timestamp") # 0 /\ p.timestamp < Word THEN p.timestamp ELSE None
<1>1. PICK key : key = "timestamp"
    OBVIOUS
<1>2. key \in PacketNames /\ key \in Signs
    BY <1>1, FieldsAre, SignsAre
<1>3. body \in Seq(Signs) /\ Len(body) \in Nat /\ IsText(body)
    BY BodySigns DEF IsText
<1>4. CASE Placed(order, key) = 0
    <2>1. \A i \in 1..Len(body) : body[i] # key
        BY <1>1, <1>2, <1>4, MemberAbsent
    <2>2. ExtractUnsignedValue(body, key) = None
        BY ONLY <1>3, <2>1, OthersMissing
    <2> QED BY <1>1, <1>4, <2>2
<1>5. CASE Placed(order, key) # 0
    <2>1. PICK d : d = Decimal[p.timestamp]
        OBVIOUS
    <2>2. /\ Value(p, key) = d /\ p.timestamp \in Nat /\ d \in Seq(Digits) /\ Len(d) >= 1
        BY <1>1, <2>1, OthersWritten
    <2>3. d \in Seq(Signs) /\ Colon \in Signs
        <3>1. Digits \subseteq Signs /\ Colon \in Signs
            BY SignsAre
        <3> QED BY ONLY <2>2, <3>1, SeqMonotonic
    <2>4. PICK m : m = Member(key, d)
        OBVIOUS
    <2>5. PICK s, last : Stands(body, s, m, Signs \ {key}, last)
        <3>1. ~Hides(p, order, key) /\ m = Member(key, Value(p, key))
            BY <1>1, <2>2, <2>4
        <3> QED BY <1>2, <1>5, <3>1, MemberFound
    <2>6. /\ m \in Seq(Signs) /\ Len(m) = Len(d) + 2 /\ Len(d) \in Nat
          /\ m[1] = key /\ m[2] = Colon /\ \A i \in 1..Len(d) : m[2 + i] = d[i]
        <3>1. Membered(m, Signs, key, d)
            BY ONLY <1>2, <2>3, <2>4, MemberIs
        <3> QED BY ONLY <3>1 DEF Membered
    <2>7. /\ s \in Nat /\ s + Len(m) <= Len(body) /\ \A i \in 1..Len(m) : body[s + i] = m[i]
          /\ \A k \in 1..s : body[k] \in Signs \ {key}
          /\ s + Len(m) + 1 <= Len(body) /\ body[s + Len(m) + 1] \in {Closing, Comma}
        BY <2>5, Zenon DEF Stands, Part
    <2>8. Numbers(body, s, key, d)
        <3>1. PICK l : l = Len(d)
            OBVIOUS
        <3>2. l \in Nat /\ l >= 1 /\ Len(m) = l + 2
            BY <2>2, <2>6, <3>1
        <3>3. body[s + 1] = key /\ body[s + 2] = Colon
            BY ONLY <2>6, <2>7, <3>2
        <3>4. ASSUME NEW i \in 1..l PROVE body[s + 2 + i] = d[i]
            <4>1. 2 + i \in 1..Len(m) /\ s + (2 + i) = s + 2 + i
                BY ONLY <2>7, <3>2, <3>4
            <4> QED BY ONLY <2>6, <2>7, <3>1, <3>4, <4>1
        <3>5. s + Len(m) + 1 = s + l + 3
            BY ONLY <2>7, <3>2
        <3>6. Closing \notin Digits /\ Comma \notin Digits
            BY Zenon DEF Digits, Closing, Comma
        <3>7. s + l + 3 <= Len(body) /\ body[s + l + 3] \notin Digits
            BY ONLY <2>7, <3>5, <3>6
        <3> QED BY ONLY <2>7, <3>1, <3>2, <3>3, <3>4, <3>7 DEF Numbers
    <2>9. \A k \in 1..s : body[k] # key
        BY ONLY <2>7
    <2>10. ExtractUnsignedValue(body, key) = IF p.timestamp < Word THEN p.timestamp ELSE None
        BY ONLY <1>3, <2>1, <2>2, <2>8, <2>9, NumberRead
    <2> QED BY <1>1, <1>5, <2>10
<1> QED BY <1>1, <1>4, <1>5

\* The object is never hidden, since nothing before it holds its name.
LEMMA TelemetryOfBody ==
    ASSUME NEW p \in Packets, NEW order \in Orders, NEW body, body = Body(p, order)
    PROVE  /\ Placed(order, "telemetry") # 0 =>
                  ExtractObjectValue(body, "telemetry") = p.telemetryJson
           /\ Placed(order, "telemetry") = 0 /\ ~Hides(p, order, "telemetry") =>
                  ExtractObjectValue(body, "telemetry") = None
<1>1. PICK key : key = "telemetry"
    OBVIOUS
<1>2. key \in PacketNames /\ key \in Signs
    BY <1>1, FieldsAre, SignsAre
<1>3. body \in Seq(Signs) /\ Len(body) \in Nat /\ IsText(body)
    BY BodySigns DEF IsText
<1>4. ASSUME Placed(order, key) = 0, ~Hides(p, order, key)
      PROVE  ExtractObjectValue(body, key) = None
    <2>1. \A i \in 1..Len(body) : body[i] # key
        BY <1>2, <1>4, MemberAbsent
    <2> QED BY ONLY <1>3, <2>1, OthersMissing
<1>5. ASSUME Placed(order, key) # 0
      PROVE  ExtractObjectValue(body, key) = p.telemetryJson
    <2>1. ~Hides(p, order, key)
        <3>1. PICK k : k = Placed(order, key)
            OBVIOUS
        <3>2. k \in Nat
            BY <3>1, OrdersAssumption, PlacedIs
        <3>3. ~(k < k) /\ k # 0
            BY <1>5, <3>1, <3>2
        <3> QED BY <1>1, <3>1, <3>3 DEF Hides
    <2>2. PICK v : v = p.telemetryJson
        OBVIOUS
    <2>3. Value(p, key) = v /\ v \in Seq(Signs) /\ v[1] = Opening /\ WholeObject(v)
        BY <1>1, <2>2, OthersWritten
    <2>4. PICK s, last : Stands(body, s, Member(key, v), Signs \ {key}, last)
        BY <1>2, <1>5, <2>1, <2>3, MemberFound
    <2>5. Part(body, s, Member(key, v)) /\ \A k \in 1..s : body[k] # key
        BY <2>4 DEF Stands
    <2>6. Colon \in Signs
        BY SignsAre
    <2>7. ExtractObjectValue(body, key) = v
        BY ONLY <1>2, <1>3, <2>3, <2>5, <2>6, ExtractedObjectIs
    <2> QED BY <2>2, <2>7
<1> QED BY <1>1, <1>4, <1>5

-----------------------------------------------------------------------------
(* The body that is read of a request *)

\* A text that was read to its end is the text.
LEMMA CutWhole ==
    ASSUME NEW S, NEW body \in Seq(S), NEW b, NEW m, Cut(b, body, m), m = Len(body)
    PROVE  b = body
<1>1. b = SubSeq(body, 1, Len(body))
    BY DEF Cut
<1> QED BY <1>1

\* What is behind the head of what was read is what was read of the body.
LEMMA BodyCut ==
    ASSUME NEW S, NEW text, NEW m, NEW target, NEW x, NEW body,
           Formed(text, S, m, target, x, body),
           NEW n, NEW raw, Cut(raw, text, n), NEW h, HeadIs(h, target, x), h + 3 <= n,
           NEW l, l = n - h - 3
    PROVE  Cut(SubSeq(raw, h + 4, Len(raw)), body, l) /\ (n = Len(text) => l = Len(body))
<1>1. PICK p, q, k : p = Len(target) /\ q = Len(x) /\ k = Len(body)
    OBVIOUS
<1>2. /\ text \in Seq(S) /\ body \in Seq(S) /\ p \in Nat /\ q \in Nat /\ k \in Nat
      /\ Len(text) = p + q + k + 10 /\ \A i \in 1..k : text[p + q + 10 + i] = body[i]
    BY <1>1 DEF Formed
<1>3. h = p + q + 7 /\ n \in 0..Len(text) /\ raw = SubSeq(text, 1, n) /\ h \in Nat /\ n \in Nat
    BY <1>1, <1>2 DEF HeadIs, Cut
<1>4. IsText(raw) /\ Len(raw) = n /\ \A i \in 1..n : raw[i] = text[i]
    BY ONLY <1>2, <1>3, PrefixIs
<1>5. l \in 0..k /\ l \in Nat /\ n = h + 3 + l /\ (n = Len(text) => l = k)
    BY ONLY <1>2, <1>3, h + 3 <= n, l = n - h - 3
<1>6. PICK u, v, a : u = SubSeq(raw, a, n) /\ v = SubSeq(body, 1, l) /\ a = h + 4
    OBVIOUS
<1>7. IsText(v) /\ Len(v) = l /\ \A i \in 1..l : v[i] = body[i]
    <2>1. l \in 0..Len(body)
        BY <1>1, <1>5
    <2> QED BY ONLY <1>2, <1>6, <2>1, PrefixIs
<1>8. u = v
    <2>1. CASE l = 0
        <3>1. n < a
            BY <1>3, <1>5, <1>6, <2>1
        <3>2. u = <<>>
            BY ONLY <1>3, <1>6, <3>1
        <3>3. v = <<>>
            BY ONLY <1>6, <2>1
        <3> QED BY <3>2, <3>3
    <2>2. CASE l # 0
        <3>1. a \in Nat /\ n \in Nat /\ a <= n /\ n - a + 1 = l
            <4>1. h \in Nat /\ n \in Nat /\ l \in Nat /\ n = h + 3 + l /\ l # 0 /\ a = h + 4
                BY <1>3, <1>5, <1>6, <2>2
            <4> QED BY ONLY <4>1
        <3>2. IsText(u)
            BY ONLY <1>6, <3>1, TextOfPart
        <3>3. Len(u) = n - a + 1
            BY ONLY <1>6, <3>1, TextOfPart
        <3>4. \A i \in 1..Len(u) : u[i] = raw[a + i - 1]
            BY ONLY <1>6, <3>1, TextOfPart
        <3>5. ASSUME NEW i \in 1..l PROVE u[i] = v[i]
            <4>1. a + i - 1 = p + q + 10 + i /\ a + i - 1 \in 1..n /\ i \in 1..k
                BY ONLY <1>2, <1>3, <1>5, <1>6, i \in 1..l
            <4>2. u[i] = raw[a + i - 1]
                BY <3>1, <3>3, <3>4
            <4>3. raw[a + i - 1] = text[a + i - 1]
                BY <1>4, <4>1
            <4>4. text[p + q + 10 + i] = body[i]
                BY <1>2, <4>1
            <4> QED BY <1>7, <4>1, <4>2, <4>3, <4>4
        <3>6. PICK U, V : u \in Seq(U) /\ v \in Seq(V)
            BY <1>7, <3>2 DEF IsText
        <3> QED BY ONLY <1>5, <1>7, <3>1, <3>3, <3>5, <3>6
    <2> QED BY <2>1, <2>2
<1>9. Cut(v, body, l)
    BY <1>1, <1>5, <1>6 DEF Cut
<1> QED BY ONLY <1>1, <1>4, <1>5, <1>6, <1>8, <1>9

\* What is read of a request that a device sent: as much of the body as came
\* with it; if all came there is a request (http_server.cpp:138-164).
ReadsBody(raw, body, whole) ==
    /\ ParseHttpRequest(raw) # None =>
          \E m : Cut(ParseHttpRequest(raw).body, body, m) /\ (whole => m = Len(body))
    /\ whole => ParseHttpRequest(raw) # None

\* Every request of a device is read so, wherever it was cut.
LEMMA PostRead ==
    ASSUME NEW s \in Posts, NEW n \in 0..Len(s.text), NEW raw, raw = SubSeq(s.text, 1, n)
    PROVE  \E p \in Packets, order \in Orders :
              /\ s.packet = p /\ s.order = order
              /\ ReadsBody(raw, Body(p, order), n = Len(s.text))
<1>1. PICK p \in Packets, order \in Orders, length \in Lengths :
        /\ s.text = RequestText("POST", <<"/api/v1/ingest">>, length, Body(p, order))
        /\ s.packet = p /\ s.order = order
    BY PostIs
<1>2. PICK m, t, target, body, text :
        /\ m = "POST" /\ t = "/api/v1/ingest" /\ target = <<t>>
        /\ body = Body(p, order) /\ text = s.text
    OBVIOUS
<1>3. m \in Symbols /\ t \in Symbols
    BY <1>2, SymbolsAre
<1>4. m \notin Spaces /\ t \notin Spaces
    <2>1. m # Sp /\ m # Cr /\ m # Lf /\ t # Sp /\ t # Cr /\ t # Lf
        BY <1>2, Zenon DEF Sp, Cr, Lf
    <2> QED BY <2>1, SpacesAre
<1>5. target \in Seq(Symbols) /\ Len(target) = 1 /\ target[1] = t
    BY <1>2, <1>3
<1>6. Len(target) # 0 /\ \A i \in 1..Len(target) : target[i] \notin Spaces
    BY <1>4, <1>5
<1>7. body \in Seq(Symbols) /\ (length # None => Len(body) + length \in Nat)
    BY <1>2, BodyIs, LengthsAssumption
<1>8. /\ text = RequestText(m, target, length, body) /\ n \in 0..Len(text)
      /\ raw = SubSeq(text, 1, n)
    BY <1>1, <1>2
<1>9. PICK x, h : x = HeaderLine(length, body) /\ h = Len(target) + Len(x) + 7
    OBVIOUS
<1>10. x \in Seq(Symbols) /\ Line(x) /\ Len(x) # 0
    BY <1>7, <1>9, HeaderLineIs
<1>11. Formed(text, Symbols, m, target, x, body)
    <2>1. Written(text, m, target, x, body)
        BY <1>8, <1>9, RequestWritten
    <2> QED BY ONLY <1>3, <1>5, <1>7, <1>10, <2>1, SymbolsAre, RequestFormed
<1>12. Plainly(m, target, x) /\ Cut(raw, text, n) /\ HeadIs(h, target, x)
    BY ONLY <1>4, <1>6, <1>8, <1>9, <1>10 DEF Plainly, Cut, HeadIs
<1>13. ASSUME ParseHttpRequest(raw) # None
       PROVE  \E l : Cut(ParseHttpRequest(raw).body, body, l) /\ (n = Len(text) => l = Len(body))
    <2>1. PICK request : request = ParseHttpRequest(raw)
        OBVIOUS
    <2>2. Reached(raw, text, n, h) /\ request.body = SubSeq(raw, h + 4, Len(raw))
        BY ONLY <1>11, <1>12, <1>13, <2>1, RequestRead
    <2>3. h + 3 <= n
        BY <2>2 DEF Reached
    <2>4. PICK l : l = n - h - 3
        OBVIOUS
    <2>5. Cut(SubSeq(raw, h + 4, Len(raw)), body, l) /\ (n = Len(text) => l = Len(body))
        BY ONLY <1>11, <1>12, <2>3, <2>4, BodyCut
    <2> QED BY ONLY <2>1, <2>2, <2>5
<1>14. ASSUME n = Len(text) PROVE ParseHttpRequest(raw) # None
    <2>1. h + 3 <= n
        <3>1. /\ Len(text) = Len(target) + Len(x) + Len(body) + 10
              /\ Len(target) \in Nat /\ Len(x) \in Nat /\ Len(body) \in Nat
            BY <1>11 DEF Formed
        <3> QED BY ONLY <1>9, <1>14, <3>1
    <2>2. PICK a, b : /\ a \in Seq(Symbols) /\ b \in Seq(Symbols)
                      /\ ParseHttpRequest(raw) =
                            [method |-> a, path |-> b, body |-> SubSeq(raw, h + 4, Len(raw))]
        BY ONLY <1>11, <1>12, <2>1, RequestComes
    <2>3. PICK l : l = n - h - 3
        OBVIOUS
    <2>4. PICK c : c = SubSeq(raw, h + 4, Len(raw))
        OBVIOUS
    <2>5. Cut(c, body, l)
        BY ONLY <1>11, <1>12, <2>1, <2>3, <2>4, BodyCut
    <2>6. c \in Seq(Symbols)
        BY ONLY <1>7, <2>5 DEF Cut
    <2>7. a \in Seq(Signs) /\ b \in Seq(Signs) /\ c \in Seq(Signs)
        <3>1. Symbols \subseteq Signs
            BY SignsAre
        <3> QED BY ONLY <2>2, <2>6, <3>1, SeqMonotonic
    <2> QED BY ONLY <2>2, <2>4, <2>7, RequestIsSome
<1>15. ReadsBody(raw, body, n = Len(text))
    BY ONLY <1>13, <1>14, Zenon DEF ReadsBody
<1> QED BY <1>1, <1>2, <1>15

-----------------------------------------------------------------------------
(* The packet that is read of a body *)

\* The member of a packet that a required or an optional name stands for.
FieldOf(name) == IF name = "hash" THEN "hashHex" ELSE name

\* A required member was found, or the parser tells one that was not.
LEMMA FoundOrMissing ==
    ASSUME NEW text, NEW json, json = ParseTelemetryPacketJson(text)
    PROVE  /\ json.ok => \A key \in ToSet(Required) : Extract(text, key) # None
           /\ ~json.ok => \E key \in ToSet(Required) : Extract(text, key) = None
<1> DEFINE I == {i \in 1..Len(Required) : Extract(text, Required[i]) = None}
           missing == IF I # {} THEN Min(I) ELSE 0
<1>1. missing = SelectInSeq(Required, LAMBDA key : Extract(text, key) = None)
    BY DEF SelectInSeq
<1>2. /\ missing # 0 => json.ok = FALSE
      /\ missing = 0 => json.ok = TRUE
    <2> HIDE DEF missing
    <2> QED BY <1>1 DEF ParseTelemetryPacketJson
<1>3. I \in SUBSET Nat /\ 0 \notin I
    BY DEF Required
<1>4. missing = 0 <=> I = {}
    <2>1. I # {} => Min(I) \in I
        <3> HIDE DEF I
        <3> QED BY <1>3, LeastIs
    <2> QED BY <1>3, <2>1
<1>5. ToSet(Required) = {Required[i] : i \in 1..Len(Required)}
    <2>1. DOMAIN Required = 1..Len(Required)
        BY DEF Required
    <2> QED BY ONLY <2>1 DEF ToSet
<1>6. I = {} => \A key \in ToSet(Required) : Extract(text, key) # None
    BY <1>5
<1>7. I # {} => \E key \in ToSet(Required) : Extract(text, key) = None
    BY <1>5
<1> HIDE DEF I, missing
<1> QED BY <1>2, <1>4, <1>6, <1>7

\* What becomes of the members that were read.
LEMMA PacketHas ==
    ASSUME NEW text, NEW json, json = ParseTelemetryPacketJson(text), json.ok,
           NEW q, q = json.packet
    PROVE  /\ q.timestamp = ExtractUnsignedValue(text, "timestamp")
           /\ q.telemetryJson = ExtractObjectValue(text, "telemetry")
           /\ ExtractUnsignedValue(text, "timestamp") # None
           /\ ExtractObjectValue(text, "telemetry") # None
           /\ \A name \in {"deviceId", "hash", "signature"} :
                 /\ q[FieldOf(name)] = ExtractStringValue(text, name)
                 /\ ExtractStringValue(text, name) # None
           /\ \A name \in Optional :
                 ExtractStringValue(text, name) # None =>
                     q[FieldOf(name)] = ExtractStringValue(text, name)
<1>1. \A key \in ToSet(Required) : Extract(text, key) # None
    BY FoundOrMissing
<1>2. /\ q.deviceId = Extract(text, "deviceId") /\ q.telemetryJson = Extract(text, "telemetry")
      /\ q.hashHex = Extract(text, "hash") /\ q.signature = Extract(text, "signature")
      /\ q.timestamp = Extract(text, "timestamp")
      /\ q.pubKeyId = ValueOr(Extract(text, "pubKeyId"), <<"default-pubkey">>)
      /\ q.transport = ValueOr(Extract(text, "transport"), <<"wifi">>)
      /\ q.batchCode = ValueOr(Extract(text, "batchCode"), <<>>)
    <2>1. PICK k : k = SelectInSeq(Required, LAMBDA key : Extract(text, key) = None)
        OBVIOUS
    <2>2. k = 0
        BY <2>1 DEF ParseTelemetryPacketJson
    <2> QED BY <2>1, <2>2 DEF ParseTelemetryPacketJson
<1>3. /\ Extract(text, "deviceId") = ExtractStringValue(text, "deviceId")
      /\ Extract(text, "telemetry") = ExtractObjectValue(text, "telemetry")
      /\ Extract(text, "timestamp") = ExtractUnsignedValue(text, "timestamp")
      /\ Extract(text, "hash") = ExtractStringValue(text, "hash")
      /\ Extract(text, "signature") = ExtractStringValue(text, "signature")
      /\ Extract(text, "pubKeyId") = ExtractStringValue(text, "pubKeyId")
      /\ Extract(text, "transport") = ExtractStringValue(text, "transport")
      /\ Extract(text, "batchCode") = ExtractStringValue(text, "batchCode")
    BY DEF Extract
<1>4. /\ Extract(text, "deviceId") # None /\ Extract(text, "telemetry") # None
      /\ Extract(text, "timestamp") # None
      /\ Extract(text, "hash") # None /\ Extract(text, "signature") # None
    BY <1>1, RequiredAre
<1>5. ASSUME NEW name \in {"deviceId", "hash", "signature"}
      PROVE  /\ q[FieldOf(name)] = ExtractStringValue(text, name)
             /\ ExtractStringValue(text, name) # None
    BY <1>2, <1>3, <1>4 DEF FieldOf
<1>6. ASSUME NEW name \in Optional, ExtractStringValue(text, name) # None
      PROVE  q[FieldOf(name)] = ExtractStringValue(text, name)
    BY <1>2, <1>3, <1>6 DEF FieldOf, Optional, ValueOr
<1> QED BY <1>2, <1>3, <1>4, <1>5, <1>6

\* What a device gave, and what comes of it, as ParsedAsSent says.
Given(p, order, name) ==
    Placed(order, name) # 0 /\ (name = "timestamp" => p.timestamp < Word)
\* The same of the packet that was read.
ReadOf(q, name) ==
    IF name = "timestamp" THEN Decimal[q.timestamp]
    ELSE IF name = "telemetry" THEN q.telemetryJson
    ELSE Quoted(q[FieldOf(name)])

\* A member that a body has is one of its order's.
LEMMA OrderHas ==
    ASSUME NEW order \in Orders, NEW name
    PROVE  Placed(order, name) # 0 <=> name \in ToSet(order)
<1>1. order \in Seq(ToSet(Required) \cup Optional)
    BY OrdersAssumption
<1>2. PICK k : k = Placed(order, name)
    OBVIOUS
<1>3. /\ k = 0 => \A i \in 1..Len(order) : order[i] # name
      /\ k # 0 => k \in 1..Len(order) /\ order[k] = name
    BY ONLY <1>1, <1>2, PlacedIs
<1>4. ToSet(order) = {order[i] : i \in 1..Len(order)}
    BY <1>1 DEF ToSet
<1> QED BY ONLY <1>2, <1>3, <1>4

\* A string is read as it was written, up to the first quote in it.
LEMMA StringsReadBack ==
    ASSUME NEW p \in Packets, NEW order \in Orders, NEW body, body = Body(p, order),
           NEW json, json = ParseTelemetryPacketJson(body), json.ok,
           NEW name \in StringFields, name \in ToSet(Required) \cup ToSet(order),
           ~Hides(p, order, name)
    PROVE  Given(p, order, name) /\ ReadOf(json.packet, name) = Value(AsRead(p), name)
<1>1. PICK q : q = json.packet
    OBVIOUS
<1>2. /\ name \in {"deviceId", "hash", "signature"} =>
            /\ q[FieldOf(name)] = ExtractStringValue(body, name)
            /\ ExtractStringValue(body, name) # None
      /\ name \in Optional =>
            (ExtractStringValue(body, name) # None =>
                 q[FieldOf(name)] = ExtractStringValue(body, name))
    BY <1>1, PacketHas
<1>3. ExtractStringValue(body, name) =
          IF Placed(order, name) = 0 THEN None ELSE TakenOf(p, name)
    BY StringOfBody
<1>4. /\ Value(AsRead(p), name) = Quoted(TakenOf(p, name))
      /\ TakenOf(p, name) \in Seq(Signs)
    BY StringsTaken
<1>5. TakenOf(p, name) # None
    BY <1>4, TextIsSome
<1>6. name # "timestamp" /\ name # "telemetry"
    BY FieldsAre
<1>7. name \in {"deviceId", "hash", "signature"} \/ name \in Optional
    BY DEF StringFields, Optional
<1>8. Placed(order, name) # 0
    <2>1. CASE name \in ToSet(order)
        BY <2>1, OrderHas
    <2>2. CASE name \in ToSet(Required)
        <3>1. name \in {"deviceId", "hash", "signature"}
            BY <1>6, <2>2, RequiredAre
        <3> QED BY <1>2, <1>3, <3>1
    <2> QED BY <2>1, <2>2
<1>9. q[FieldOf(name)] = TakenOf(p, name)
    BY <1>2, <1>3, <1>5, <1>7, <1>8
<1>10. ReadOf(q, name) = Value(AsRead(p), name)
    BY <1>4, <1>6, <1>9 DEF ReadOf
<1> QED BY <1>1, <1>6, <1>8, <1>10 DEF Given

\* So is every member of a body that was read whole, if the parser takes it.
LEMMA PacketReadBack ==
    ASSUME NEW p \in Packets, NEW order \in Orders, NEW body, body = Body(p, order),
           NEW json, json = ParseTelemetryPacketJson(body), json.ok,
           NEW name \in ToSet(Required) \cup ToSet(order), ~Hides(p, order, name)
    PROVE  Given(p, order, name) /\ ReadOf(json.packet, name) = Value(AsRead(p), name)
<1>1. PICK q : q = json.packet
    OBVIOUS
<1>2. /\ q.timestamp = ExtractUnsignedValue(body, "timestamp")
      /\ q.telemetryJson = ExtractObjectValue(body, "telemetry")
      /\ ExtractUnsignedValue(body, "timestamp") # None
      /\ ExtractObjectValue(body, "telemetry") # None
    BY <1>1, PacketHas
<1>3. name \in PacketNames
    <2>1. order \in Seq(PacketNames)
        BY OrdersAssumption DEF PacketNames
    <2>2. ToSet(order) \subseteq PacketNames
        BY ONLY <2>1 DEF ToSet
    <2> QED BY <2>2 DEF PacketNames
<1>4. CASE name \in StringFields
    BY <1>4, StringsReadBack
<1>5. CASE name = "timestamp"
    <2>1. ExtractUnsignedValue(body, "timestamp") =
              IF Placed(order, "timestamp") # 0 /\ p.timestamp < Word THEN p.timestamp ELSE None
        BY <1>5, TimestampOfBody
    <2>2. Placed(order, "timestamp") # 0 /\ p.timestamp < Word /\ q.timestamp = p.timestamp
        BY <1>2, <2>1
    <2>3. Value(AsRead(p), "timestamp") = Decimal[p.timestamp]
        BY OthersWritten, OthersTaken
    <2> QED BY <1>1, <1>5, <2>2, <2>3 DEF Given, ReadOf
<1>6. CASE name = "telemetry"
    <2>1. /\ Placed(order, "telemetry") # 0 =>
                  ExtractObjectValue(body, "telemetry") = p.telemetryJson
          /\ Placed(order, "telemetry") = 0 => ExtractObjectValue(body, "telemetry") = None
        BY <1>6, TelemetryOfBody
    <2>2. Placed(order, "telemetry") # 0 /\ q.telemetryJson = p.telemetryJson
        BY <1>2, <2>1
    <2>3. Value(AsRead(p), "telemetry") = p.telemetryJson /\ "telemetry" # "timestamp"
        BY OthersWritten, OthersTaken
    <2> QED BY <1>1, <1>6, <2>2, <2>3 DEF Given, ReadOf
<1> QED BY <1>3, <1>4, <1>5, <1>6, FieldsAre

\* If it does not, a required member was not given, or its number is too large;
\* a number that hides it may be that, too.
LEMMA RefusedForWant ==
    ASSUME NEW p \in Packets, NEW order \in Orders, NEW body, body = Body(p, order),
           NEW json, json = ParseTelemetryPacketJson(body), ~json.ok,
           ~Hides(p, order, "timestamp")
    PROVE  \E name \in ToSet(Required) : ~Given(p, order, name)
<1>1. PICK key \in ToSet(Required) : Extract(body, key) = None
    BY FoundOrMissing
<1>2. SUFFICES ASSUME Given(p, order, key) PROVE FALSE
    OBVIOUS
<1>3. Placed(order, key) # 0 /\ (key = "timestamp" => p.timestamp < Word)
    BY <1>2 DEF Given
<1>4. key \in PacketNames
    BY DEF PacketNames
<1>5. CASE key \in StringFields
    <2>1. ExtractStringValue(body, key) # None
        BY <1>3, <1>5, StringIsFound
    <2>2. Extract(body, key) = ExtractStringValue(body, key)
        BY <1>5, FieldsAre DEF Extract
    <2> QED BY <1>1, <2>1, <2>2
<1>6. CASE key = "timestamp"
    <2>1. ExtractUnsignedValue(body, "timestamp") = p.timestamp
        BY <1>3, <1>6, TimestampOfBody
    <2>2. p.timestamp \in Nat
        BY OthersWritten
    <2>3. p.timestamp # None
        BY <2>2, WordAssumption
    <2>4. Extract(body, key) = ExtractUnsignedValue(body, "timestamp")
        BY <1>6 DEF Extract
    <2> QED BY <1>1, <2>1, <2>3, <2>4
<1>7. CASE key = "telemetry"
    <2>1. ExtractObjectValue(body, "telemetry") = p.telemetryJson
        BY <1>3, <1>7, TelemetryOfBody
    <2>2. p.telemetryJson \in Seq(Signs)
        BY OthersWritten
    <2>3. p.telemetryJson # None
        BY <2>2, TextIsSome
    <2>4. Extract(body, key) = ExtractObjectValue(body, "telemetry")
        BY <1>7 DEF Extract
    <2> QED BY <1>1, <2>1, <2>3, <2>4
<1> QED BY <1>4, <1>5, <1>6, <1>7, FieldsAre

-----------------------------------------------------------------------------
(* ParsedAsSent *)

\* Of an empty text no request is parsed.
LEMMA NothingParsed ==
    ASSUME NEW raw, Len(raw) = 0 PROVE ParseHttpRequest(raw) = None
<1>1. PICK k : k = HeaderEnd(raw)
    OBVIOUS
<1>2. k \in Nat /\ (k # 0 => k \in 1..(Len(raw) - 3))
    BY <1>1, HeaderEndIs
<1>3. k = 0
    BY <1>2
<1> QED BY <1>1, <1>3 DEF ParseHttpRequest

\* Ingest is called once, with what was read last.
PendingInv == pc # "closed" => result = None /\ parsed = None

\* No other step calls it, nor does one follow.
LEMMA PendingInvariant == Spec => []PendingInv
<1>1. Init => PendingInv
    BY DEF Init, PendingInv
<1>2. PendingInv /\ [Next]_vars => PendingInv'
    <2> SUFFICES ASSUME PendingInv, [Next]_vars PROVE PendingInv'
        OBVIOUS
    <2>1. CASE HandleClient
        BY <2>1 DEF HandleClient, PendingInv
    <2>2. CASE pc = "recv" /\ UNCHANGED <<result, parsed>>
        BY <2>2 DEF PendingInv
    <2>3. CASE UNCHANGED vars
        BY <2>3 DEF PendingInv, vars
    <2> QED BY <2>1, <2>2, <2>3 DEF Next, Recv, RecvEnds
<1> QED BY <1>1, <1>2, PTL DEF Spec

\* What the property says of a request, a result and a packet.
AsSent(s, r, q) ==
    IF r = None
    THEN \/ Hides(s.packet, s.order, "timestamp")
         \/ \E name \in ToSet(Required) : ~Given(s.packet, s.order, name)
    ELSE \A name \in ToSet(Required) \cup ToSet(s.order) :
            \/ Hides(s.packet, s.order, name)
            \/ /\ Given(s.packet, s.order, name)
               /\ ReadOf(q, name) = Value(AsRead(s.packet), name)

\* What was sent whole is read so.
SentInv ==
    pc = "closed" /\ sent.packet # None /\ got = Len(sent.text) => AsSent(sent, result, parsed)

\* A request that was read whole is answered so (HandleClient,
\* http_server.cpp:436-485).
LEMMA WholeIsParsed ==
    ASSUME ReadInv, PendingInv, HandleClient, sent.packet # None, got = Len(sent.text)
    PROVE  AsSent(sent, result', parsed')
<1>1. sent \in Posts
    <2>1. sent \notin Others
        BY DEF Others
    <2> QED BY <2>1 DEF ReadInv
<1>2. got \in 0..Len(sent.text) /\ Raw = SubSeq(sent.text, 1, got) /\ Len(Raw) \in Nat
    <2>1. sent.text \in Seq(Symbols)
        BY SentReads DEF ReadInv
    <2>2. Len(sent.text) \in Nat
        BY <2>1
    <2> QED BY <2>1, <2>2 DEF ReadInv, Raw
<1>3. result = None /\ parsed = None
    BY DEF HandleClient, PendingInv
<1>4. PICK p \in Packets, order \in Orders :
        /\ sent.packet = p /\ sent.order = order
        /\ ReadsBody(Raw, Body(p, order), got = Len(sent.text))
    BY <1>1, <1>2, PostRead
<1>5. PICK request : /\ request = ParseHttpRequest(Raw)
                     /\ NoRequest \/ InvalidRequest(request) \/ Ingest(request) \/ RouteOther(request)
    BY DEF HandleClient
<1>6. PICK body : body = Body(p, order)
    OBVIOUS
<1>7. request # None /\ \E m : Cut(request.body, body, m) /\ m = Len(body)
    BY <1>4, <1>5, <1>6 DEF ReadsBody
<1>8. request.body = body
    <2>1. body \in Seq(Signs)
        BY <1>6, BodySigns
    <2> QED BY ONLY <1>7, <2>1, CutWhole
<1>9. CASE NoRequest
    <2>1. Len(Raw) = 0
        BY <1>9 DEF NoRequest
    <2> QED BY <1>5, <1>7, <2>1, NothingParsed
<1>10. CASE InvalidRequest(request)
    BY <1>7, <1>10 DEF InvalidRequest
<1>11. CASE RouteOther(request)
    <2>1. RouteOf(request) = sent.wants
        BY <1>1, <1>2, <1>5, <1>7, PostRouted
    <2>2. sent.wants.op = "ingest"
        BY <1>1, PostIs
    <2>3. RouteOf(request).op # "ingest"
        BY <1>11 DEF RouteOther
    <2> QED BY <2>1, <2>2, <2>3
<1>12. CASE Ingest(request)
    <2>1. PICK json : /\ json = ParseTelemetryPacketJson(body)
                      /\ json.ok => parsed' = json.packet /\ result' = IngestResult(parsed')
                      /\ ~json.ok => result' = result
        BY <1>8, <1>12 DEF Ingest
    <2>2. CASE json.ok
        <3>1. result' # None
            BY <2>1, <2>2, ResultIsSome
        <3>2. ASSUME NEW name \in ToSet(Required) \cup ToSet(order), ~Hides(p, order, name)
              PROVE  Given(p, order, name) /\ ReadOf(json.packet, name) = Value(AsRead(p), name)
            BY <1>6, <2>1, <2>2, <3>2, PacketReadBack
        <3> QED BY <1>4, <2>1, <2>2, <3>1, <3>2 DEF AsSent
    <2>3. CASE ~json.ok
        <3>1. result' = None
            BY <1>3, <2>1, <2>3
        <3>2. ASSUME ~Hides(p, order, "timestamp")
              PROVE  \E name \in ToSet(Required) : ~Given(p, order, name)
            BY <1>6, <2>1, <2>3, <3>2, RefusedForWant
        <3> QED BY <1>4, <3>1, <3>2 DEF AsSent
    <2> QED BY <2>2, <2>3
<1> QED BY <1>5, <1>9, <1>10, <1>11, <1>12

\* SentInv is inductive: only HandleClient reads, and it reads once.
LEMMA SentInvariant == Spec => []SentInv
<1>1. Init => SentInv
    BY DEF Init, SentInv
<1>2. ReadInv /\ PendingInv /\ SentInv /\ [Next]_vars => SentInv'
    <2> SUFFICES ASSUME ReadInv, PendingInv, SentInv, [Next]_vars PROVE SentInv'
        OBVIOUS
    <2>1. CASE HandleClient
        <3>1. sent' = sent /\ got' = got
            BY <2>1 DEF HandleClient
        <3>2. sent.packet # None /\ got = Len(sent.text) => AsSent(sent, result', parsed')
            BY <2>1, WholeIsParsed
        <3> QED BY <3>1, <3>2 DEF SentInv
    <2>2. CASE (\E n \in 1..BufferSize : Recv(n)) \/ RecvEnds
        <3>1. pc' # "closed"
            BY <2>2 DEF Recv, RecvEnds
        <3> QED BY <3>1 DEF SentInv
    <2>3. CASE UNCHANGED vars
        BY <2>3 DEF SentInv, vars
    <2> QED BY <2>1, <2>2, <2>3 DEF Next
<1> QED BY <1>1, <1>2, ReadInvariant, PendingInvariant, PTL DEF Spec

\* ParsedAsSent: of a request that was read whole each member comes out as the
\* device wrote it, a string up to the first quote in it, and it fails only for
\* want of a required member, whatever the order, the strings and the telemetry
\* object (ExtractStringValue, ExtractUnsignedValue and ExtractObjectValue,
\* json_parser.cpp:13-85).
THEOREM WholeIsParsedAsSent == Spec => []ParsedAsSent
<1>1. SentInv => ParsedAsSent
    BY DEF SentInv, AsSent, ParsedAsSent, Shadowed, Hides, Position, Placed, Given, ReadOf, FieldOf
<1> QED BY <1>1, SentInvariant, PTL

-----------------------------------------------------------------------------
(* UnsignedAsSent *)

\* A member that is not signed is read up to the first quote in it, or it is
\* the default.
ReadOrLost(p, order, q) ==
    /\ Hides(p, order, "batchCode") \/ q.batchCode \in {BeforeQuote(p.batchCode), <<>>}
    /\ Hides(p, order, "transport") \/ q.transport \in {BeforeQuote(p.transport), <<"wifi">>}

\* So it is in every packet that is read of a body, also of one that was cut.
LEMMA UnsignedReadOrLost ==
    ASSUME NEW p \in Packets, NEW order \in Orders, NEW text, NEW m,
           Cut(text, Body(p, order), m),
           NEW json, json = ParseTelemetryPacketJson(text), json.ok
    PROVE  ReadOrLost(p, order, json.packet)
<1>1. PICK q : q = json.packet
    OBVIOUS
<1>2. /\ q.batchCode = ValueOr(ExtractStringValue(text, "batchCode"), <<>>)
      /\ q.transport = ValueOr(ExtractStringValue(text, "transport"), <<"wifi">>)
    <2>1. PICK k : k = SelectInSeq(Required, LAMBDA key : Extract(text, key) = None)
        OBVIOUS
    <2>2. k = 0
        BY <2>1 DEF ParseTelemetryPacketJson
    <2>3. /\ q.batchCode = ValueOr(Extract(text, "batchCode"), <<>>)
          /\ q.transport = ValueOr(Extract(text, "transport"), <<"wifi">>)
        BY <1>1, <2>1, <2>2 DEF ParseTelemetryPacketJson
    <2>4. /\ Extract(text, "batchCode") = ExtractStringValue(text, "batchCode")
          /\ Extract(text, "transport") = ExtractStringValue(text, "transport")
        BY DEF Extract
    <2> QED BY <2>3, <2>4
<1>3. ASSUME NEW key \in StringFields, ~Hides(p, order, key)
      PROVE  ExtractStringValue(text, key) \in {None, TakenOf(p, key)}
    BY <1>3, StringOfBody
<1>4. ASSUME ~Hides(p, order, "batchCode") PROVE q.batchCode \in {BeforeQuote(p.batchCode), <<>>}
    <2>1. PICK v : v = ExtractStringValue(text, "batchCode")
        OBVIOUS
    <2>2. v \in {None, TakenOf(p, "batchCode")}
        BY <1>3, <1>4, <2>1 DEF StringFields
    <2>3. TakenOf(p, "batchCode") = BeforeQuote(p.batchCode)
        BY DEF StringOf, TakenOf
    <2> QED BY <1>2, <2>1, <2>2, <2>3 DEF ValueOr
<1>5. ASSUME ~Hides(p, order, "transport") PROVE q.transport \in {BeforeQuote(p.transport), <<"wifi">>}
    <2>1. PICK v : v = ExtractStringValue(text, "transport")
        OBVIOUS
    <2>2. v \in {None, TakenOf(p, "transport")}
        BY <1>3, <1>5, <2>1 DEF StringFields
    <2>3. TakenOf(p, "transport") = BeforeQuote(p.transport)
        BY DEF StringOf, TakenOf
    <2> QED BY <1>2, <2>1, <2>2, <2>3 DEF ValueOr
<1> QED BY <1>1, <1>4, <1>5 DEF ReadOrLost

\* Ingest has a result of every packet, and the packet came of a device's body.
UnsignedInv ==
    /\ result = None <=> parsed = None
    /\ result # None => ReadOrLost(sent.packet, sent.order, parsed)

\* UnsignedInv is inductive: a body without a packet is not ingested.
LEMMA UnsignedInvariant == Spec => []UnsignedInv
<1>1. Init => UnsignedInv
    BY DEF Init, UnsignedInv
<1>2. ReadInv /\ UnsignedInv /\ [Next]_vars => UnsignedInv'
    <2> SUFFICES ASSUME ReadInv, UnsignedInv, [Next]_vars PROVE UnsignedInv'
        OBVIOUS
    <2>0. sent' = sent
        BY DEF Next, Recv, RecvEnds, HandleClient, vars
    <2>1. CASE UNCHANGED <<result, parsed>>
        BY <2>0, <2>1 DEF UnsignedInv
    <2>2. CASE ~UNCHANGED <<result, parsed>>
        <3>1. PICK request : request = ParseHttpRequest(Raw) /\ Ingest(request)
            BY <2>2 DEF Next, Recv, RecvEnds, HandleClient, NoRequest, InvalidRequest,
                        RouteOther, vars
        <3>2. PICK json : /\ json = ParseTelemetryPacketJson(request.body) /\ json.ok
                          /\ parsed' = json.packet /\ result' = IngestResult(parsed')
            BY <2>2, <3>1 DEF Ingest
        <3>3. request # None
            BY <3>1 DEF Ingest
        <3>4. sent.text \in Seq(Symbols)
            BY SentReads DEF ReadInv
        <3>5. got \in 0..Len(sent.text) /\ Raw = SubSeq(sent.text, 1, got)
            <4>1. Len(sent.text) \in Nat
                BY <3>4
            <4> QED BY <4>1 DEF ReadInv, Raw
        <3>6. request.body \in Seq(Signs)
            <4>1. Raw \in Seq(Symbols)
                BY ONLY <3>4, <3>5
            <4>2. request.body \in Seq(Symbols)
                BY ONLY <3>1, <3>3, <4>1, BodyIn
            <4>3. Symbols \subseteq Signs
                BY SignsAre
            <4> QED BY ONLY <4>2, <4>3, SeqMonotonic
        <3>7. parsed' # None
            BY <3>2, <3>6, PacketIsSome
        <3>8. result' # None
            BY <3>2, ResultIsSome
        <3>9. sent \in Posts
            <4>1. CASE sent \in Others
                <5>1. ~json.ok
                    BY <3>1, <3>2, <3>3, <3>5, <4>1, OthersUnparsed
                <5> QED BY <3>2, <5>1
            <4> QED BY <4>1 DEF ReadInv
        <3>10. PICK p \in Packets, order \in Orders :
                 /\ sent.packet = p /\ sent.order = order
                 /\ ReadsBody(Raw, Body(p, order), got = Len(sent.text))
            BY <3>5, <3>9, PostRead
        <3>11. PICK m : Cut(request.body, Body(p, order), m)
            BY <3>1, <3>3, <3>10 DEF ReadsBody
        <3>12. ReadOrLost(p, order, json.packet)
            BY <3>2, <3>11, UnsignedReadOrLost
        <3> QED BY <2>0, <3>2, <3>7, <3>8, <3>10, <3>12 DEF UnsignedInv
    <2> QED BY <2>1, <2>2
<1> QED BY <1>1, <1>2, ReadInvariant, PTL DEF Spec

\* UnsignedAsSent: of what is accepted, the members that nobody signed are read
\* as the device wrote them up to the first quote in them, or left out; where
\* the request ended early they are not cut (ParseTelemetryPacketJson,
\* json_parser.cpp:14, :87-134).
THEOREM UnsignedUpToQuote == Spec => []UnsignedAsSent
<1>1. UnsignedInv => UnsignedAsSent
    BY DEF UnsignedInv, ReadOrLost, UnsignedAsSent, Shadowed, Hides, Position, Placed
<1> QED BY <1>1, UnsignedInvariant, PTL
===============================================================================
