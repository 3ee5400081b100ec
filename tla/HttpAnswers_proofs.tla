-------------------------- MODULE HttpAnswers_proofs --------------------------
(***************************************************************************)
(* What the gateway writes, for every packet, request and cut of the       *)
(* stream: each answer, event and record is one object, and each answer    *)
(* declares its own length.                                                *)
(*                                                                         *)
(* A text is written of members, and each member leaves the scan of        *)
(* ExtractObjectValue as it found it: Keeps says so of a text, and is kept *)
(* by joining texts and by JsonObject. What the parser passes on is such a *)
(* text itself, since it was read by the same scan.                        *)
(***************************************************************************)
EXTENDS HttpConnection_proofs

-----------------------------------------------------------------------------
(* Texts that a scan passes and is as before *)

\* Q has the scan of a text, from any state.
Steps(Q, t) ==
    /\ Q \in [Nat -> ScanState]
    /\ \A k \in 0..(Len(t) - 1) : Q[k + 1] = ScanSymbol(Q[k], t[k + 1])

\* Neither in a string, or in one, nor behind a backslash.
Calm(a, inside) == a.inString = inside /\ a.escape = FALSE

\* From s to e the scan comes back to where it was and never leaves upwards.
Kept(Q, s, e, inside) ==
    /\ Calm(Q[e], inside) /\ Q[e].depth = Q[s].depth
    /\ \A k \in s..e : Q[k].depth >= Q[s].depth

\* A text that every scan passes so, within a string or outside.
Keeps(t, inside) ==
    \A Q : Steps(Q, t) /\ Calm(Q[0], inside) => Kept(Q, 0, Len(t), inside)

\* The symbols of t stand in x behind s.
Part(x, s, t) == s \in Nat /\ s + Len(t) <= Len(x) /\ \A i \in 1..Len(t) : x[s + i] = t[i]

\* A part is scanned as the text itself.
LEMMA PartScanned ==
    ASSUME NEW x, Len(x) \in Nat, NEW t, Len(t) \in Nat, NEW s, Part(x, s, t), NEW Q, Steps(Q, x)
    PROVE  Steps([k \in Nat |-> Q[s + k]], t)
<1> DEFINE R == [k \in Nat |-> Q[s + k]]
<1>1. s \in Nat /\ s + Len(t) <= Len(x) /\ \A i \in 1..Len(t) : x[s + i] = t[i]
    BY DEF Part
<1>2. Q \in [Nat -> ScanState] /\ \A k \in 0..(Len(x) - 1) : Q[k + 1] = ScanSymbol(Q[k], x[k + 1])
    BY DEF Steps
<1>3. R \in [Nat -> ScanState]
    BY <1>1, <1>2
<1>4. ASSUME NEW k \in 0..(Len(t) - 1) PROVE R[k + 1] = ScanSymbol(R[k], t[k + 1])
    <2>1. k + 1 \in 1..Len(t) /\ s + k \in 0..(Len(x) - 1) /\ (s + k) + 1 = s + (k + 1) /\ k \in Nat
          /\ k + 1 \in Nat
        BY <1>1
    <2>2. R[k] = Q[s + k] /\ R[k + 1] = Q[s + (k + 1)]
        BY <2>1
    <2>3. Q[(s + k) + 1] = ScanSymbol(Q[s + k], x[(s + k) + 1])
        BY <1>2, <2>1
    <2>4. x[s + (k + 1)] = t[k + 1]
        BY <1>1, <2>1
    <2> HIDE DEF R
    <2> QED BY <2>1, <2>2, <2>3, <2>4
<1> QED BY <1>3, <1>4 DEF Steps

\* So it leaves the scan as it found it.
LEMMA PartKept ==
    ASSUME NEW x, Len(x) \in Nat, NEW t, Len(t) \in Nat, NEW s, Part(x, s, t), NEW Q, Steps(Q, x),
           NEW inside, Keeps(t, inside), Calm(Q[s], inside)
    PROVE  Kept(Q, s, s + Len(t), inside)
<1>1. PICK R : R = [k \in Nat |-> Q[s + k]]
    OBVIOUS
<1>2. Steps(R, t)
    BY <1>1, PartScanned
<1>3. s \in Nat
    BY DEF Part
<1>4. R[0] = Q[s] /\ R[Len(t)] = Q[s + Len(t)]
    BY <1>1, <1>3
<1>5. Kept(R, 0, Len(t), inside)
    BY <1>2, <1>4 DEF Keeps
<1>6. ASSUME NEW k \in s..(s + Len(t)) PROVE Q[k].depth >= Q[s].depth
    <2>1. k - s \in 0..Len(t) /\ k - s \in Nat /\ s + (k - s) = k
        BY <1>3
    <2>2. R[k - s] = Q[k]
        BY <1>1, <2>1
    <2> QED BY <1>4, <1>5, <2>1, <2>2 DEF Kept
<1> QED BY <1>4, <1>5, <1>6 DEF Kept

\* A symbol that is nothing special there.
Plain(s, inside) == s # "\\" /\ s # Quote /\ (inside = TRUE \/ (s # "{" /\ s # "}"))

\* A symbol that is nothing special leaves the scan as it is.
LEMMA PlainPassed ==
    ASSUME NEW s, NEW inside \in BOOLEAN, Plain(s, inside), NEW a, Calm(a, inside)
    PROVE  ScanSymbol(a, s) = a
BY Zenon DEF Plain, Calm, ScanSymbol

\* The empty text and texts without special symbols are passed,
LEMMA KeepsPlain ==
    ASSUME NEW t, Len(t) \in Nat, NEW inside \in BOOLEAN, \A i \in 1..Len(t) : Plain(t[i], inside)
    PROVE  Keeps(t, inside)
<1> SUFFICES ASSUME NEW Q, Steps(Q, t), Calm(Q[0], inside) PROVE Kept(Q, 0, Len(t), inside)
    BY DEF Keeps
<1> DEFINE T == {k \in Nat : k <= Len(t) => Q[k] = Q[0]}
<1>1. 0 \in T
    OBVIOUS
<1>2. ASSUME NEW k \in Nat, k + 1 <= Len(t), Q[k] = Q[0] PROVE Q[k + 1] = Q[0]
    <2>1. k \in 0..(Len(t) - 1) /\ k + 1 \in 1..Len(t)
        BY <1>2
    <2>2. Q[k + 1] = ScanSymbol(Q[0], t[k + 1])
        BY <1>2, <2>1 DEF Steps
    <2>3. ScanSymbol(Q[0], t[k + 1]) = Q[0]
        BY <2>1, PlainPassed
    <2> QED BY <2>2, <2>3
<1>3. \A k \in Nat : k \in T
    <2>1. T \in SUBSET Nat
        OBVIOUS
    <2>2. \A k \in T : k + 1 \in T
        <3> TAKE k \in T
        <3>1. k \in Nat /\ (k <= Len(t) => Q[k] = Q[0])
            OBVIOUS
        <3>2. k + 1 <= Len(t) => Q[k + 1] = Q[0]
            BY <1>2, <3>1
        <3> QED BY <3>1, <3>2
    <2> HIDE DEF T
    <2> QED BY <1>1, <2>1, <2>2, Induction
<1>4. ASSUME NEW k \in 0..Len(t) PROVE Q[k] = Q[0]
    <2>1. k \in Nat /\ k <= Len(t)
        OBVIOUS
    <2> QED BY <1>3, <2>1
<1>5. Q[0].depth \in Int
    BY DEF Steps, ScanState
<1>6. Len(t) \in 0..Len(t)
    OBVIOUS
<1>7. Q[Len(t)] = Q[0] /\ \A k \in 0..Len(t) : Q[k].depth >= Q[0].depth
    BY <1>4, <1>5, <1>6
<1> QED BY <1>7 DEF Kept

\* and so is a text made of two that are,
LEMMA KeepsJoined ==
    ASSUME NEW S, NEW a \in Seq(S), NEW b \in Seq(S), NEW inside, Keeps(a, inside), Keeps(b, inside)
    PROVE  Keeps(a \o b, inside)
<1>1. PICK x : x = a \o b
    OBVIOUS
<1>2. /\ x \in Seq(S) /\ Len(x) = Len(a) + Len(b) /\ Len(a) \in Nat /\ Len(b) \in Nat
      /\ \A i \in 1..Len(a) : x[i] = a[i]
      /\ \A i \in 1..Len(b) : x[Len(a) + i] = b[i]
    BY <1>1, Joined
<1>3. Part(x, 0, a) /\ Part(x, Len(a), b) /\ Len(x) \in Nat
    BY <1>2 DEF Part
<1> SUFFICES ASSUME NEW Q, Steps(Q, x), Calm(Q[0], inside) PROVE Kept(Q, 0, Len(x), inside)
    BY <1>1 DEF Keeps
<1>4. Kept(Q, 0, Len(a), inside)
    <2>1. 0 + Len(a) = Len(a)
        BY <1>2
    <2>2. Kept(Q, 0, 0 + Len(a), inside)
        BY <1>2, <1>3, PartKept
    <2> QED BY <2>1, <2>2
<1>5. Kept(Q, Len(a), Len(x), inside)
    <2>1. Calm(Q[Len(a)], inside)
        BY <1>4 DEF Kept
    <2> QED BY <1>2, <1>3, <2>1, PartKept
<1>6. \A k \in 0..Len(x) : k \in 0..Len(a) \/ k \in Len(a)..Len(x)
    BY <1>2
<1> QED BY <1>4, <1>5, <1>6 DEF Kept

\* or of any number,
LEMMA KeepsFlattened ==
    ASSUME NEW S, NEW seqs \in Seq(Seq(S)), NEW inside \in BOOLEAN,
           \A i \in 1..Len(seqs) : Keeps(seqs[i], inside)
    PROVE  Keeps(FlattenSeq(seqs), inside)
<1>1. PICK n \in Nat : n = Len(seqs)
    OBVIOUS
<1>2. CASE n = 0
    <2>1. FlattenSeq(seqs) = seqs
        BY <1>1, <1>2 DEF FlattenSeq
    <2>2. Keeps(seqs, inside)
        <3>1. Len(seqs) \in Nat /\ \A i \in 1..Len(seqs) : FALSE
            BY <1>1, <1>2
        <3> QED BY <3>1, KeepsPlain
    <2> QED BY <2>1, <2>2
<1>3. CASE n # 0
    <2>1. PICK F : Joins(F, S, seqs)
        BY <1>1, <1>3, FlattenSteps
    <2>2. /\ F[1] = seqs[1] /\ \A i \in 2..n : F[i] = F[i - 1] \o seqs[i]
          /\ \A i \in 1..n : F[i] \in Seq(S) /\ seqs[i] \in Seq(S) /\ Keeps(seqs[i], inside)
          /\ FlattenSeq(seqs) = F[n]
        <3>1. \A i \in 1..n : seqs[i] \in Seq(S)
            BY <1>1
        <3> QED BY <1>1, <2>1, <3>1 DEF Joins
    <2> DEFINE T == {k \in Nat : k + 1 <= n => Keeps(F[k + 1], inside)}
    <2>3. 0 \in T
        BY <1>3, <2>2
    <2>4. ASSUME NEW k \in T PROVE k + 1 \in T
        <3> SUFFICES ASSUME (k + 1) + 1 <= n PROVE Keeps(F[(k + 1) + 1], inside)
            OBVIOUS
        <3>1. PICK i : i = (k + 1) + 1
            OBVIOUS
        <3>2. i \in 2..n /\ i \in 1..n /\ i - 1 = k + 1 /\ i - 1 \in 1..n
            BY <3>1
        <3>3. Keeps(F[i - 1], inside)
            BY <3>2
        <3>4. F[i] = F[i - 1] \o seqs[i] /\ F[i - 1] \in Seq(S) /\ seqs[i] \in Seq(S)
              /\ Keeps(seqs[i], inside)
            BY <2>2, <3>2
        <3> HIDE DEF T
        <3>5. Keeps(F[i], inside)
            BY <3>3, <3>4, KeepsJoined
        <3> QED BY <3>1, <3>5
    <2>5. \A k \in Nat : k \in T
        <3>1. T \in SUBSET Nat
            OBVIOUS
        <3> HIDE DEF T
        <3> QED BY <2>3, <2>4, <3>1, Induction
    <2>6. n - 1 \in Nat /\ (n - 1) + 1 = n
        BY <1>3
    <2>7. n - 1 \in T
        <3> HIDE DEF T
        <3> QED BY <2>5, <2>6
    <2>8. Keeps(F[n], inside)
        BY <2>6, <2>7
    <2> QED BY <2>2, <2>8
<1> QED BY <1>2, <1>3

\* Symbols by name: no prover reads some of the literals.
Backslash == "\\"
Closing == "}"
Comma == ","
Colon == ":"

\* The quote and the backslash are no names and differ.
LEMMA MarksApart ==
    /\ Quote # Backslash /\ Quote # Opening /\ Quote # Closing
    /\ Backslash # Opening /\ Backslash # Closing /\ Opening # Closing
    /\ Quote \notin Names /\ Backslash \notin Names
<1>1. /\ Quote # Backslash /\ Quote # Opening /\ Quote # Closing
      /\ Backslash # Opening /\ Backslash # Closing /\ Opening # Closing
    BY Zenon DEF Quote, Backslash, Opening, Closing
<1>2. Quote \notin Names /\ Backslash \notin Names
    BY RequiredAre, Zenon DEF Quote, Backslash, Names, Optional
<1> QED BY <1>1, <1>2

\* Names, digits and separators are plain everywhere.
LEMMA PlainAre ==
    /\ \A s \in Names \cup Digits : \A inside : Plain(s, inside)
    /\ \A inside : Plain(Colon, inside) /\ Plain(Comma, inside)
<1>1. \A s \in Names : s # "\\" /\ s # Quote /\ s # "{" /\ s # "}"
    BY RequiredAre, Zenon DEF Quote, Names, Optional
<1>2. \A s \in Digits : s # "\\" /\ s # Quote /\ s # "{" /\ s # "}"
    BY Zenon DEF Quote, Digits
<1>3. Colon # "\\" /\ Colon # Quote /\ Colon # "{" /\ Colon # "}"
    BY Zenon DEF Quote, Colon
<1>4. Comma # "\\" /\ Comma # Quote /\ Comma # "{" /\ Comma # "}"
    BY Zenon DEF Quote, Comma
<1> QED BY <1>1, <1>2, <1>3, <1>4, Zenon DEF Plain

\* An escaped symbol that is no name only ends the escape.
LEMMA Unescaped ==
    ASSUME NEW a \in ScanState, a.escape = TRUE, NEW s, s \notin Names,
           NEW b, b = ScanSymbol(a, s)
    PROVE  b.depth = a.depth /\ b.escape = FALSE /\ b.inString = a.inString
<1>1. b = [a EXCEPT !.escape = FALSE, !.inString = IF s \in Names THEN ~@ ELSE @]
    BY DEF ScanSymbol
<1> QED BY <1>1, Cleared

\* Within a string an escaped quote or backslash is passed.
LEMMA EscapedPassed ==
    ASSUME NEW s, s = Quote \/ s = Backslash, NEW t, t = <<Backslash, s>>
    PROVE  Keeps(t, TRUE)
<1>1. Len(t) = 2 /\ t[1] = Backslash /\ t[2] = s
    OBVIOUS
<1> SUFFICES ASSUME NEW Q, Steps(Q, t), Calm(Q[0], TRUE) PROVE Kept(Q, 0, Len(t), TRUE)
    BY DEF Keeps
<1>2. Q[0] \in ScanState /\ Q[1] = ScanSymbol(Q[0], Backslash) /\ Q[2] = ScanSymbol(Q[1], s)
    <2>1. Q \in [Nat -> ScanState] /\ \A k \in 0..1 : Q[k + 1] = ScanSymbol(Q[k], t[k + 1])
        BY <1>1 DEF Steps
    <2>2. Q[0 + 1] = ScanSymbol(Q[0], t[0 + 1]) /\ Q[1 + 1] = ScanSymbol(Q[1], t[1 + 1])
        BY <2>1
    <2>3. 0 + 1 = 1 /\ 1 + 1 = 2
        OBVIOUS
    <2> QED BY <1>1, <2>1, <2>2, <2>3
<1>3. Q[1] = [Q[0] EXCEPT !.escape = TRUE]
    <2>1. Q[0].escape = FALSE
        BY DEF Calm
    <2> QED BY <1>2, <2>1, Zenon DEF ScanSymbol, Backslash
<1>4. Q[1] \in ScanState /\ Q[1].depth = Q[0].depth /\ Q[1].inString = TRUE /\ Q[1].escape = TRUE
    BY <1>2, <1>3, Escaped DEF Calm
<1>5. s \notin Names
    BY MarksApart
<1>6. Q[2].depth = Q[1].depth /\ Q[2].escape = FALSE /\ Q[2].inString = TRUE
    BY <1>2, <1>4, <1>5, Unescaped
<1>7. Calm(Q[2], TRUE) /\ Q[2].depth = Q[0].depth
    BY <1>4, <1>6 DEF Calm
<1>8. Q[0].depth \in Int
    BY <1>2 DEF ScanState
<1>9. ASSUME NEW k \in 0..2 PROVE Q[k].depth >= Q[0].depth
    <2>1. k = 0 \/ k = 1 \/ k = 2
        OBVIOUS
    <2> QED BY <1>4, <1>6, <1>8, <2>1
<1> QED BY <1>1, <1>7, <1>9 DEF Kept

\* The pieces that JsonEscape makes of a text.
Pieces(value) ==
    [i \in DOMAIN value |->
        IF value[i] \in {Quote, "\\"} THEN <<"\\", value[i]>> ELSE <<value[i]>>]

\* What JsonEscape makes of each symbol.
LEMMA PiecesAre ==
    ASSUME NEW S, Backslash \in S, NEW value \in Seq(S)
    PROVE  /\ JsonEscape(value) = FlattenSeq(Pieces(value))
           /\ Pieces(value) \in Seq(Seq(S)) /\ Len(Pieces(value)) = Len(value)
           /\ \A i \in 1..Len(value) :
                Pieces(value)[i] = IF value[i] = Quote \/ value[i] = Backslash
                                   THEN <<Backslash, value[i]>> ELSE <<value[i]>>
<1>1. JsonEscape(value) = FlattenSeq(Pieces(value))
    BY Zenon DEF JsonEscape, Pieces
<1>2. Len(value) \in Nat /\ DOMAIN value = 1..Len(value) /\ \A i \in 1..Len(value) : value[i] \in S
    OBVIOUS
<1> DEFINE piece(i) == IF value[i] = Quote \/ value[i] = Backslash
                       THEN <<Backslash, value[i]>> ELSE <<value[i]>>
<1>3. Pieces(value) = [i \in 1..Len(value) |-> piece(i)]
    <2>1. \A i \in DOMAIN value :
            (IF value[i] \in {Quote, "\\"} THEN <<"\\", value[i]>> ELSE <<value[i]>>) = piece(i)
        BY Zenon DEF Backslash
    <2> HIDE DEF piece
    <2> QED BY <1>2, <2>1, Zenon DEF Pieces
<1>4. ASSUME NEW i \in 1..Len(value) PROVE piece(i) \in Seq(S)
    <2>1. value[i] \in S
        BY <1>2
    <2> QED BY <2>1
<1>5. Pieces(value) \in [1..Len(value) -> Seq(S)]
    <2> HIDE DEF piece
    <2> QED BY <1>3, <1>4
<1>6. Pieces(value) \in Seq(Seq(S)) /\ Len(Pieces(value)) = Len(value)
    BY <1>2, <1>5, SeqDef
<1>7. \A i \in 1..Len(value) : Pieces(value)[i] = piece(i)
    <2> HIDE DEF piece
    <2> QED BY <1>3
<1> QED BY <1>1, <1>6, <1>7

\* Whatever it holds, an escaped text does not end the string that it is in.
LEMMA KeepsEscaped ==
    ASSUME NEW S, Backslash \in S, NEW value \in Seq(S)
    PROVE  JsonEscape(value) \in Seq(S) /\ Keeps(JsonEscape(value), TRUE)
<1>1. PICK seqs : seqs = Pieces(value)
    OBVIOUS
<1>2. /\ JsonEscape(value) = FlattenSeq(seqs) /\ seqs \in Seq(Seq(S)) /\ Len(seqs) = Len(value)
      /\ \A i \in 1..Len(value) : seqs[i] = IF value[i] = Quote \/ value[i] = Backslash
                                            THEN <<Backslash, value[i]>> ELSE <<value[i]>>
    BY <1>1, PiecesAre
<1>3. ASSUME NEW i \in 1..Len(seqs) PROVE Keeps(seqs[i], TRUE)
    <2>1. CASE value[i] = Quote \/ value[i] = Backslash
        <3>1. seqs[i] = <<Backslash, value[i]>>
            BY <1>2, <2>1
        <3> QED BY <2>1, <3>1, EscapedPassed
    <2>2. CASE ~(value[i] = Quote \/ value[i] = Backslash)
        <3>1. seqs[i] = <<value[i]>>
            BY <1>2, <2>2
        <3>2. Len(seqs[i]) = 1 /\ seqs[i][1] = value[i]
            BY <3>1
        <3>3. Plain(value[i], TRUE)
            BY <2>2, Zenon DEF Plain, Backslash
        <3>4. ASSUME NEW j \in 1..Len(seqs[i]) PROVE Plain(seqs[i][j], TRUE)
            <4>1. j = 1
                BY <3>2
            <4> QED BY <3>2, <3>3, <4>1
        <3>5. Len(seqs[i]) \in Nat
            BY <3>2
        <3> QED BY <3>4, <3>5, KeepsPlain
    <2> QED BY <2>1, <2>2
<1>4. Keeps(FlattenSeq(seqs), TRUE)
    BY <1>2, <1>3, KeepsFlattened
<1>5. FlattenSeq(seqs) \in Seq(S)
    BY <1>2, FlattenIs
<1> QED BY <1>2, <1>4, <1>5

\* A quote that is not escaped opens a string or closes it,
LEMMA QuoteToggles ==
    ASSUME NEW a \in ScanState, NEW inside \in BOOLEAN, Calm(a, inside),
           NEW b, b = ScanSymbol(a, Quote)
    PROVE  b \in ScanState /\ b.depth = a.depth /\ Calm(b, ~inside)
<1>1. a.escape = FALSE /\ a.inString = inside
    BY DEF Calm
<1>2. b = [a EXCEPT !.inString = ~@]
    BY <1>1, MarksApart, Zenon DEF ScanSymbol, Backslash
<1> QED BY <1>1, <1>2, Toggled DEF Calm

\* and outside of strings braces count.
LEMMA BracesCount ==
    ASSUME NEW a \in ScanState, Calm(a, FALSE), NEW b, NEW c,
           b = ScanSymbol(a, Opening), c = ScanSymbol(a, Closing)
    PROVE  /\ b \in ScanState /\ b.depth = a.depth + 1 /\ Calm(b, FALSE)
           /\ c \in ScanState /\ c.depth = a.depth - 1 /\ Calm(c, FALSE)
<1>1. a.escape = FALSE /\ a.inString = FALSE
    BY DEF Calm
<1>2. b = [a EXCEPT !.depth = @ + 1]
    BY <1>1, MarksApart, Zenon DEF ScanSymbol, Backslash, Opening
<1>3. c = [a EXCEPT !.depth = @ - 1]
    BY <1>1, MarksApart, Zenon DEF ScanSymbol, Backslash, Opening, Closing
<1> QED BY <1>1, <1>2, <1>3, Deepened, Raised DEF Calm

\* A text between two symbols.
Wraps(x, p, v, q) == x = <<p>> \o v \o <<q>>

\* What such a text is, symbol by symbol.
LEMMA Wrapped ==
    ASSUME NEW S, NEW v \in Seq(S), NEW p \in S, NEW q \in S, NEW x, Wraps(x, p, v, q)
    PROVE  /\ x \in Seq(S) /\ Len(v) \in Nat /\ Len(x) = Len(v) + 2
           /\ x[1] = p /\ x[Len(v) + 2] = q /\ Part(x, 1, v)
<1>1. PICK y : y = <<p>> \o v /\ x = y \o <<q>>
    BY DEF Wraps
<1>2. /\ y \in Seq(S) /\ Len(y) = 1 + Len(v) /\ Len(v) \in Nat /\ y[1] = p
      /\ \A i \in 1..Len(v) : y[1 + i] = v[i]
    <2>1. <<p>> \in Seq(S) /\ Len(<<p>>) = 1 /\ <<p>>[1] = p
        OBVIOUS
    <2>2. /\ y \in Seq(S) /\ Len(y) = Len(<<p>>) + Len(v) /\ Len(v) \in Nat
          /\ \A i \in 1..Len(<<p>>) : y[i] = <<p>>[i]
          /\ \A i \in 1..Len(v) : y[Len(<<p>>) + i] = v[i]
        BY <1>1, <2>1, Joined
    <2> QED BY <2>1, <2>2
<1>3. /\ x \in Seq(S) /\ Len(x) = Len(y) + 1
      /\ \A i \in 1..Len(y) : x[i] = y[i]
      /\ x[Len(y) + 1] = q
    <2>1. <<q>> \in Seq(S) /\ Len(<<q>>) = 1 /\ <<q>>[1] = q
        OBVIOUS
    <2>2. /\ x \in Seq(S) /\ Len(x) = Len(y) + Len(<<q>>)
          /\ \A i \in 1..Len(y) : x[i] = y[i]
          /\ \A i \in 1..Len(<<q>>) : x[Len(y) + i] = <<q>>[i]
        BY <1>1, <1>2, <2>1, Joined
    <2> QED BY <2>1, <2>2
<1>4. \A i \in 1..Len(v) : 1 + i \in 1..Len(y)
    BY <1>2
<1>5. Len(x) = Len(v) + 2 /\ Len(y) + 1 = Len(v) + 2 /\ 1 \in 1..Len(y) /\ 1 + Len(v) <= Len(x)
    BY <1>2, <1>3
<1>6. Part(x, 1, v)
    BY <1>2, <1>3, <1>4, <1>5 DEF Part
<1> QED BY <1>2, <1>3, <1>5, <1>6

\* The scan of a text between two symbols.
LEMMA WrappedScan ==
    ASSUME NEW S, NEW v \in Seq(S), NEW p \in S, NEW q \in S, NEW x, Wraps(x, p, v, q),
           NEW Q, Steps(Q, x)
    PROVE  /\ Q[0] \in ScanState /\ Q[1] \in ScanState /\ Q[1 + Len(v)] \in ScanState
           /\ Q[1] = ScanSymbol(Q[0], p) /\ Q[Len(x)] = ScanSymbol(Q[1 + Len(v)], q)
<1>1. /\ x \in Seq(S) /\ Len(v) \in Nat /\ Len(x) = Len(v) + 2
      /\ x[1] = p /\ x[Len(v) + 2] = q
    BY Wrapped
<1>2. Q \in [Nat -> ScanState] /\ \A k \in 0..(Len(x) - 1) : Q[k + 1] = ScanSymbol(Q[k], x[k + 1])
    BY DEF Steps
<1>3. 0 \in 0..(Len(x) - 1) /\ 0 + 1 = 1 /\ 1 + Len(v) \in 0..(Len(x) - 1) /\ 1 + Len(v) \in Nat
      /\ (1 + Len(v)) + 1 = Len(v) + 2
    BY <1>1
<1>4. Q[0 + 1] = ScanSymbol(Q[0], x[0 + 1])
    BY <1>2, <1>3
<1>5. Q[(1 + Len(v)) + 1] = ScanSymbol(Q[1 + Len(v)], x[(1 + Len(v)) + 1])
    BY <1>2, <1>3
<1> QED BY <1>1, <1>2, <1>3, <1>4, <1>5

\* Quotes around what does not end a string are passed,
LEMMA KeepsQuoted ==
    ASSUME NEW S, Quote \in S, NEW v \in Seq(S), Keeps(v, TRUE)
    PROVE  Quoted(v) \in Seq(S) /\ Keeps(Quoted(v), FALSE)
<1>1. PICK x : Wraps(x, Quote, v, Quote)
    BY DEF Wraps
<1>2. /\ x \in Seq(S) /\ Len(v) \in Nat /\ Len(x) = Len(v) + 2 /\ Part(x, 1, v) /\ Len(x) \in Nat
    BY <1>1, Wrapped
<1>3. Quoted(v) = x
    BY <1>1 DEF Quoted, Wraps
<1>4. ASSUME NEW Q, Steps(Q, x), Calm(Q[0], FALSE) PROVE Kept(Q, 0, Len(x), FALSE)
    <2>1. /\ Q[0] \in ScanState /\ Q[1] \in ScanState /\ Q[1 + Len(v)] \in ScanState
          /\ Q[1] = ScanSymbol(Q[0], Quote) /\ Q[Len(x)] = ScanSymbol(Q[1 + Len(v)], Quote)
        BY <1>1, <1>4, WrappedScan
    <2>2. Q[1].depth = Q[0].depth /\ Calm(Q[1], TRUE)
        BY <1>4, <2>1, QuoteToggles
    <2>3. Kept(Q, 1, 1 + Len(v), TRUE)
        BY <1>2, <1>4, <2>2, PartKept
    <2>4. Calm(Q[1 + Len(v)], TRUE) /\ Q[1 + Len(v)].depth = Q[1].depth
          /\ \A k \in 1..(1 + Len(v)) : Q[k].depth >= Q[1].depth
        BY <2>3 DEF Kept
    <2>5. Q[Len(x)].depth = Q[1 + Len(v)].depth /\ Calm(Q[Len(x)], FALSE)
        BY <2>1, <2>4, QuoteToggles
    <2>6. Q[0].depth \in Int
        BY <2>1 DEF ScanState
    <2>7. ASSUME NEW k \in 0..Len(x) PROVE Q[k].depth >= Q[0].depth
        <3>1. k = 0 \/ k \in 1..(1 + Len(v)) \/ k = Len(x)
            BY <1>2
        <3> QED BY <2>2, <2>4, <2>5, <2>6, <3>1
    <2> QED BY <2>2, <2>4, <2>5, <2>7 DEF Kept
<1> QED BY <1>2, <1>3, <1>4 DEF Keeps

\* braces around what is passed make one object,
LEMMA BracedScan ==
    ASSUME NEW S, Opening \in S, Closing \in S, NEW v \in Seq(S), Keeps(v, FALSE),
           NEW x, Wraps(x, Opening, v, Closing), NEW Q, Steps(Q, x), Calm(Q[0], FALSE)
    PROVE  /\ Kept(Q, 0, Len(x), FALSE)
           /\ \A k \in 1..(Len(x) - 1) : Q[k].depth > Q[0].depth
<1>1. x \in Seq(S) /\ Len(v) \in Nat /\ Len(x) = Len(v) + 2 /\ Part(x, 1, v) /\ Len(x) \in Nat
    BY Wrapped
<1>2. /\ Q[0] \in ScanState /\ Q[1] \in ScanState /\ Q[1 + Len(v)] \in ScanState
      /\ Q[1] = ScanSymbol(Q[0], Opening) /\ Q[Len(x)] = ScanSymbol(Q[1 + Len(v)], Closing)
    BY WrappedScan
<1>3. Q[1].depth = Q[0].depth + 1 /\ Calm(Q[1], FALSE)
    BY <1>2, BracesCount
<1>4. Kept(Q, 1, 1 + Len(v), FALSE)
    BY <1>1, <1>3, PartKept
<1>5. Calm(Q[1 + Len(v)], FALSE) /\ Q[1 + Len(v)].depth = Q[1].depth
      /\ \A k \in 1..(1 + Len(v)) : Q[k].depth >= Q[1].depth
    BY <1>4 DEF Kept
<1>6. Q[Len(x)].depth = Q[1 + Len(v)].depth - 1 /\ Calm(Q[Len(x)], FALSE)
    BY <1>2, <1>5, BracesCount
<1>7. Q[0].depth \in Int /\ Q[1].depth \in Int /\ \A k \in 1..(1 + Len(v)) : Q[k].depth \in Int
    <2>1. \A k \in 1..(1 + Len(v)) : k \in Nat
        BY <1>1
    <2> QED BY <1>2, <2>1 DEF ScanState, Steps
<1>8. ASSUME NEW k \in 1..(Len(x) - 1) PROVE Q[k].depth > Q[0].depth
    <2>1. k \in 1..(1 + Len(v))
        BY <1>1
    <2> QED BY <1>3, <1>5, <1>7, <2>1
<1>9. ASSUME NEW k \in 0..Len(x) PROVE Q[k].depth >= Q[0].depth
    <2>1. k = 0 \/ k \in 1..(1 + Len(v)) \/ k = Len(x)
        BY <1>1
    <2> QED BY <1>3, <1>5, <1>6, <1>7, <2>1
<1>10. Q[Len(x)].depth = Q[0].depth
    BY <1>3, <1>5, <1>6, <1>7
<1> QED BY <1>6, <1>8, <1>9, <1>10 DEF Kept

\* A text that scans as one object from its first symbol on.
LEMMA BracedIsObject ==
    ASSUME NEW S, Opening \in S, Closing \in S, NEW v \in Seq(S), Keeps(v, FALSE),
           NEW x, Wraps(x, Opening, v, Closing)
    PROVE  x \in Seq(S) /\ Keeps(x, FALSE) /\ IsObject(x)
<1>1. x \in Seq(S) /\ Len(v) \in Nat /\ Len(x) = Len(v) + 2 /\ x[1] = Opening
    BY Wrapped
<1>2. Keeps(x, FALSE)
    <2> SUFFICES ASSUME NEW Q, Steps(Q, x), Calm(Q[0], FALSE) PROVE Kept(Q, 0, Len(x), FALSE)
        BY DEF Keeps
    <2> QED BY BracedScan
<1>3. PICK P : Runs(P, x, 0)
    BY ScanExists
<1>4. /\ P \in [Nat -> ScanState] /\ P[0] = ScanStart
      /\ \A k \in Nat : P[k + 1] = ScanSymbol(P[k], x[k + 1])
    <2>1. \A k \in Nat : 0 + k + 1 = k + 1
        OBVIOUS
    <2> QED BY <1>3, <2>1 DEF Runs
<1>5. Steps(P, x)
    <2>1. \A k \in 0..(Len(x) - 1) : k \in Nat
        BY <1>1
    <2> QED BY <1>4, <2>1 DEF Steps
<1>6. P[0].depth = 0 /\ Calm(P[0], FALSE)
    BY <1>4 DEF ScanStart, Calm
<1>7. Kept(P, 0, Len(x), FALSE) /\ \A k \in 1..(Len(x) - 1) : P[k].depth > 0
    BY <1>5, <1>6, BracedScan
<1>8. P[Len(x)].depth = 0 /\ \A k \in 1..(Len(x) - 1) : P[k].depth # 0
    <2>1. P[Len(x)].depth = 0
        BY <1>6, <1>7 DEF Kept
    <2>2. ASSUME NEW k \in 1..(Len(x) - 1) PROVE P[k].depth # 0
        <3>1. P[k].depth > 0
            BY <1>7
        <3> QED BY <3>1
    <2> QED BY <2>1, <2>2
<1>9. 1 \in 1..Len(x) /\ Len(x) \in 1..Len(x) /\ Len(x) - 1 + 1 = Len(x) /\ 1 - 1 = 0
    BY <1>1
<1>10. \A k \in 0..(Len(x) - 1) : P[k + 1] = ScanSymbol(P[k], x[0 + k + 1])
    <2>1. \A k \in 0..(Len(x) - 1) : k \in Nat /\ 0 + k + 1 = k + 1
        BY <1>1
    <2> QED BY <1>4, <2>1
<1>11. Scans(P, x, 0, Len(x))
    BY <1>4, <1>8, <1>10 DEF Scans
<1>12. ObjectEnd(x, 1) = Len(x)
    BY <1>1, <1>9, <1>11, ObjectEnds
<1>13. IsObject(x)
    BY <1>1, <1>12, Zenon DEF IsObject, Opening
<1> QED BY <1>1, <1>2, <1>13

\* The members of an object with their commas.
Listed(members) ==
    [i \in DOMAIN members |-> IF i = 1 THEN members[i] ELSE <<Comma>> \o members[i]]

\* x is the object of these members, seqs what each of them adds to it.
ListsMembers(x, seqs, S, members) ==
    /\ Wraps(x, Opening, FlattenSeq(seqs), Closing)
    /\ seqs \in Seq(Seq(S)) /\ Len(seqs) = Len(members) /\ Len(members) \in Nat
    /\ \A i \in 1..Len(members) :
          /\ members[i] \in Seq(S)
          /\ seqs[i] = IF i = 1 THEN members[i] ELSE <<Comma>> \o members[i]

\* What JsonObject makes of its members.
LEMMA ListedAre ==
    ASSUME NEW S, Comma \in S, NEW members \in Seq(Seq(S)), NEW seqs, seqs = Listed(members)
    PROVE  ListsMembers(JsonObject(members), seqs, S, members)
<1>1. Wraps(JsonObject(members), Opening, FlattenSeq(seqs), Closing)
    BY Zenon DEF Wraps, JsonObject, Opening, Closing, Comma, Listed
<1>2. Len(members) \in Nat /\ DOMAIN members = 1..Len(members)
      /\ \A i \in 1..Len(members) : members[i] \in Seq(S)
    OBVIOUS
<1> DEFINE row(i) == IF i = 1 THEN members[i] ELSE <<Comma>> \o members[i]
<1>3. seqs = [i \in 1..Len(members) |-> row(i)]
    BY <1>2 DEF Listed
<1>4. ASSUME NEW i \in 1..Len(members) PROVE row(i) \in Seq(S)
    <2>1. members[i] \in Seq(S) /\ <<Comma>> \in Seq(S)
        BY <1>2
    <2>2. <<Comma>> \o members[i] \in Seq(S)
        BY <2>1, ConcatProperties
    <2> QED BY <2>1, <2>2
<1> HIDE DEF row
<1>5. seqs \in [1..Len(members) -> Seq(S)] /\ \A i \in 1..Len(members) : seqs[i] = row(i)
    BY <1>3, <1>4
<1>6. seqs \in Seq(Seq(S)) /\ Len(seqs) = Len(members)
    <2>1. PICK n, T : n = Len(members) /\ T = Seq(S)
        OBVIOUS
    <2>2. n \in Nat /\ seqs \in [1..n -> T]
        BY <1>2, <1>5, <2>1
    <2>3. seqs \in Seq(T) /\ Len(seqs) = n
        BY <2>2, SeqDef
    <2> QED BY <2>1, <2>3
<1> QED BY <1>1, <1>2, <1>5, <1>6 DEF row, ListsMembers

\* and an object of members that are passed is one object.
LEMMA KeepsObject ==
    ASSUME NEW S, Opening \in S, Closing \in S, Comma \in S, NEW members \in Seq(Seq(S)),
           \A i \in 1..Len(members) : Keeps(members[i], FALSE),
           NEW x, x = JsonObject(members)
    PROVE  x \in Seq(S) /\ Keeps(x, FALSE) /\ IsObject(x)
<1>1. PICK seqs : seqs = Listed(members)
    OBVIOUS
<1>2. /\ Wraps(x, Opening, FlattenSeq(seqs), Closing)
      /\ seqs \in Seq(Seq(S)) /\ Len(seqs) = Len(members) /\ Len(members) \in Nat
      /\ \A i \in 1..Len(members) :
            /\ members[i] \in Seq(S)
            /\ seqs[i] = IF i = 1 THEN members[i] ELSE <<Comma>> \o members[i]
    <2>1. ListsMembers(x, seqs, S, members)
        BY <1>1, ListedAre
    <2> QED BY <2>1 DEF ListsMembers
<1>3. Keeps(<<Comma>>, FALSE) /\ <<Comma>> \in Seq(S)
    <2>1. Len(<<Comma>>) = 1 /\ <<Comma>>[1] = Comma /\ <<Comma>> \in Seq(S)
        OBVIOUS
    <2>2. ASSUME NEW i \in 1..Len(<<Comma>>) PROVE Plain(<<Comma>>[i], FALSE)
        <3>1. i = 1
            BY <2>1
        <3> QED BY <2>1, <3>1, PlainAre
    <2>3. Len(<<Comma>>) \in Nat
        BY <2>1
    <2> QED BY <2>1, <2>2, <2>3, KeepsPlain
<1>4. ASSUME NEW i \in 1..Len(seqs) PROVE Keeps(seqs[i], FALSE)
    <2>1. i \in 1..Len(members) /\ Keeps(members[i], FALSE) /\ members[i] \in Seq(S)
        BY <1>2
    <2>2. CASE i = 1
        BY <1>2, <2>1, <2>2
    <2>3. CASE i # 1
        <3>1. Keeps(<<Comma>> \o members[i], FALSE)
            BY <1>3, <2>1, KeepsJoined
        <3> QED BY <1>2, <2>1, <2>3, <3>1
    <2> QED BY <2>2, <2>3
<1>5. Keeps(FlattenSeq(seqs), FALSE) /\ FlattenSeq(seqs) \in Seq(S)
    BY <1>2, <1>4, KeepsFlattened, FlattenIs
<1> QED BY <1>2, <1>5, BracedIsObject

\* A telemetry object that was scanned once is passed.
LEMMA DepthSteps ==
    ASSUME NEW a \in ScanState, NEW s, NEW b, b = ScanSymbol(a, s)
    PROVE  \/ b.depth = a.depth
           \/ b.depth \in {a.depth - 1, a.depth + 1} /\ Calm(b, FALSE)
<1>1. CASE a.escape
    <2>1. b = [a EXCEPT !.escape = FALSE, !.inString = IF s \in Names THEN ~@ ELSE @]
        BY <1>1 DEF ScanSymbol
    <2> QED BY <2>1, Cleared
<1>2. CASE ~a.escape /\ s = Backslash
    <2>1. b = [a EXCEPT !.escape = TRUE]
        BY <1>2, Zenon DEF ScanSymbol, Backslash
    <2> QED BY <2>1, Escaped
<1>3. CASE ~a.escape /\ s = Quote
    <2>1. b = [a EXCEPT !.inString = ~@]
        BY <1>3, MarksApart, Zenon DEF ScanSymbol, Backslash
    <2> QED BY <2>1, Toggled
<1>4. CASE ~a.escape /\ s # Backslash /\ s # Quote
    <2>1. \/ b = a
          \/ a.inString = FALSE /\ (b = [a EXCEPT !.depth = @ + 1] \/ b = [a EXCEPT !.depth = @ - 1])
        <3>1. a.inString \in BOOLEAN
            BY DEF ScanState
        <3> QED BY <1>4, <3>1, Zenon DEF ScanSymbol, Backslash
    <2>2. a.escape = FALSE
        BY <1>4 DEF ScanState
    <2>3. CASE b = a
        BY <2>3
    <2>4. CASE a.inString = FALSE /\ b = [a EXCEPT !.depth = @ + 1]
        <3>1. b.depth = a.depth + 1 /\ b.inString = a.inString /\ b.escape = a.escape
            BY <2>4, Deepened
        <3> QED BY <2>2, <2>4, <3>1 DEF Calm
    <2>5. CASE a.inString = FALSE /\ b = [a EXCEPT !.depth = @ - 1]
        <3>1. b.depth = a.depth - 1 /\ b.inString = a.inString /\ b.escape = a.escape
            BY <2>5, Raised
        <3> QED BY <2>2, <2>5, <3>1 DEF Calm
    <2> QED BY <2>1, <2>3, <2>4, <2>5
<1> QED BY <1>1, <1>2, <1>3, <1>4

\* How a scan begins.
LEMMA StartIs == ScanStart.depth = 0 /\ Calm(ScanStart, FALSE) /\ ScanStart \in ScanState
BY DEF ScanStart, ScanState, Calm

\* What the scan reads as one object is one, and leaves every other scan as it is.
LEMMA KeepsWhole ==
    ASSUME NEW t, Len(t) \in Nat, WholeObject(t), t[1] = Opening
    PROVE  Keeps(t, FALSE) /\ IsObject(t)
<1>1. PICK n \in Nat \ {0} : n = Len(t)
    BY DEF WholeObject
<1>2. PICK P : Scans(P, t, 0, n)
    BY <1>1 DEF WholeObject
<1>3. /\ P \in [Nat -> ScanState] /\ P[0] = ScanStart
      /\ \A k \in 0..(n - 1) : P[k + 1] = ScanSymbol(P[k], t[k + 1])
      /\ P[n].depth = 0 /\ \A k \in 1..(n - 1) : P[k].depth # 0
    <2>1. \A k \in 0..(n - 1) : 0 + k + 1 = k + 1
        OBVIOUS
    <2> QED BY <1>2, <2>1 DEF Scans
<1>4. P[0].depth = 0 /\ Calm(P[0], FALSE) /\ P[0] \in ScanState
    BY <1>3, StartIs
<1>5. P[1].depth = 1 /\ P[1] \in ScanState
    <2>1. 0 \in 0..(n - 1) /\ 0 + 1 = 1
        BY <1>1
    <2>2. P[0 + 1] = ScanSymbol(P[0], t[0 + 1])
        BY <1>3, <2>1
    <2>3. P[1] = ScanSymbol(P[0], Opening)
        BY <2>1, <2>2
    <2>4. PICK b, c : b = P[1] /\ c = ScanSymbol(P[0], Closing)
        OBVIOUS
    <2>5. b \in ScanState /\ b.depth = P[0].depth + 1
        BY <1>4, <2>3, <2>4, BracesCount
    <2> QED BY <1>4, <2>4, <2>5
<1>6. n # 1 /\ n - 1 \in 1..(n - 1) /\ n - 1 \in Nat /\ (n - 1) + 1 = n
    BY <1>1, <1>3, <1>5
<1> DEFINE T == {k \in Nat : k + 1 <= n - 1 => P[k + 1].depth >= 1}
<1>7. \A k \in Nat : k \in T
    <2>1. 0 \in T
        BY <1>5
    <2>2. ASSUME NEW k \in T PROVE k + 1 \in T
        <3>1. PICK j : j = k + 1
            OBVIOUS
        <3>2. CASE ~(j + 1 <= n - 1)
            BY <3>1, <3>2
        <3>3. CASE j + 1 <= n - 1
            <4>1. j \in Nat /\ j \in 0..(n - 1) /\ j + 1 \in 1..(n - 1) /\ P[j].depth >= 1
                BY <1>1, <3>1, <3>3
            <4>2. P[j + 1] = ScanSymbol(P[j], t[j + 1]) /\ P[j] \in ScanState /\ P[j + 1].depth # 0
                BY <1>3, <4>1
            <4>3. P[j + 1].depth = P[j].depth \/ P[j + 1].depth \in {P[j].depth - 1, P[j].depth + 1}
                BY <4>2, DepthSteps
            <4>4. P[j].depth \in Int
                BY <4>2 DEF ScanState
            <4>5. P[j + 1].depth >= 1
                BY <4>1, <4>2, <4>3, <4>4
            <4> QED BY <3>1, <4>5
        <3> QED BY <3>2, <3>3
    <2>3. T \in SUBSET Nat
        OBVIOUS
    <2> HIDE DEF T
    <2> QED BY <2>1, <2>2, <2>3, Induction
<1>8. ASSUME NEW k \in 1..(n - 1) PROVE P[k].depth >= 1
    <2>1. k - 1 \in Nat /\ (k - 1) + 1 = k /\ k <= n - 1
        BY <1>1
    <2> QED BY <1>7, <2>1
<1>9. Calm(P[n], FALSE)
    <2>1. P[n] = ScanSymbol(P[n - 1], t[n]) /\ P[n - 1] \in ScanState
        <3>1. n - 1 \in 0..(n - 1)
            BY <1>6
        <3>2. P[(n - 1) + 1] = ScanSymbol(P[n - 1], t[(n - 1) + 1])
            BY <1>3, <3>1
        <3> QED BY <1>3, <1>6, <3>2
    <2>2. P[n].depth # P[n - 1].depth
        BY <1>3, <1>6
    <2> QED BY <2>1, <2>2, DepthSteps
<1>10. Keeps(t, FALSE)
    <2> SUFFICES ASSUME NEW Q, Steps(Q, t), Calm(Q[0], FALSE) PROVE Kept(Q, 0, Len(t), FALSE)
        BY DEF Keeps
    <2>1. /\ Q \in [Nat -> ScanState]
          /\ \A k \in 0..(n - 1) : Q[k + 1] = ScanSymbol(Q[k], t[k + 1])
        BY <1>1 DEF Steps
    <2>2. PICK c \in Int : c = Q[0].depth
        BY <2>1 DEF ScanState
    <2> DEFINE U == {k \in Nat : k <= n => Alike(Q[k], P[k], c)}
    <2>3. 0 \in U
        <3>1. Q[0].inString = P[0].inString /\ Q[0].escape = P[0].escape
            BY <1>4 DEF Calm
        <3>2. Q[0].depth = P[0].depth + c
            BY <1>4, <2>2
        <3>3. Alike(Q[0], P[0], c)
            BY <3>1, <3>2 DEF Alike
        <3> QED BY <3>3
    <2>4. ASSUME NEW k \in U PROVE k + 1 \in U
        <3> SUFFICES ASSUME k + 1 <= n PROVE Alike(Q[k + 1], P[k + 1], c)
            OBVIOUS
        <3>1. k \in Nat /\ k \in 0..(n - 1) /\ Alike(Q[k], P[k], c)
            BY <1>1
        <3>2. /\ Q[k + 1] = ScanSymbol(Q[k], t[k + 1]) /\ P[k + 1] = ScanSymbol(P[k], t[k + 1])
              /\ Q[k] \in ScanState /\ P[k] \in ScanState
            BY <1>3, <2>1, <3>1
        <3> QED BY <3>1, <3>2, ScanAlike
    <2>5. \A k \in Nat : k \in U
        <3>1. U \in SUBSET Nat
            OBVIOUS
        <3> HIDE DEF U
        <3> QED BY <2>3, <2>4, <3>1, Induction
    <2>6. ASSUME NEW k \in 0..n PROVE Alike(Q[k], P[k], c)
        BY <1>1, <2>5
    <2>7. Calm(Q[n], FALSE) /\ Q[n].depth = Q[0].depth
        <3>1. Alike(Q[n], P[n], c)
            BY <1>1, <2>6
        <3> QED BY <1>3, <1>9, <2>2, <3>1 DEF Alike, Calm
    <2>8. ASSUME NEW k \in 0..n PROVE Q[k].depth >= Q[0].depth
        <3>1. Q[k].depth = P[k].depth + c
            BY <2>6 DEF Alike
        <3>2. P[k].depth \in Int /\ P[k].depth >= 0
            <4>1. k = 0 \/ k \in 1..(n - 1) \/ k = n
                BY <1>1
            <4>2. P[k].depth \in Int
                BY <1>1, <1>3 DEF ScanState
            <4> QED BY <1>3, <1>4, <1>8, <4>1, <4>2
        <3> QED BY <2>2, <3>1, <3>2
    <2> QED BY <1>1, <2>7, <2>8 DEF Kept
<1>11. ObjectEnd(t, 1) = Len(t)
    <2>1. 1 \in 1..Len(t) /\ Len(t) \in 1..Len(t) /\ 1 - 1 = 0 /\ Len(t) - 1 + 1 = n
        BY <1>1
    <2> QED BY <1>1, <1>2, <2>1, ObjectEnds
<1>12. IsObject(t)
    BY <1>1, <1>11, Zenon DEF IsObject, Opening
<1> QED BY <1>10, <1>12

\* What the gateway writes besides what it was sent.
Signs ==
    Symbols \cup {Backslash, Opening, Closing, Comma, Colon, "null", "true", "false", "now", "tx",
                  "near ", "key", "missing ", "telemetry.ingested", "ingest.rejected", "accepted",
                  "route not found", "invalid HTTP request", "400", "202", "404",
                  "Connection: close", "HTTP/1.1", "wifi", "default-pubkey", ContentLength}

\* Which symbols are signs.
LEMMA SignsAre ==
    /\ Symbols \subseteq Signs /\ Names \subseteq Signs /\ Digits \subseteq Signs
    /\ Quote \in Signs /\ Backslash \in Signs /\ Opening \in Signs /\ Closing \in Signs
    /\ Comma \in Signs /\ Colon \in Signs /\ Sp \in Signs /\ Cr \in Signs /\ Lf \in Signs
    /\ ContentLength \in Signs
<1>1. Symbols \subseteq Signs
    BY DEF Signs
<1>2. Names \subseteq Symbols /\ Digits \subseteq Symbols /\ Quote \in Symbols
      /\ Sp \in Symbols /\ Cr \in Symbols /\ Lf \in Symbols
    BY Zenon DEF Symbols, Sp, Cr, Lf
<1>3. /\ Backslash \in Signs /\ Opening \in Signs /\ Closing \in Signs /\ Comma \in Signs
      /\ Colon \in Signs /\ ContentLength \in Signs
    BY Zenon DEF Signs
<1> QED BY <1>1, <1>2, <1>3, Zenon

\* The texts that a scan passes.
PassedTexts == {x \in Seq(Signs) : Keeps(x, FALSE)}

\* The names of members, written out.
LEMMA NamesAre ==
    {"deviceId", "timestamp", "telemetry", "hash", "signature", "pubKeyId", "transport", "batchCode",
     "recordId", "receipt", "txHash", "blockHeight", "submittedAt", "type", "message", "accepted",
     "processingMs", "error"} \subseteq Names
BY RequiredAre, Zenon DEF Names, Optional

\* A text of plain symbols is passed,
LEMMA PassedPlain ==
    ASSUME NEW x \in Seq(Signs), \A i \in 1..Len(x) : Plain(x[i], FALSE)
    PROVE  x \in PassedTexts
<1>1. Len(x) \in Nat
    OBVIOUS
<1>2. Keeps(x, FALSE)
    BY <1>1, KeepsPlain
<1> QED BY <1>2 DEF PassedTexts

\* a symbol that is plain is,
LEMMA PassedSign ==
    ASSUME NEW s \in Signs, Plain(s, FALSE) PROVE <<s>> \in PassedTexts
<1>1. PICK x : x = <<s>>
    OBVIOUS
<1>2. x \in Seq(Signs) /\ Len(x) = 1 /\ x[1] = s
    BY <1>1
<1>3. ASSUME NEW i \in 1..Len(x) PROVE Plain(x[i], FALSE)
    <2>1. i = 1
        BY <1>2
    <2> QED BY <1>2, <2>1
<1> QED BY <1>1, <1>2, <1>3, PassedPlain

\* the digits of a number are,
LEMMA PassedNumber ==
    ASSUME NEW n \in Nat PROVE Decimal[n] \in PassedTexts
<1>1. PICK d : d = Decimal[n]
    OBVIOUS
<1>2. d \in Seq(Digits)
    BY <1>1, DecimalIsRead
<1>3. d \in Seq(Signs)
    BY <1>2, SignsAre, SeqMonotonic
<1>4. ASSUME NEW i \in 1..Len(d) PROVE Plain(d[i], FALSE)
    <2>1. d[i] \in Digits
        BY <1>2
    <2> QED BY <2>1, PlainAre
<1> QED BY <1>1, <1>3, <1>4, PassedPlain

\* two texts one behind the other are,
LEMMA PassedJoined ==
    ASSUME NEW a \in PassedTexts, NEW b \in PassedTexts PROVE a \o b \in PassedTexts
<1>1. a \in Seq(Signs) /\ b \in Seq(Signs) /\ Keeps(a, FALSE) /\ Keeps(b, FALSE)
    BY DEF PassedTexts
<1>2. a \o b \in Seq(Signs)
    BY <1>1, ConcatProperties
<1>3. Keeps(a \o b, FALSE)
    BY <1>1, KeepsJoined
<1> QED BY <1>2, <1>3 DEF PassedTexts

\* a member whose value is passed is,
LEMMA PassedMember ==
    ASSUME NEW name \in Names, NEW v \in PassedTexts PROVE Member(name, v) \in PassedTexts
<1>1. PICK x : x = <<name, Colon>>
    OBVIOUS
<1>2. x \in Seq(Signs) /\ Len(x) = 2 /\ x[1] = name /\ x[2] = Colon
    <2>1. name \in Signs /\ Colon \in Signs
        BY SignsAre
    <2> QED BY <1>1, <2>1
<1>3. ASSUME NEW i \in 1..Len(x) PROVE Plain(x[i], FALSE)
    <2>1. i = 1 \/ i = 2
        BY <1>2
    <2> QED BY <1>2, <2>1, PlainAre
<1>4. x \in PassedTexts
    BY <1>2, <1>3, PassedPlain
<1>5. Member(name, v) = x \o v
    BY <1>1, Zenon DEF Member, Colon
<1> QED BY <1>4, <1>5, PassedJoined

\* a member with an escaped string is, whatever the string holds,
LEMMA PassedText ==
    ASSUME NEW name \in Names, NEW value \in Seq(Signs) PROVE JsonText(name, value) \in PassedTexts
<1>1. PICK v : v = JsonEscape(value)
    OBVIOUS
<1>2. v \in Seq(Signs) /\ Keeps(v, TRUE)
    BY <1>1, SignsAre, KeepsEscaped
<1>3. Quoted(v) \in Seq(Signs) /\ Keeps(Quoted(v), FALSE)
    BY <1>2, SignsAre, KeepsQuoted
<1>4. PICK q : q = Quoted(v)
    OBVIOUS
<1>5. q \in PassedTexts
    BY <1>3, <1>4 DEF PassedTexts
<1>6. JsonText(name, value) = Member(name, q)
    BY <1>1, <1>4 DEF JsonText
<1> QED BY <1>5, <1>6, PassedMember

\* a member with a number is,
LEMMA PassedCount ==
    ASSUME NEW name \in Names, NEW n \in Nat PROVE JsonNumber(name, n) \in PassedTexts
<1>1. JsonNumber(name, n) = Member(name, Decimal[n])
    BY DEF JsonNumber
<1> QED BY <1>1, PassedNumber, PassedMember

\* and an object of such members is, and is one object.
LEMMA PassedObject ==
    ASSUME NEW members \in Seq(PassedTexts)
    PROVE  JsonObject(members) \in PassedTexts /\ IsObject(JsonObject(members))
<1>1. PICK x : x = JsonObject(members)
    OBVIOUS
<1>2. PassedTexts \subseteq Seq(Signs)
    BY DEF PassedTexts
<1>3. members \in Seq(Seq(Signs))
    BY <1>2, SeqMonotonic
<1>4. ASSUME NEW i \in 1..Len(members) PROVE Keeps(members[i], FALSE)
    <2>1. members[i] \in PassedTexts
        OBVIOUS
    <2> QED BY <2>1 DEF PassedTexts
<1>5. x \in Seq(Signs) /\ Keeps(x, FALSE) /\ IsObject(x)
    <2>1. Opening \in Signs /\ Closing \in Signs /\ Comma \in Signs
        BY SignsAre
    <2> QED BY <1>1, <1>3, <1>4, <2>1, KeepsObject
<1> QED BY <1>1, <1>5 DEF PassedTexts

\* The literals that answers have outside of strings are plain.
LEMMA WordsPlain ==
    <<"null">> \in PassedTexts /\ <<"true">> \in PassedTexts /\ <<"false">> \in PassedTexts
<1>1. Plain("null", FALSE) /\ Plain("true", FALSE) /\ Plain("false", FALSE)
    BY Zenon DEF Plain, Quote
<1>2. "null" \in Signs /\ "true" \in Signs /\ "false" \in Signs
    BY Zenon DEF Signs
<1> QED BY <1>1, <1>2, PassedSign

\* Receipts are objects or null,
ReceiptIs(receipt) == receipt = None \/ (receipt.txHash \in Seq(Signs) /\ receipt.blockHeight \in Nat)

\* which are passed within a record.
LEMMA ReceiptsPassed ==
    ASSUME NEW receipt, ReceiptIs(receipt) PROVE ReceiptToJson(receipt) \in PassedTexts
<1>1. CASE receipt = None
    BY <1>1, WordsPlain DEF ReceiptToJson
<1>2. CASE receipt # None
    <2>1. PICK a, b, c : /\ a = JsonText("txHash", receipt.txHash)
                         /\ b = JsonNumber("blockHeight", receipt.blockHeight)
                         /\ c = JsonText("submittedAt", <<"now">>)
        OBVIOUS
    <2>2. a \in PassedTexts /\ b \in PassedTexts
        BY <1>2, <2>1, NamesAre, PassedText, PassedCount DEF ReceiptIs
    <2>3. c \in PassedTexts
        <3>1. "now" \in Signs
            BY Zenon DEF Signs
        <3>2. <<"now">> \in Seq(Signs)
            BY <3>1
        <3> QED BY <2>1, <3>2, NamesAre, PassedText
    <2>4. <<a, b, c>> \in Seq(PassedTexts)
        BY <2>2, <2>3
    <2>5. ReceiptToJson(receipt) = JsonObject(<<a, b, c>>)
        BY <1>2, <2>1, Zenon DEF ReceiptToJson
    <2> QED BY <2>4, <2>5, PassedObject
<1> QED BY <1>1, <1>2

\* and errors, results and events are objects.
LEMMA ErrorIsObject ==
    ASSUME NEW error \in Seq(Signs) PROVE ErrorToJson(error) \in Seq(Signs) /\ IsObject(ErrorToJson(error))
<1>1. PICK a : a = JsonText("error", error)
    OBVIOUS
<1>2. a \in PassedTexts
    BY <1>1, NamesAre, PassedText
<1>3. <<a>> \in Seq(PassedTexts)
    BY <1>2
<1>4. ErrorToJson(error) = JsonObject(<<a>>)
    BY <1>1 DEF ErrorToJson
<1> QED BY <1>3, <1>4, PassedObject DEF PassedTexts

\* A result as the gateway writes it.
ResultIs(r) ==
    /\ r.accepted \in BOOLEAN /\ r.message \in Seq(Signs) /\ r.recordId \in Nat
    /\ ReceiptIs(r.receipt) /\ (r.accepted => r.receipt.txHash \in Seq(Signs))

\* The answer to an ingest is one object.
LEMMA ResultIsObject ==
    ASSUME NEW r, ResultIs(r) PROVE ResultToJson(r) \in Seq(Signs) /\ IsObject(ResultToJson(r))
<1>1. PICK a, b, c, d, e :
         /\ a = Member("accepted", IF r.accepted THEN <<"true">> ELSE <<"false">>)
         /\ b = JsonText("message", r.message) /\ c = JsonNumber("recordId", r.recordId)
         /\ d = JsonNumber("processingMs", 0) /\ e = Member("receipt", ReceiptToJson(r.receipt))
    OBVIOUS
<1>2. a \in PassedTexts
    <2>1. PICK w \in PassedTexts : w = IF r.accepted THEN <<"true">> ELSE <<"false">>
        BY WordsPlain
    <2> QED BY <1>1, <2>1, NamesAre, PassedMember
<1>3. b \in PassedTexts /\ c \in PassedTexts /\ d \in PassedTexts
    BY <1>1, NamesAre, PassedText, PassedCount DEF ResultIs
<1>4. e \in PassedTexts
    BY <1>1, NamesAre, ReceiptsPassed, PassedMember DEF ResultIs
<1>5. <<a, b, c, d, e>> \in Seq(PassedTexts)
    BY <1>2, <1>3, <1>4
<1>6. ResultToJson(r) = JsonObject(<<a, b, c, d, e>>)
    BY <1>1, Zenon DEF ResultToJson
<1> QED BY <1>5, <1>6, PassedObject DEF PassedTexts

\* The texts of a packet that the parser returned.
PacketTexts(p) ==
    /\ p.deviceId \in Seq(Signs) /\ p.hashHex \in Seq(Signs) /\ p.signature \in Seq(Signs)
    /\ p.pubKeyId \in Seq(Signs) /\ p.transport \in Seq(Signs) /\ p.batchCode \in Seq(Signs)
    /\ p.timestamp \in Nat /\ Unquoted(p.deviceId)
    /\ p.telemetryJson \in PassedTexts /\ p.telemetryJson[1] = Opening
    /\ WholeObject(p.telemetryJson)

\* An event is one object.
LEMMA EventIsObject ==
    ASSUME NEW p, PacketTexts(p), NEW r, ResultIs(r)
    PROVE  IsObject(EventToJson(p, r))
<1>1. CASE r.accepted
    <2>1. PICK a, b, c, d, e, f :
             /\ a = JsonText("type", <<"telemetry.ingested">>)
             /\ b = JsonText("deviceId", p.deviceId) /\ c = JsonNumber("recordId", r.recordId)
             /\ d = JsonNumber("timestamp", p.timestamp)
             /\ e = JsonText("transport", p.transport)
             /\ f = JsonText("txHash", r.receipt.txHash)
        OBVIOUS
    <2>2. a \in PassedTexts
        <3>1. "telemetry.ingested" \in Signs
            BY Zenon DEF Signs
        <3>2. PICK v : v = <<"telemetry.ingested">>
            OBVIOUS
        <3>3. v \in Seq(Signs)
            BY <3>1, <3>2
        <3> QED BY <2>1, <3>2, <3>3, NamesAre, PassedText, Zenon
    <2>3. b \in PassedTexts /\ e \in PassedTexts
        BY <2>1, NamesAre, PassedText DEF PacketTexts
    <2>4. c \in PassedTexts /\ d \in PassedTexts
        BY <2>1, NamesAre, PassedCount DEF PacketTexts, ResultIs
    <2>5. f \in PassedTexts
        BY <1>1, <2>1, NamesAre, PassedText DEF ResultIs
    <2>6. <<a, b, c, d, e, f>> \in Seq(PassedTexts)
        BY <2>2, <2>3, <2>4, <2>5
    <2>7. EventToJson(p, r) = JsonObject(<<a, b, c, d, e, f>>)
        BY <1>1, <2>1, Zenon DEF EventToJson
    <2> QED BY <2>6, <2>7, PassedObject
<1>2. CASE ~r.accepted
    <2>1. PICK a, b, c :
             /\ a = JsonText("type", <<"ingest.rejected">>)
             /\ b = JsonText("deviceId", p.deviceId) /\ c = JsonText("message", r.message)
        OBVIOUS
    <2>2. a \in PassedTexts
        <3>1. "ingest.rejected" \in Signs
            BY Zenon DEF Signs
        <3>2. PICK v : v = <<"ingest.rejected">>
            OBVIOUS
        <3>3. v \in Seq(Signs)
            BY <3>1, <3>2
        <3> QED BY <2>1, <3>2, <3>3, NamesAre, PassedText, Zenon
    <2>3. b \in PassedTexts /\ c \in PassedTexts
        BY <2>1, NamesAre, PassedText DEF PacketTexts, ResultIs
    <2>4. <<a, b, c>> \in Seq(PassedTexts)
        BY <2>2, <2>3
    <2>5. EventToJson(p, r) = JsonObject(<<a, b, c>>)
        BY <1>2, <2>1, Zenon DEF EventToJson
    <2> QED BY <2>4, <2>5, PassedObject
<1> QED BY <1>1, <1>2

\* The members of a record, of which the fourth is the telemetry object.
RecordMembers(record) ==
    <<JsonNumber("recordId", record.recordId),
      JsonText("deviceId", record.packet.deviceId),
      JsonNumber("timestamp", record.packet.timestamp),
      Member("telemetry", record.packet.telemetryJson),
      JsonText("hash", record.packet.hashHex),
      JsonText("signature", record.packet.signature),
      JsonText("pubKeyId", record.packet.pubKeyId),
      JsonText("transport", record.packet.transport)>>
    \o (IF record.packet.batchCode = <<>> THEN <<>>
        ELSE <<JsonText("batchCode", record.packet.batchCode)>>)
    \o <<Member("receipt", ReceiptToJson(record.receipt))>>

\* A record with such a packet.
RecordTexts(record) ==
    record.recordId \in Nat /\ PacketTexts(record.packet) /\ ReceiptIs(record.receipt)

\* The members of a record, of which telemetry is the fourth.
LEMMA RecordIs ==
    ASSUME NEW record, RecordTexts(record), NEW members, members = RecordMembers(record)
    PROVE  /\ RecordToJson(record) = JsonObject(members)
           /\ members \in Seq(PassedTexts) /\ Len(members) >= 4
           /\ members[1] = JsonNumber("recordId", record.recordId)
           /\ members[2] = JsonText("deviceId", record.packet.deviceId)
           /\ members[3] = JsonNumber("timestamp", record.packet.timestamp)
           /\ members[4] = Member("telemetry", record.packet.telemetryJson)
<1>1. PICK a, b, c, d, e, f, g, h, i, j :
         /\ a = JsonNumber("recordId", record.recordId)
         /\ b = JsonText("deviceId", record.packet.deviceId)
         /\ c = JsonNumber("timestamp", record.packet.timestamp)
         /\ d = Member("telemetry", record.packet.telemetryJson)
         /\ e = JsonText("hash", record.packet.hashHex)
         /\ f = JsonText("signature", record.packet.signature)
         /\ g = JsonText("pubKeyId", record.packet.pubKeyId)
         /\ h = JsonText("transport", record.packet.transport)
         /\ i = JsonText("batchCode", record.packet.batchCode)
         /\ j = Member("receipt", ReceiptToJson(record.receipt))
    OBVIOUS
<1>2. /\ a \in PassedTexts /\ b \in PassedTexts /\ c \in PassedTexts /\ d \in PassedTexts
      /\ e \in PassedTexts
    BY <1>1, NamesAre, PassedText, PassedCount, PassedMember DEF PacketTexts, RecordTexts
<1>3. /\ f \in PassedTexts /\ g \in PassedTexts /\ h \in PassedTexts /\ i \in PassedTexts
      /\ j \in PassedTexts
    BY <1>1, NamesAre, PassedText, PassedMember, ReceiptsPassed DEF PacketTexts, RecordTexts
<1>4. PICK first, batch, last :
         /\ first = <<a, b, c, d, e, f, g, h>>
         /\ batch = IF record.packet.batchCode = <<>> THEN <<>> ELSE <<i>>
         /\ last = <<j>>
    OBVIOUS
<1>5. first \in Seq(PassedTexts) /\ batch \in Seq(PassedTexts) /\ last \in Seq(PassedTexts)
      /\ Len(first) = 8 /\ first[1] = a /\ first[2] = b /\ first[3] = c /\ first[4] = d
    <2>1. first \in Seq(PassedTexts) /\ Len(first) = 8
          /\ first[1] = a /\ first[2] = b /\ first[3] = c /\ first[4] = d
        BY <1>2, <1>3, <1>4
    <2>2. <<>> \in Seq(PassedTexts) /\ <<i>> \in Seq(PassedTexts) /\ <<j>> \in Seq(PassedTexts)
        BY <1>3
    <2> QED BY <1>4, <2>1, <2>2
<1>6. members = first \o batch \o last
    BY <1>1, <1>4, Zenon DEF RecordMembers
<1>7. PICK m : m = first \o batch
    OBVIOUS
<1>8. /\ m \in Seq(PassedTexts) /\ Len(m) = Len(first) + Len(batch) /\ Len(batch) \in Nat
      /\ \A k \in 1..Len(first) : m[k] = first[k]
    <2>1. PICK S : S = PassedTexts
        OBVIOUS
    <2>2. first \in Seq(S) /\ batch \in Seq(S)
        BY <1>5, <2>1
    <2>3. /\ m \in Seq(S) /\ Len(m) = Len(first) + Len(batch) /\ Len(batch) \in Nat
          /\ \A k \in 1..Len(first) : m[k] = first[k]
        BY <1>7, <2>2, Joined
    <2> QED BY <2>1, <2>3
<1>9. /\ members \in Seq(PassedTexts) /\ Len(members) = Len(m) + Len(last) /\ Len(last) \in Nat
      /\ \A k \in 1..Len(m) : members[k] = m[k]
    <2>1. members = m \o last
        BY <1>6, <1>7
    <2>2. PICK S : S = PassedTexts
        OBVIOUS
    <2>3. m \in Seq(S) /\ last \in Seq(S)
        BY <1>5, <1>8, <2>2
    <2>4. /\ members \in Seq(S) /\ Len(members) = Len(m) + Len(last) /\ Len(last) \in Nat
          /\ \A k \in 1..Len(m) : members[k] = m[k]
        BY <2>1, <2>3, Joined
    <2> QED BY <2>2, <2>4
<1>10. /\ \A k \in {1, 2, 3, 4} : k \in 1..Len(first) /\ k \in 1..Len(m)
       /\ Len(members) >= 4
    BY <1>5, <1>8, <1>9
<1>11. members[1] = a /\ members[2] = b /\ members[3] = c /\ members[4] = d
    BY <1>5, <1>8, <1>9, <1>10
<1>12. RecordToJson(record) = JsonObject(members)
    BY DEF RecordToJson, RecordMembers
<1> QED BY <1>1, <1>9, <1>10, <1>11, <1>12

\* x begins with y.
Starts(x, y) == Len(y) <= Len(x) /\ \A k \in 1..Len(y) : x[k] = y[k]

\* A fold that joins texts only adds to what is joined.
LEMMA JoinsStart ==
    ASSUME NEW S, NEW seqs \in Seq(Seq(S)), NEW F, Joins(F, S, seqs), NEW i \in 1..Len(seqs),
           NEW m \in i..Len(seqs)
    PROVE  Starts(F[m], F[i])
<1>1. PICK n \in Nat : n = Len(seqs)
    OBVIOUS
<1>2. /\ \A j \in 2..n : F[j] = F[j - 1] \o seqs[j]
      /\ \A j \in 1..n : F[j] \in Seq(S) /\ seqs[j] \in Seq(S)
    <2>1. \A j \in 1..n : seqs[j] \in Seq(S)
        BY <1>1
    <2> QED BY <1>1, <2>1 DEF Joins
<1> DEFINE T == {k \in Nat : i + k <= n => Starts(F[i + k], F[i])}
<1>3. 0 \in T
    <2>1. F[i] \in Seq(S) /\ i + 0 = i
        BY <1>1, <1>2
    <2>2. Len(F[i]) \in Nat
        BY <2>1
    <2> QED BY <2>1, <2>2 DEF Starts
<1>4. ASSUME NEW k \in T PROVE k + 1 \in T
    <2> SUFFICES ASSUME i + (k + 1) <= n PROVE Starts(F[i + (k + 1)], F[i])
        OBVIOUS
    <2>1. PICK j : j = i + (k + 1)
        OBVIOUS
    <2>2. j \in 2..n /\ j - 1 = i + k /\ j \in 1..n /\ j - 1 \in 1..n /\ Starts(F[j - 1], F[i])
        BY <1>1, <2>1
    <2>3. PICK a, b, c : a = F[j - 1] /\ b = seqs[j] /\ c = F[j]
        OBVIOUS
    <2>4. a \in Seq(S) /\ b \in Seq(S) /\ c = a \o b
        BY <1>2, <2>2, <2>3
    <2>5. Len(c) = Len(a) + Len(b) /\ Len(a) \in Nat /\ Len(b) \in Nat
          /\ \A h \in 1..Len(a) : c[h] = a[h]
        BY <2>4, Joined
    <2>6. Len(F[i]) \in Nat
        BY <1>1, <1>2
    <2>7. PICK f, l : f = F[i] /\ l = Len(f)
        OBVIOUS
    <2>8. l <= Len(a) /\ \A h \in 1..l : a[h] = f[h]
        BY <2>2, <2>3, <2>7 DEF Starts
    <2>9. l <= Len(c) /\ l \in Nat
        BY <2>5, <2>6, <2>7, <2>8
    <2>10. ASSUME NEW h \in 1..l PROVE c[h] = f[h]
        <3>1. h \in 1..Len(a)
            BY <2>5, <2>8, <2>9
        <3> QED BY <2>5, <2>8, <3>1
    <2>11. Starts(c, F[i])
        BY <2>7, <2>9, <2>10 DEF Starts
    <2> QED BY <2>1, <2>3, <2>11
<1>5. \A k \in Nat : k \in T
    <2>1. T \in SUBSET Nat
        OBVIOUS
    <2> HIDE DEF T
    <2> QED BY <1>3, <1>4, <2>1, Induction
<1>6. m - i \in Nat /\ i + (m - i) = m /\ m <= n
    BY <1>1
<1>7. m - i \in T
    <2> HIDE DEF T
    <2> QED BY <1>5, <1>6
<1> QED BY <1>6, <1>7

\* What is joined so far has the symbols of its parts.
LEMMA JoinsWithin ==
    ASSUME NEW S, NEW seqs \in Seq(Seq(S)), NEW F, Joins(F, S, seqs), NEW i \in 1..Len(seqs),
           NEW B, \A j \in 1..i : seqs[j] \in Seq(B)
    PROVE  F[i] \in Seq(B)
<1>1. PICK n \in Nat : n = Len(seqs) /\ i \in 1..n
    OBVIOUS
<1>2. F[1] = seqs[1] /\ \A j \in 2..n : F[j] = F[j - 1] \o seqs[j]
    BY <1>1 DEF Joins
<1> DEFINE T == {k \in Nat : k + 1 <= i => F[k + 1] \in Seq(B)}
<1>3. 0 \in T
    BY <1>1, <1>2
<1>4. ASSUME NEW k \in T PROVE k + 1 \in T
    <2> SUFFICES ASSUME (k + 1) + 1 <= i PROVE F[(k + 1) + 1] \in Seq(B)
        OBVIOUS
    <2>1. PICK j : j = (k + 1) + 1
        OBVIOUS
    <2>2. j \in 2..n /\ j - 1 = k + 1 /\ j \in 1..i /\ F[j - 1] \in Seq(B)
        BY <1>1, <2>1
    <2>3. F[j] = F[j - 1] \o seqs[j] /\ seqs[j] \in Seq(B)
        BY <1>2, <2>2
    <2>4. F[j] \in Seq(B)
        BY <2>2, <2>3, ConcatProperties
    <2> QED BY <2>1, <2>4
<1>5. \A k \in Nat : k \in T
    <2>1. T \in SUBSET Nat
        OBVIOUS
    <2> HIDE DEF T
    <2> QED BY <1>3, <1>4, <2>1, Induction
<1>6. i - 1 \in Nat /\ (i - 1) + 1 = i
    BY <1>1
<1>7. i - 1 \in T
    <2> HIDE DEF T
    <2> QED BY <1>5, <1>6
<1> QED BY <1>6, <1>7

\* Where a member stands in an object: behind s, where all symbols are in B.
Stands(x, s, member, B, last) ==
    /\ Part(x, s, member) /\ s >= 1 /\ \A k \in 1..s : x[k] \in B
    /\ s + Len(member) + 1 <= Len(x)
    /\ x[s + Len(member) + 1] = IF last THEN Closing ELSE Comma
    /\ last => s + Len(member) + 1 = Len(x)

\* Each member of an object stands there, behind members without the symbols that those lack.
LEMMA MemberStands ==
    ASSUME NEW S, Opening \in S, Closing \in S, Comma \in S, NEW members \in Seq(Seq(S)),
           NEW i \in 1..Len(members), NEW B, Opening \in B, Comma \in B,
           \A j \in 1..(i - 1) : members[j] \in Seq(B), NEW x, x = JsonObject(members)
    PROVE  \E s : Stands(x, s, members[i], B, i = Len(members))
<1>1. PICK n \in Nat : n = Len(members) /\ i \in 1..n
    OBVIOUS
<1>2. PICK seqs : seqs = Listed(members)
    OBVIOUS
<1>3. ListsMembers(x, seqs, S, members)
    BY <1>2, ListedAre
<1>4. /\ Wraps(x, Opening, FlattenSeq(seqs), Closing) /\ seqs \in Seq(Seq(S)) /\ Len(seqs) = n
      /\ \A j \in 1..n : /\ members[j] \in Seq(S)
                         /\ seqs[j] = IF j = 1 THEN members[j] ELSE <<Comma>> \o members[j]
    BY <1>1, <1>3 DEF ListsMembers
<1>5. PICK F : Joins(F, S, seqs)
    BY <1>1, <1>4, FlattenSteps
<1>6. /\ F[1] = seqs[1] /\ \A j \in 2..n : F[j] = F[j - 1] \o seqs[j]
      /\ \A j \in 1..n : F[j] \in Seq(S)
      /\ FlattenSeq(seqs) = F[n]
    BY <1>4, <1>5 DEF Joins
<1>7. PICK v : v = F[n]
    OBVIOUS
<1>8. n \in 1..n /\ v \in Seq(S) /\ Len(v) \in Nat
    BY <1>1, <1>6, <1>7
<1>9. /\ Len(x) = Len(v) + 2 /\ x[1] = Opening /\ x[Len(v) + 2] = Closing /\ Part(x, 1, v)
    <2>1. Wraps(x, Opening, v, Closing)
        BY <1>4, <1>6, <1>7
    <2> QED BY <1>8, <2>1, Wrapped
<1>10. \A k \in 1..Len(v) : x[1 + k] = v[k]
    BY <1>9 DEF Part
<1>11. PICK f, mi : f = F[i] /\ mi = members[i]
    OBVIOUS
<1>12. f \in Seq(S) /\ mi \in Seq(S) /\ Len(f) \in Nat /\ Len(mi) \in Nat
    BY <1>1, <1>4, <1>6, <1>11
<1>13. Len(f) <= Len(v) /\ \A k \in 1..Len(f) : v[k] = f[k]
    <2>1. seqs \in Seq(Seq(S)) /\ i \in 1..Len(seqs) /\ n \in i..Len(seqs)
        BY <1>1, <1>4
    <2>2. Starts(F[n], F[i])
        BY <1>5, <2>1, JoinsStart
    <2> QED BY <1>7, <1>11, <2>2 DEF Starts
\* The member is the end of what is joined with it.
<1>14. \E r \in Nat : /\ Len(f) = r + Len(mi) /\ \A k \in 1..Len(mi) : f[r + k] = mi[k]
                      /\ \A k \in 1..r : f[k] \in B
    <2>1. CASE i = 1
        <3>1. f = mi
            BY <1>1, <1>4, <1>6, <1>11, <2>1
        <3>2. 0 \in Nat /\ Len(f) = 0 + Len(mi) /\ \A k \in 1..Len(mi) : f[0 + k] = mi[k]
            BY <1>12, <3>1
        <3>3. \A k \in 1..0 : f[k] \in B
            OBVIOUS
        <3> QED BY <3>2, <3>3
    <2>2. CASE i # 1
        <3>1. i \in 2..n /\ i - 1 \in 1..n
            BY <1>1, <2>2
        <3>2. PICK a, b, c : a = F[i - 1] /\ b = <<Comma>> \o mi /\ c = <<Comma>>
            OBVIOUS
        <3>3. f = a \o b /\ b = c \o mi
            BY <1>1, <1>4, <1>6, <1>11, <2>2, <3>1, <3>2
        <3>4. c \in Seq(S) /\ Len(c) = 1 /\ c[1] = Comma
            BY <3>2
        <3>5. b \in Seq(S) /\ Len(b) = 1 + Len(mi) /\ b[1] = Comma
              /\ \A k \in 1..Len(mi) : b[1 + k] = mi[k]
            <4> HIDE DEF Comma
            <4>0. mi \in Seq(S) /\ c \in Seq(S) /\ b = c \o mi
                BY <1>12, <3>3, <3>4
            <4>1. /\ b \in Seq(S) /\ Len(b) = Len(c) + Len(mi)
                  /\ \A k \in 1..Len(c) : b[k] = c[k]
                  /\ \A k \in 1..Len(mi) : b[Len(c) + k] = mi[k]
                BY ONLY <4>0, Joined
            <4> QED BY <3>4, <4>1
        <3>6. a \in Seq(S)
            BY <1>6, <3>1, <3>2
        <3>7. /\ Len(f) = Len(a) + Len(b) /\ Len(a) \in Nat
              /\ \A k \in 1..Len(a) : f[k] = a[k]
              /\ \A k \in 1..Len(b) : f[Len(a) + k] = b[k]
            <4>1. a \in Seq(S) /\ b \in Seq(S) /\ f = a \o b
                BY <3>3, <3>5, <3>6
            <4> QED BY ONLY <4>1, Joined
        <3>8. a \in Seq(B)
            <4>1. ASSUME NEW j \in 1..(i - 1) PROVE seqs[j] \in Seq(B)
                <5>1. j \in 1..n /\ members[j] \in Seq(B)
                    BY <1>1
                <5>2. <<Comma>> \in Seq(B)
                    OBVIOUS
                <5>3. <<Comma>> \o members[j] \in Seq(B)
                    BY <5>1, <5>2, ConcatProperties
                <5> QED BY <1>4, <5>1, <5>3
            <4>2. i - 1 \in 1..Len(seqs)
                BY <1>4, <3>1
            <4>3. PICK h : h = i - 1
                OBVIOUS
            <4>4. seqs \in Seq(Seq(S)) /\ h \in 1..Len(seqs)
                  /\ \A j \in 1..h : seqs[j] \in Seq(B)
                BY <1>4, <4>1, <4>2, <4>3
            <4>5. F[h] \in Seq(B)
                BY ONLY <1>5, <4>4, JoinsWithin
            <4> QED BY <3>2, <4>3, <4>5
        <3>9. PICK r \in Nat : r = Len(a) + 1
            BY <3>7
        <3>10. Len(f) = r + Len(mi)
            BY <1>12, <3>5, <3>7, <3>9
        <3>11. ASSUME NEW k \in 1..Len(mi) PROVE f[r + k] = mi[k]
            <4>1. 1 + k \in 1..Len(b) /\ Len(a) + (1 + k) = r + k
                BY <1>12, <3>5, <3>7, <3>9
            <4>2. f[Len(a) + (1 + k)] = b[1 + k]
                BY <3>7, <4>1
            <4> QED BY <3>5, <4>1, <4>2
        <3>12. ASSUME NEW k \in 1..r PROVE f[k] \in B
            <4>1. CASE k \in 1..Len(a)
                <5>1. a[k] \in B
                    BY <3>8, <4>1
                <5> QED BY <3>7, <4>1, <5>1
            <4>2. CASE k = Len(a) + 1
                <5>1. 1 \in 1..Len(b)
                    BY <1>12, <3>5
                <5> QED BY <3>5, <3>7, <4>2, <5>1
            <4> QED BY <3>7, <3>9, <4>1, <4>2
        <3> QED BY <3>10, <3>11, <3>12
    <2> QED BY <2>1, <2>2
<1>15. PICK r \in Nat : /\ Len(f) = r + Len(mi) /\ \A k \in 1..Len(mi) : f[r + k] = mi[k]
                        /\ \A k \in 1..r : f[k] \in B
    BY <1>14
<1>16. PICK s \in Nat : s = 1 + r
    OBVIOUS
<1>17. Part(x, s, mi)
    <2>1. s + Len(mi) <= Len(x)
        BY <1>8, <1>9, <1>12, <1>13, <1>15, <1>16
    <2>2. ASSUME NEW k \in 1..Len(mi) PROVE x[s + k] = mi[k]
        <3>1. r + k \in 1..Len(f) /\ r + k \in 1..Len(v) /\ 1 + (r + k) = s + k
            BY <1>8, <1>12, <1>13, <1>15, <1>16
        <3>2. x[1 + (r + k)] = f[r + k]
            BY <1>10, <1>13, <3>1
        <3> QED BY <1>15, <3>1, <3>2
    <2> QED BY <2>1, <2>2 DEF Part
<1>18. ASSUME NEW k \in 1..s PROVE x[k] \in B
    <2>1. CASE k = 1
        BY <1>9, <2>1
    <2>2. CASE k # 1
        <3>1. k - 1 \in 1..r /\ k - 1 \in 1..Len(f) /\ k - 1 \in 1..Len(v) /\ 1 + (k - 1) = k
            BY <1>8, <1>12, <1>13, <1>15, <1>16, <2>2
        <3>2. x[1 + (k - 1)] = f[k - 1]
            BY <1>10, <1>13, <3>1
        <3> QED BY <1>15, <3>1, <3>2
    <2> QED BY <2>1, <2>2
<1>19. s + Len(mi) = 1 + Len(f)
    BY <1>12, <1>15, <1>16
<1>20. CASE i = n
    <2>1. f = v
        BY <1>7, <1>11, <1>20
    <2>2. s + Len(mi) + 1 = Len(x) /\ s + Len(mi) + 1 = Len(v) + 2
        BY <1>8, <1>9, <1>12, <1>19, <2>1
    <2>3. x[s + Len(mi) + 1] = Closing
        BY <1>9, <2>2
    <2>4. s >= 1 /\ s + Len(mi) + 1 <= Len(x)
        BY <1>8, <1>9, <1>16, <2>2
    <2>5. Stands(x, s, mi, B, i = Len(members))
        BY <1>1, <1>17, <1>18, <1>20, <2>2, <2>3, <2>4 DEF Stands
    <2> QED BY <1>11, <2>5
<1>21. CASE i # n
    <2>1. i + 1 \in 2..n /\ i + 1 \in 1..n /\ (i + 1) - 1 = i /\ i + 1 # 1
        BY <1>1, <1>21
    <2>2. PICK g, b, c, mj : g = F[i + 1] /\ mj = members[i + 1] /\ b = <<Comma>> \o mj /\ c = <<Comma>>
        OBVIOUS
    <2>3. g = f \o b /\ b = c \o mj /\ mj \in Seq(S)
        BY <1>4, <1>6, <1>11, <2>1, <2>2
    <2>4. c \in Seq(S) /\ Len(c) = 1 /\ c[1] = Comma
        BY <2>2
    <2>5. b \in Seq(S) /\ Len(b) = 1 + Len(mj) /\ b[1] = Comma /\ Len(mj) \in Nat
        <3>1. /\ b \in Seq(S) /\ Len(b) = Len(c) + Len(mj) /\ Len(mj) \in Nat
              /\ \A k \in 1..Len(c) : b[k] = c[k]
            <4>1. c \in Seq(S) /\ mj \in Seq(S) /\ b = c \o mj
                BY <2>3, <2>4
            <4> QED BY ONLY <4>1, Joined
        <3> QED BY <2>4, <3>1
    <2>6. Len(g) = Len(f) + Len(b) /\ \A k \in 1..Len(b) : g[Len(f) + k] = b[k]
        <3>1. f \in Seq(S) /\ b \in Seq(S) /\ g = f \o b
            BY <1>12, <2>3, <2>5
        <3> QED BY ONLY <3>1, Joined
    <2>7. Len(g) <= Len(v) /\ \A k \in 1..Len(g) : v[k] = g[k]
        <3>1. Starts(F[n], F[i + 1])
            <4>1. i + 1 \in 1..Len(seqs) /\ n \in (i + 1)..Len(seqs)
                BY <1>1, <1>4, <2>1
            <4> QED BY <1>4, <1>5, <4>1, JoinsStart
        <3> QED BY <1>7, <2>2, <3>1 DEF Starts
    <2>8. 1 \in 1..Len(b) /\ Len(f) + 1 \in 1..Len(g) /\ Len(f) + 1 \in 1..Len(v)
          /\ 1 + (Len(f) + 1) = s + Len(mi) + 1
        BY <1>8, <1>12, <1>19, <2>5, <2>6, <2>7
    <2>9. x[1 + (Len(f) + 1)] = Comma
        BY <1>10, <2>5, <2>6, <2>7, <2>8
    <2>10. s >= 1 /\ s + Len(mi) + 1 <= Len(x)
        BY <1>8, <1>9, <1>16, <2>8
    <2>11. Stands(x, s, mi, B, i = Len(members))
        BY <1>1, <1>17, <1>18, <1>21, <2>8, <2>9, <2>10 DEF Stands
    <2> QED BY <1>11, <2>11
<1> QED BY <1>20, <1>21

\* The first place of a symbol is the one that is found.
LEMMA FindFirst ==
    ASSUME NEW text, Len(text) \in Nat, NEW from \in Nat, NEW s, NEW k \in from..Len(text),
           text[k] = s, \A i \in from..(k - 1) : text[i] # s
    PROVE  Find(text, from, s) = k
<1> DEFINE I == {i \in from..Len(text) : text[i] = s}
<1>1. Find(text, from, s) = IF I # {} THEN Min(I) ELSE 0
    BY DEF Find, SelectInSubSeq
<1>2. I \in SUBSET Nat /\ k \in I
    OBVIOUS
<1>3. Min(I) \in I /\ Min(I) <= k
    <2> HIDE DEF I
    <2> QED BY <1>2, LeastIs
<1>4. Min(I) \in from..k /\ text[Min(I)] = s
    BY <1>3
<1>5. Min(I) = k
    <2> HIDE DEF I
    <2> QED BY <1>4
<1> QED BY <1>1, <1>2, <1>5

\* A member is its name, a colon and its value.
Membered(x, S, name, v) ==
    /\ x \in Seq(S) /\ Len(x) = Len(v) + 2 /\ Len(v) \in Nat
    /\ x[1] = name /\ x[2] = Colon /\ \A i \in 1..Len(v) : x[2 + i] = v[i]

\* What a member is, symbol by symbol.
LEMMA MemberIs ==
    ASSUME NEW S, NEW name \in S, Colon \in S, NEW v \in Seq(S)
    PROVE  Membered(Member(name, v), S, name, v)
<1>0. PICK x : x = Member(name, v)
    OBVIOUS
<1>1. PICK c : c = <<name, Colon>>
    OBVIOUS
<1>2. x = c \o v
    BY <1>0, <1>1, Zenon DEF Member, Colon
<1>3. c \in Seq(S) /\ Len(c) = 2 /\ c[1] = name /\ c[2] = Colon
    BY <1>1
<1>4. /\ x \in Seq(S) /\ Len(x) = Len(c) + Len(v) /\ Len(v) \in Nat
      /\ \A i \in 1..Len(c) : x[i] = c[i]
      /\ \A i \in 1..Len(v) : x[Len(c) + i] = v[i]
    <2>1. c \in Seq(S) /\ v \in Seq(S) /\ x = c \o v
        BY <1>2, <1>3
    <2> QED BY ONLY <2>1, Joined
<1>5. 1 \in 1..Len(c) /\ 2 \in 1..Len(c)
    BY <1>3
<1>6. Membered(x, S, name, v)
    BY <1>3, <1>4, <1>5 DEF Membered
<1> QED BY <1>0, <1>6

\* The part of a text that reads as another.
LEMMA PartIsSubSeq ==
    ASSUME NEW S, NEW text \in Seq(S), NEW v \in Seq(S), NEW s, Part(text, s, v)
    PROVE  SubSeq(text, s + 1, s + Len(v)) = v
<1>1. s \in Nat /\ Len(v) \in Nat /\ s + Len(v) <= Len(text) /\ Len(text) \in Nat
      /\ \A i \in 1..Len(v) : text[s + i] = v[i]
    BY DEF Part
<1>2. PICK u : u = SubSeq(text, s + 1, s + Len(v))
    OBVIOUS
<1>3. PICK m, n : m = s + 1 /\ n = s + Len(v)
    OBVIOUS
<1>4. u \in Seq(S) /\ Len(u) = Len(v) /\ \A i \in 1..Len(v) : u[i] = text[s + i]
    <2> HIDE DEF Part
    <2>1. m \in 1..(Len(text) + 1) /\ n \in (m - 1)..Len(text)
        <3>1. PICK k, l : k = Len(text) /\ l = Len(v)
            OBVIOUS
        <3>2. k \in Nat /\ l \in Nat /\ s \in Nat /\ s + l <= k
            BY <1>1, <3>1
        <3>3. m = s + 1 /\ n = s + l
            BY <1>3, <3>1
        <3>4. m \in 1..(k + 1) /\ n \in (m - 1)..k
            BY ONLY <3>2, <3>3
        <3> QED BY <3>1, <3>4
    <2>2. u = SubSeq(text, m, n)
        BY <1>2, <1>3
    <2>3. u \in Seq(S) /\ Len(u) = n - m + 1 /\ \A i \in 1..(n - m + 1) : u[i] = text[m + i - 1]
        BY <2>1, <2>2, SubSeqProperties
    <2>4. n - m + 1 = Len(v) /\ \A i \in 1..Len(v) : m + i - 1 = s + i
        <3>1. PICK l : l = Len(v)
            OBVIOUS
        <3>2. l \in Nat /\ s \in Nat /\ m = s + 1 /\ n = s + l
            BY <1>1, <1>3, <3>1
        <3>3. n - m + 1 = l /\ \A i \in 1..l : m + i - 1 = s + i
            BY ONLY <3>2
        <3> QED BY <3>1, <3>3
    <2> QED BY <2>3, <2>4
<1>5. u = v
    BY <1>1, <1>4, SeqEqual
<1> QED BY <1>2, <1>5

\* A member whose name stands nowhere before is the one that is found.
LEMMA ExtractedObjectIs ==
    ASSUME NEW S, Colon \in S, NEW text \in Seq(S), NEW key \in S, NEW v \in Seq(S), v[1] = Opening,
           WholeObject(v), NEW s, Part(text, s, Member(key, v)), \A k \in 1..s : text[k] # key
    PROVE  ExtractObjectValue(text, key) = v
<1>1. PICK x : x = Member(key, v)
    OBVIOUS
<1>2. /\ Len(x) = Len(v) + 2 /\ Len(v) \in Nat
      /\ x[1] = key /\ x[2] = Colon /\ \A i \in 1..Len(v) : x[2 + i] = v[i]
    <2>1. Membered(Member(key, v), S, key, v)
        BY MemberIs
    <2>2. Membered(x, S, key, v)
        BY <1>1, <2>1
    <2> QED BY <2>2 DEF Membered
<1>3. s \in Nat /\ s + Len(v) + 2 <= Len(text) /\ Len(text) \in Nat
      /\ \A i \in 1..(Len(v) + 2) : text[s + i] = x[i]
    <2>1. Part(text, s, x)
        BY <1>1
    <2>2. s \in Nat /\ s + Len(x) <= Len(text) /\ \A i \in 1..Len(x) : text[s + i] = x[i]
        BY <2>1 DEF Part
    <2>3. Len(text) \in Nat
        OBVIOUS
    <2> QED BY <1>2, <2>2, <2>3
<1>4. Len(v) >= 1
    BY <1>2 DEF WholeObject
<1>5. text[s + 1] = key /\ text[s + 2] = Colon
    BY <1>2, <1>3
<1>6. \A i \in 1..Len(v) : text[s + 2 + i] = v[i]
    <2>1. ASSUME NEW i \in 1..Len(v) PROVE text[s + 2 + i] = v[i]
        <3>1. 2 + i \in 1..(Len(v) + 2) /\ s + (2 + i) = s + 2 + i
            BY <1>2, <1>3
        <3> QED BY <1>2, <1>3, <3>1
    <2> QED BY <2>1
<1>7. PICK name, colon, start : name = s + 1 /\ colon = s + 2 /\ start = s + 3
    OBVIOUS
<1>8. name \in 1..Len(text) /\ colon \in 1..Len(text) /\ start \in 1..Len(text)
      /\ name # 0 /\ colon # 0 /\ start # 0 /\ name + 1 = colon /\ colon + 1 = start
    BY <1>3, <1>4, <1>7
<1>9. Find(text, 1, key) = name
    <2>1. text[name] = key /\ \A i \in 1..(name - 1) : text[i] # key
        BY <1>3, <1>5, <1>7
    <2> QED BY <1>3, <1>8, <2>1, FindFirst
<1>10. Find(text, name + 1, Colon) = colon
    <2>1. text[colon] = Colon /\ \A i \in colon..(colon - 1) : text[i] # Colon
        BY <1>3, <1>5, <1>7
    <2>2. colon \in Nat /\ colon \in colon..Len(text)
        BY <1>8
    <2>3. Find(text, colon, Colon) = colon
        BY <1>3, <2>1, <2>2, FindFirst
    <2> QED BY <1>8, <2>3
<1>11. text[start] = Opening
    <2>1. 1 \in 1..Len(v) /\ s + 2 + 1 = start
        BY <1>2, <1>3, <1>4, <1>7
    <2> QED BY <1>6, <2>1
<1>12. Find(text, colon + 1, Opening) = start
    <2>1. \A i \in start..(start - 1) : text[i] # Opening
        BY <1>3, <1>7
    <2>2. start \in Nat /\ start \in start..Len(text)
        BY <1>8
    <2>3. Find(text, start, Opening) = start
        BY <1>3, <1>11, <2>1, <2>2, FindFirst
    <2> QED BY <1>8, <2>3
<1>13. PICK m : m = s + 2 + Len(v)
    OBVIOUS
<1>14. m \in start..Len(text) /\ m - start + 1 = Len(v) /\ start - 1 = s + 2
    BY <1>2, <1>3, <1>4, <1>7, <1>13
<1>15. ObjectEnd(text, start) = m
    <2>1. PICK P : Scans(P, v, 0, Len(v))
        BY DEF WholeObject
    <2>2. PICK n, t : n = Len(v) /\ t = s + 2
        OBVIOUS
    <2>3. n \in Nat /\ t \in Nat /\ Scans(P, v, 0, n) /\ \A i \in 1..n : text[t + i] = v[i]
        BY <1>2, <1>3, <1>6, <2>1, <2>2
    <2>4. Scans(P, text, t, n)
        BY <2>3, ScansInside
    <2>5. Scans(P, text, start - 1, m - start + 1)
        BY <1>14, <2>2, <2>4
    <2> QED BY <1>3, <1>8, <1>14, <2>5, ObjectEnds
<1>16. m # 0
    BY <1>8, <1>14
<1>17. SubSeq(text, start, m) = v
    <2>1. PICK t : t = s + 2
        OBVIOUS
    <2>2. t \in Nat /\ t + Len(v) <= Len(text) /\ \A i \in 1..Len(v) : text[t + i] = v[i]
        BY <1>2, <1>3, <1>6, <2>1
    <2>3. Part(text, t, v)
        BY <2>2 DEF Part
    <2>4. SubSeq(text, t + 1, t + Len(v)) = v
        BY <2>3, PartIsSubSeq
    <2>5. t + 1 = start /\ t + Len(v) = m
        BY <1>3, <1>7, <1>13, <2>1
    <2> QED BY <2>4, <2>5
<1>18. FindAfter(text, name, Colon) = colon /\ FindAfter(text, colon, Opening) = start
    BY <1>8, <1>10, <1>12 DEF FindAfter
<1>19. ExtractObjectValue(text, key) =
          LET c == FindAfter(text, Find(text, 1, key), Colon)
              b == FindAfter(text, c, Opening)
              e == IF b = 0 THEN 0 ELSE ObjectEnd(text, b)
          IN  IF e = 0 THEN None ELSE SubSeq(text, b, e)
    BY Zenon DEF ExtractObjectValue, Colon, Opening
<1> QED BY <1>8, <1>9, <1>15, <1>16, <1>17, <1>18, <1>19

\* What stands before the telemetry in a record: every sign but its name.
Before == Signs \ {"telemetry"}

\* which has all that is written there.
LEMMA BeforeHas ==
    /\ {Opening, Comma, Colon, Quote, Backslash} \subseteq Before
    /\ Digits \subseteq Before /\ {"recordId", "deviceId", "timestamp"} \subseteq Before
<1>1. {Opening, Comma, Colon, Quote, Backslash} \subseteq Signs /\ Digits \subseteq Signs
    BY SignsAre
<1>2. {"recordId", "deviceId", "timestamp"} \subseteq Signs
    <2>1. {"recordId", "deviceId", "timestamp"} \subseteq Names
        BY NamesAre
    <2> QED BY <2>1, SignsAre
<1>3. Opening # "telemetry" /\ Comma # "telemetry" /\ Colon # "telemetry"
      /\ Quote # "telemetry" /\ Backslash # "telemetry"
    BY Zenon DEF Opening, Comma, Colon, Quote, Backslash
<1>4. \A d \in Digits : d # "telemetry"
    BY Zenon DEF Digits
<1>5. "recordId" # "telemetry" /\ "deviceId" # "telemetry" /\ "timestamp" # "telemetry"
    OBVIOUS
<1> QED BY <1>1, <1>2, <1>3, <1>4, <1>5 DEF Before

\* A number has no other symbol than its digits.
LEMMA NumberBefore ==
    ASSUME NEW name \in Before, NEW n \in Nat PROVE JsonNumber(name, n) \in Seq(Before)
<1>1. Decimal[n] \in Seq(Before)
    <2>1. Decimal[n] \in Seq(Digits) /\ Digits \subseteq Before
        BY DecimalIsRead, BeforeHas
    <2> QED BY <2>1
<1>2. Colon \in Before
    BY BeforeHas
<1>3. Membered(Member(name, Decimal[n]), Before, name, Decimal[n])
    BY <1>1, <1>2, MemberIs
<1> QED BY <1>3 DEF Membered, JsonNumber

\* An id without quotes is no member's name, however it is escaped.
LEMMA TextBefore ==
    ASSUME NEW name \in Before, NEW value \in Seq(Signs), Unquoted(value)
    PROVE  JsonText(name, value) \in Seq(Before)
<1>1. Quote \in Before /\ Backslash \in Before /\ Colon \in Before
    BY BeforeHas
<1>2. value \in Seq(Before)
    <2>1. "telemetry" \in Names
        BY NamesAre
    <2>2. ASSUME NEW i \in 1..Len(value) PROVE value[i] \in Before
        <3>1. value[i] \in Signs /\ ~HasQuote(value[i])
            BY DEF Unquoted
        <3>2. value[i] # "telemetry"
            BY <2>1, <3>1 DEF HasQuote
        <3> QED BY <3>1, <3>2 DEF Before
    <2> QED BY <2>2
<1>3. PICK e : e = JsonEscape(value)
    OBVIOUS
<1>4. e \in Seq(Before)
    BY <1>1, <1>2, <1>3, KeepsEscaped
<1>5. PICK q : q = Quoted(e)
    OBVIOUS
<1>6. q \in Seq(Before)
    <2>1. Wraps(q, Quote, e, Quote)
        BY <1>5 DEF Wraps, Quoted
    <2> QED BY <1>1, <1>4, <2>1, Wrapped
<1>7. Membered(Member(name, q), Before, name, q)
    BY <1>1, <1>6, MemberIs
<1>8. JsonText(name, value) = Member(name, q)
    BY <1>3, <1>5 DEF JsonText
<1> QED BY <1>7, <1>8 DEF Membered

\* A record is one object, and its telemetry comes out of it as it went in.
LEMMA RecordIsObject ==
    ASSUME NEW record, RecordTexts(record)
    PROVE  /\ IsObject(RecordToJson(record))
           /\ ExtractObjectValue(RecordToJson(record), "telemetry") = record.packet.telemetryJson
<1>1. PICK members, x : members = RecordMembers(record) /\ x = JsonObject(members)
    OBVIOUS
<1>2. /\ RecordToJson(record) = x
      /\ members \in Seq(PassedTexts) /\ Len(members) >= 4
      /\ members[1] = JsonNumber("recordId", record.recordId)
      /\ members[2] = JsonText("deviceId", record.packet.deviceId)
      /\ members[3] = JsonNumber("timestamp", record.packet.timestamp)
      /\ members[4] = Member("telemetry", record.packet.telemetryJson)
    BY <1>1, RecordIs
<1>3. x \in PassedTexts /\ IsObject(x)
    BY <1>1, <1>2, PassedObject
<1>4. /\ record.recordId \in Nat /\ record.packet.timestamp \in Nat
      /\ record.packet.deviceId \in Seq(Signs) /\ Unquoted(record.packet.deviceId)
      /\ record.packet.telemetryJson \in PassedTexts /\ record.packet.telemetryJson[1] = Opening
      /\ WholeObject(record.packet.telemetryJson)
    BY DEF RecordTexts, PacketTexts
<1>5. members[1] \in Seq(Before) /\ members[2] \in Seq(Before) /\ members[3] \in Seq(Before)
    <2>1. "recordId" \in Before /\ "deviceId" \in Before /\ "timestamp" \in Before
        BY BeforeHas
    <2>2. JsonNumber("recordId", record.recordId) \in Seq(Before)
        BY <1>4, <2>1, NumberBefore
    <2>3. JsonText("deviceId", record.packet.deviceId) \in Seq(Before)
        BY <1>4, <2>1, TextBefore
    <2>4. JsonNumber("timestamp", record.packet.timestamp) \in Seq(Before)
        BY <1>4, <2>1, NumberBefore
    <2> QED BY <1>2, <2>2, <2>3, <2>4
<1>6. PICK i, last : i = 4 /\ last = (i = Len(members))
    OBVIOUS
<1>7. /\ members \in Seq(Seq(Signs)) /\ i \in 1..Len(members)
      /\ \A j \in 1..(i - 1) : members[j] \in Seq(Before)
    <2>1. members \in Seq(Seq(Signs))
        <3>1. PassedTexts \subseteq Seq(Signs)
            BY DEF PassedTexts
        <3>2. PICK T : T = Seq(Signs)
            OBVIOUS
        <3>3. PassedTexts \subseteq T /\ members \in Seq(PassedTexts)
            BY <1>2, <3>1, <3>2
        <3>4. members \in Seq(T)
            BY ONLY <3>3
        <3> QED BY <3>2, <3>4
    <2>2. i \in 1..Len(members)
        BY <1>2, <1>6
    <2>3. ASSUME NEW j \in 1..(i - 1) PROVE members[j] \in Seq(Before)
        <3>1. j = 1 \/ j = 2 \/ j = 3
            BY <1>6
        <3> QED BY <1>5, <3>1
    <2> QED BY <2>1, <2>2, <2>3
<1>8. PICK s : Stands(x, s, members[i], Before, i = Len(members))
    <2>1. Opening \in Signs /\ Closing \in Signs /\ Comma \in Signs
          /\ Opening \in Before /\ Comma \in Before
        BY SignsAre, BeforeHas
    <2> QED BY ONLY <1>1, <1>7, <2>1, MemberStands
<1>9. PICK v : v = record.packet.telemetryJson
    OBVIOUS
<1>10. Part(x, s, Member("telemetry", v)) /\ \A k \in 1..s : x[k] # "telemetry"
    <2>1. Part(x, s, members[4]) /\ \A k \in 1..s : x[k] \in Before
        BY <1>6, <1>8 DEF Stands
    <2> QED BY <1>2, <1>9, <2>1 DEF Before
<1>11. x \in Seq(Signs) /\ v \in Seq(Signs) /\ v[1] = Opening /\ WholeObject(v)
    BY <1>3, <1>4, <1>9 DEF PassedTexts
<1>12. "telemetry" \in Signs /\ Colon \in Signs
    BY NamesAre, SignsAre
<1>13. ExtractObjectValue(x, "telemetry") = v
    BY <1>10, <1>11, <1>12, ExtractedObjectIs
<1> QED BY <1>2, <1>3, <1>9, <1>13

-----------------------------------------------------------------------------
(* Answers *)

\* The last line of the head of an answer, and the codes of the first.
Close == "Connection: close"
\* The codes that answers begin with.
Statuses == {"202", "400", "404"}

\* What an answer is.
Answers(raw, status, d, body) ==
    /\ raw \in Seq(Signs) /\ Len(raw) = Len(d) + Len(body) + 14
    /\ raw[1] = "HTTP/1.1" /\ raw[2] = Sp /\ raw[3] = status /\ raw[4] = Cr /\ raw[5] = Lf
    /\ raw[6] = ContentLength /\ raw[7] = Sp
    /\ \A i \in 1..Len(d) : raw[7 + i] = d[i]
    /\ raw[Len(d) + 8] = Cr /\ raw[Len(d) + 9] = Lf /\ raw[Len(d) + 10] = Close
    /\ raw[Len(d) + 11] = Cr /\ raw[Len(d) + 12] = Lf
    /\ raw[Len(d) + 13] = Cr /\ raw[Len(d) + 14] = Lf
    /\ \A i \in 1..Len(body) : raw[Len(d) + 14 + i] = body[i]

\* which are no ends of lines and no Content-Length.
LEMMA StatusesAre ==
    /\ Statuses \subseteq Signs /\ Close \in Signs /\ "HTTP/1.1" \in Signs
    /\ \A s \in Statuses \cup {Close, "HTTP/1.1"} : s # ContentLength /\ s # Cr
<1>1. Statuses \subseteq Signs
    BY Zenon DEF Statuses, Signs
<1>2. Close \in Signs /\ "HTTP/1.1" \in Signs
    BY Zenon DEF Signs, Close
<1>3. Close # ContentLength /\ Close # Cr /\ "HTTP/1.1" # ContentLength /\ "HTTP/1.1" # Cr
    BY Zenon DEF Close, ContentLength, Cr
<1>4. \A s \in Statuses : s # ContentLength /\ s # Cr
    BY Zenon DEF Statuses, ContentLength, Cr
<1> QED BY <1>1, <1>2, <1>3, <1>4

\* BuildRawResponse writes such an answer.
LEMMA AnswerFormed ==
    ASSUME NEW status \in Statuses, NEW body \in Seq(Signs), NEW d, d = Decimal[Len(body)],
           NEW raw, raw = BuildRawResponse(status, body)
    PROVE  Answers(raw, status, d, body)
<1>1. PICK a, b, c, k : /\ a = <<"HTTP/1.1", Sp, status>> /\ b = <<ContentLength, Sp>>
                        /\ c = <<Close>> /\ k = Crlf
    OBVIOUS
<1>2. /\ a \in Seq(Signs) /\ Len(a) = 3 /\ a[1] = "HTTP/1.1" /\ a[2] = Sp /\ a[3] = status
      /\ b \in Seq(Signs) /\ Len(b) = 2 /\ b[1] = ContentLength /\ b[2] = Sp
      /\ c \in Seq(Signs) /\ Len(c) = 1 /\ c[1] = Close
      /\ k \in Seq(Signs) /\ Len(k) = 2 /\ k[1] = Cr /\ k[2] = Lf
    <2>1. /\ "HTTP/1.1" \in Signs /\ Sp \in Signs /\ status \in Signs /\ Cr \in Signs /\ Lf \in Signs
          /\ ContentLength \in Signs /\ Close \in Signs /\ k = <<Cr, Lf>>
        BY <1>1, SignsAre, StatusesAre, SpacesAre
    <2> QED BY <1>1, <2>1
<1>3. d \in Seq(Signs) /\ Len(d) \in Nat /\ Len(body) \in Nat
    <2>1. d \in Seq(Digits)
        BY DecimalIsRead
    <2> QED BY <2>1, SignsAre
<1>4. PICK e1, e2, e3, e4, e5, e6, e7 :
        /\ e1 = a \o k /\ e2 = e1 \o b /\ e3 = e2 \o d /\ e4 = e3 \o k /\ e5 = e4 \o c
        /\ e6 = e5 \o k /\ e7 = e6 \o k
    OBVIOUS
<1>5. raw = e7 \o body
    <2>1. raw = <<"HTTP/1.1", Sp, status>> \o Crlf \o <<ContentLength, Sp>> \o d
                \o Crlf \o <<Close>> \o Crlf \o Crlf \o body
        BY Zenon DEF BuildRawResponse, Sp, ContentLength, Close
    <2> QED BY <1>1, <1>4, <2>1
<1>6. PICK D, B : D = Len(d) /\ B = Len(body)
    OBVIOUS
<1>7. D \in Nat /\ B \in Nat
    BY <1>3, <1>6
<1>8. /\ e1 \in Seq(Signs) /\ Len(e1) = 5
      /\ \A i \in 1..(3) : e1[i] = a[i]
      /\ \A i \in 1..2 : e1[(3) + i] = k[i]
    <2>1. a \in Seq(Signs) /\ k \in Seq(Signs) /\ e1 = a \o k
        BY <1>2, <1>3, <1>4, <1>5, <1>6
    <2>2. /\ e1 \in Seq(Signs) /\ Len(e1) = Len(a) + Len(k)
          /\ \A i \in 1..Len(a) : e1[i] = a[i]
          /\ \A i \in 1..Len(k) : e1[Len(a) + i] = k[i]
        BY ONLY <2>1, Joined
    <2>3. Len(a) = 3 /\ Len(k) = 2 /\ Len(a) + Len(k) = 5
        BY <1>2, <1>3, <1>4, <1>5, <1>6, <1>7
    <2> QED BY <2>2, <2>3
<1>9. /\ e2 \in Seq(Signs) /\ Len(e2) = 7
      /\ \A i \in 1..(5) : e2[i] = e1[i]
      /\ \A i \in 1..2 : e2[(5) + i] = b[i]
    <2>1. e1 \in Seq(Signs) /\ b \in Seq(Signs) /\ e2 = e1 \o b
        BY <1>2, <1>3, <1>4, <1>5, <1>6, <1>8
    <2>2. /\ e2 \in Seq(Signs) /\ Len(e2) = Len(e1) + Len(b)
          /\ \A i \in 1..Len(e1) : e2[i] = e1[i]
          /\ \A i \in 1..Len(b) : e2[Len(e1) + i] = b[i]
        BY ONLY <2>1, Joined
    <2>3. Len(e1) = 5 /\ Len(b) = 2 /\ Len(e1) + Len(b) = 7
        BY <1>2, <1>3, <1>4, <1>5, <1>6, <1>8, <1>7
    <2> QED BY <2>2, <2>3
<1>10. /\ e3 \in Seq(Signs) /\ Len(e3) = D + 7
       /\ \A i \in 1..(7) : e3[i] = e2[i]
       /\ \A i \in 1..D : e3[(7) + i] = d[i]
    <2>1. e2 \in Seq(Signs) /\ d \in Seq(Signs) /\ e3 = e2 \o d
        BY <1>2, <1>3, <1>4, <1>5, <1>6, <1>9
    <2>2. /\ e3 \in Seq(Signs) /\ Len(e3) = Len(e2) + Len(d)
          /\ \A i \in 1..Len(e2) : e3[i] = e2[i]
          /\ \A i \in 1..Len(d) : e3[Len(e2) + i] = d[i]
        BY ONLY <2>1, Joined
    <2>3. Len(e2) = 7 /\ Len(d) = D /\ Len(e2) + Len(d) = D + 7
        BY <1>2, <1>3, <1>4, <1>5, <1>6, <1>9, <1>7
    <2> QED BY <2>2, <2>3
<1>11. /\ e4 \in Seq(Signs) /\ Len(e4) = D + 9
       /\ \A i \in 1..(D + 7) : e4[i] = e3[i]
       /\ \A i \in 1..2 : e4[(D + 7) + i] = k[i]
    <2>1. e3 \in Seq(Signs) /\ k \in Seq(Signs) /\ e4 = e3 \o k
        BY <1>2, <1>3, <1>4, <1>5, <1>6, <1>10
    <2>2. /\ e4 \in Seq(Signs) /\ Len(e4) = Len(e3) + Len(k)
          /\ \A i \in 1..Len(e3) : e4[i] = e3[i]
          /\ \A i \in 1..Len(k) : e4[Len(e3) + i] = k[i]
        BY ONLY <2>1, Joined
    <2>3. Len(e3) = D + 7 /\ Len(k) = 2 /\ Len(e3) + Len(k) = D + 9
        BY <1>2, <1>3, <1>4, <1>5, <1>6, <1>10, <1>7
    <2> QED BY <2>2, <2>3
<1>12. /\ e5 \in Seq(Signs) /\ Len(e5) = D + 10
       /\ \A i \in 1..(D + 9) : e5[i] = e4[i]
       /\ \A i \in 1..1 : e5[(D + 9) + i] = c[i]
    <2>1. e4 \in Seq(Signs) /\ c \in Seq(Signs) /\ e5 = e4 \o c
        BY <1>2, <1>3, <1>4, <1>5, <1>6, <1>11
    <2>2. /\ e5 \in Seq(Signs) /\ Len(e5) = Len(e4) + Len(c)
          /\ \A i \in 1..Len(e4) : e5[i] = e4[i]
          /\ \A i \in 1..Len(c) : e5[Len(e4) + i] = c[i]
        BY ONLY <2>1, Joined
    <2>3. Len(e4) = D + 9 /\ Len(c) = 1 /\ Len(e4) + Len(c) = D + 10
        BY <1>2, <1>3, <1>4, <1>5, <1>6, <1>11, <1>7
    <2> QED BY <2>2, <2>3
<1>13. /\ e6 \in Seq(Signs) /\ Len(e6) = D + 12
       /\ \A i \in 1..(D + 10) : e6[i] = e5[i]
       /\ \A i \in 1..2 : e6[(D + 10) + i] = k[i]
    <2>1. e5 \in Seq(Signs) /\ k \in Seq(Signs) /\ e6 = e5 \o k
        BY <1>2, <1>3, <1>4, <1>5, <1>6, <1>12
    <2>2. /\ e6 \in Seq(Signs) /\ Len(e6) = Len(e5) + Len(k)
          /\ \A i \in 1..Len(e5) : e6[i] = e5[i]
          /\ \A i \in 1..Len(k) : e6[Len(e5) + i] = k[i]
        BY ONLY <2>1, Joined
    <2>3. Len(e5) = D + 10 /\ Len(k) = 2 /\ Len(e5) + Len(k) = D + 12
        BY <1>2, <1>3, <1>4, <1>5, <1>6, <1>12, <1>7
    <2> QED BY <2>2, <2>3
<1>14. /\ e7 \in Seq(Signs) /\ Len(e7) = D + 14
       /\ \A i \in 1..(D + 12) : e7[i] = e6[i]
       /\ \A i \in 1..2 : e7[(D + 12) + i] = k[i]
    <2>1. e6 \in Seq(Signs) /\ k \in Seq(Signs) /\ e7 = e6 \o k
        BY <1>2, <1>3, <1>4, <1>5, <1>6, <1>13
    <2>2. /\ e7 \in Seq(Signs) /\ Len(e7) = Len(e6) + Len(k)
          /\ \A i \in 1..Len(e6) : e7[i] = e6[i]
          /\ \A i \in 1..Len(k) : e7[Len(e6) + i] = k[i]
        BY ONLY <2>1, Joined
    <2>3. Len(e6) = D + 12 /\ Len(k) = 2 /\ Len(e6) + Len(k) = D + 14
        BY <1>2, <1>3, <1>4, <1>5, <1>6, <1>13, <1>7
    <2> QED BY <2>2, <2>3
<1>15. /\ raw \in Seq(Signs) /\ Len(raw) = D + B + 14
       /\ \A i \in 1..(D + 14) : raw[i] = e7[i]
       /\ \A i \in 1..B : raw[(D + 14) + i] = body[i]
    <2>1. e7 \in Seq(Signs) /\ body \in Seq(Signs) /\ raw = e7 \o body
        BY <1>2, <1>3, <1>4, <1>5, <1>6, <1>14
    <2>2. /\ raw \in Seq(Signs) /\ Len(raw) = Len(e7) + Len(body)
          /\ \A i \in 1..Len(e7) : raw[i] = e7[i]
          /\ \A i \in 1..Len(body) : raw[Len(e7) + i] = body[i]
        BY ONLY <2>1, Joined
    <2>3. Len(e7) = D + 14 /\ Len(body) = B /\ Len(e7) + Len(body) = D + B + 14
        BY <1>2, <1>3, <1>4, <1>5, <1>6, <1>14, <1>7
    <2> QED BY <2>2, <2>3
\* What each part begins with stays where it is.
<1>16. ASSUME NEW i \in 1..(D + 14) PROVE raw[i] = e7[i]
    BY <1>15
<1>17. ASSUME NEW i \in 1..(D + 12) PROVE raw[i] = e6[i]
    BY <1>7, <1>14, <1>16
<1>18. ASSUME NEW i \in 1..(D + 10) PROVE raw[i] = e5[i]
    BY <1>7, <1>13, <1>17
<1>19. ASSUME NEW i \in 1..(D + 9) PROVE raw[i] = e4[i]
    BY <1>7, <1>12, <1>18
<1>20. ASSUME NEW i \in 1..(D + 7) PROVE raw[i] = e3[i]
    BY <1>7, <1>11, <1>19
<1>21. ASSUME NEW i \in 1..7 PROVE raw[i] = e2[i]
    BY <1>7, <1>10, <1>20
<1>22. ASSUME NEW i \in 1..5 PROVE raw[i] = e1[i]
    BY <1>9, <1>21
<1>23. /\ raw[1] = "HTTP/1.1" /\ raw[2] = Sp /\ raw[3] = status /\ raw[4] = Cr /\ raw[5] = Lf
    <2>1. raw[1] = a[1] /\ raw[2] = a[2] /\ raw[3] = a[3]
        BY <1>8, <1>22
    <2>2. e1[3 + 1] = k[1] /\ e1[3 + 2] = k[2]
        BY <1>8
    <2>3. raw[4] = e1[4] /\ raw[5] = e1[5]
        BY <1>22
    <2> QED BY <1>2, <2>1, <2>2, <2>3
<1>24. raw[6] = ContentLength /\ raw[7] = Sp
    <2>1. e2[5 + 1] = b[1] /\ e2[5 + 2] = b[2]
        BY <1>9
    <2>2. raw[6] = e2[6] /\ raw[7] = e2[7]
        BY <1>21
    <2> QED BY <1>2, <2>1, <2>2
<1>25. ASSUME NEW i \in 1..D PROVE raw[7 + i] = d[i]
    <2>1. 7 + i \in 1..(D + 7)
        BY <1>7
    <2> QED BY <1>10, <1>20, <2>1
<1>26. raw[D + 8] = Cr /\ raw[D + 9] = Lf
    <2>3. PICK p : p = D + 7
        OBVIOUS
    <2>4. \A i \in 1..2 : e4[p + i] = k[i]
        BY <1>7, <1>11, <2>3
    <2>5. e4[p + 1] = k[1] /\ e4[p + 2] = k[2]
        BY <2>4
    <2>1. e4[(D + 7) + 1] = k[1] /\ e4[(D + 7) + 2] = k[2]
        BY <2>3, <2>5
    <2>2. (D + 7) + 1 = D + 8 /\ (D + 7) + 2 = D + 9 /\ D + 8 \in 1..(D + 9) /\ D + 9 \in 1..(D + 9)
        BY <1>7
    <2> QED BY <1>2, <1>19, <2>1, <2>2
<1>27. raw[D + 10] = Close
    <2>3. PICK p : p = D + 9
        OBVIOUS
    <2>4. \A i \in 1..1 : e5[p + i] = c[i]
        BY <1>7, <1>12, <2>3
    <2>5. e5[p + 1] = c[1]
        BY <2>4
    <2>1. e5[(D + 9) + 1] = c[1]
        BY <2>3, <2>5
    <2>2. (D + 9) + 1 = D + 10 /\ D + 10 \in 1..(D + 10)
        BY <1>7
    <2> QED BY <1>2, <1>18, <2>1, <2>2
<1>28. raw[D + 11] = Cr /\ raw[D + 12] = Lf
    <2>3. PICK p : p = D + 10
        OBVIOUS
    <2>4. \A i \in 1..2 : e6[p + i] = k[i]
        BY <1>7, <1>13, <2>3
    <2>5. e6[p + 1] = k[1] /\ e6[p + 2] = k[2]
        BY <2>4
    <2>1. e6[(D + 10) + 1] = k[1] /\ e6[(D + 10) + 2] = k[2]
        BY <2>3, <2>5
    <2>2. (D + 10) + 1 = D + 11 /\ (D + 10) + 2 = D + 12
          /\ D + 11 \in 1..(D + 12) /\ D + 12 \in 1..(D + 12)
        BY <1>7
    <2> QED BY <1>2, <1>17, <2>1, <2>2
<1>29. raw[D + 13] = Cr /\ raw[D + 14] = Lf
    <2>3. PICK p : p = D + 12
        OBVIOUS
    <2>4. \A i \in 1..2 : e7[p + i] = k[i]
        BY <1>7, <1>14, <2>3
    <2>5. e7[p + 1] = k[1] /\ e7[p + 2] = k[2]
        BY <2>4
    <2>1. e7[(D + 12) + 1] = k[1] /\ e7[(D + 12) + 2] = k[2]
        BY <2>3, <2>5
    <2>2. (D + 12) + 1 = D + 13 /\ (D + 12) + 2 = D + 14
          /\ D + 13 \in 1..(D + 14) /\ D + 14 \in 1..(D + 14)
        BY <1>7
    <2> QED BY <1>2, <1>16, <2>1, <2>2
<1>30. raw \in Seq(Signs) /\ Len(raw) = D + B + 14
          /\ \A i \in 1..B : raw[D + 14 + i] = body[i]
    <2>1. PICK p : p = D + 14
        OBVIOUS
    <2>2. \A i \in 1..B : raw[p + i] = body[i]
        BY <1>7, <1>15, <2>1
    <2>3. raw \in Seq(Signs) /\ Len(raw) = D + B + 14
        BY <1>15
    <2> QED BY <2>1, <2>2, <2>3
<1> QED BY <1>6, <1>23, <1>24, <1>25, <1>26, <1>27, <1>28, <1>29, <1>30 DEF Answers

\* The blank line of an answer is the one that was written.
LEMMA AnswerHead ==
    ASSUME NEW status \in Statuses, NEW body \in Seq(Signs), NEW d, d = Decimal[Len(body)],
           NEW raw, Answers(raw, status, d, body)
    PROVE  HeaderEnd(raw) = Len(d) + 11
<1>1. PICK D, h : D = Len(d) /\ h = D + 11
    OBVIOUS
<1>2. d \in Seq(Digits) /\ D \in Nat /\ Len(body) \in Nat
    <2>1. d \in Seq(Digits)
        BY DecimalIsRead
    <2> QED BY <1>1, <2>1
<1>3. /\ Len(raw) = D + Len(body) + 14
      /\ raw[1] = "HTTP/1.1" /\ raw[2] = Sp /\ raw[3] = status /\ raw[4] = Cr /\ raw[5] = Lf
      /\ raw[6] = ContentLength /\ raw[7] = Sp
      /\ \A i \in 1..D : raw[7 + i] = d[i]
      /\ raw[D + 8] = Cr /\ raw[D + 9] = Lf /\ raw[D + 10] = Close
      /\ raw[D + 11] = Cr /\ raw[D + 12] = Lf /\ raw[D + 13] = Cr /\ raw[D + 14] = Lf
    BY <1>1 DEF Answers
<1>4. /\ Cr # Lf /\ Cr # Sp /\ Cr \notin Digits /\ ContentLength # Cr /\ Close # Cr
      /\ status # Cr /\ "HTTP/1.1" # Cr
    BY SpacesAre, ContentLengthApart, StatusesAre
<1>5. ASSUME NEW i \in 1..(h - 1), Blank(raw, i) PROVE FALSE
    <2>1. raw[i] = Cr /\ raw[i + 2] = Cr
        BY <1>5 DEF Blank
    <2>2. CASE i = 1 \/ i = 2 \/ i = 3 \/ i = 5 \/ i = 6 \/ i = 7 \/ i = D + 9 \/ i = D + 10
        BY <1>3, <1>4, <2>1, <2>2
    <2>3. CASE i = 4
        BY <1>3, <1>4, <2>1, <2>3
    <2>4. CASE i = D + 8
        <3>1. i + 2 = D + 10
            BY <1>2, <2>4
        <3> QED BY <1>3, <1>4, <2>1, <3>1
    <2>5. CASE i \in 8..(D + 7)
        <3>1. PICK j : j = i - 7
            OBVIOUS
        <3>2. j \in 1..D /\ i = 7 + j
            BY <1>2, <2>5, <3>1
        <3>3. raw[i] \in Digits
            <4>1. raw[7 + j] = d[j]
                BY <1>3, <3>2
            <4>2. d[j] \in Digits
                BY <1>1, <1>2, <3>2
            <4> QED BY <3>2, <4>1, <4>2
        <3> QED BY <1>4, <2>1, <3>3
    <2>6. i \in Nat /\ i >= 1 /\ i <= D + 10
        BY <1>1, <1>2
    <2> QED BY <1>2, <2>2, <2>3, <2>4, <2>5, <2>6
<1>6. h \in Nat /\ h \in 1..(Len(raw) - 3) /\ Len(raw) \in Nat
      /\ h + 1 = D + 12 /\ h + 2 = D + 13 /\ h + 3 = D + 14
    <2>1. PICK L, B : L = Len(raw) /\ B = Len(body)
        OBVIOUS
    <2>2. L = D + B + 14 /\ D \in Nat /\ B \in Nat /\ h = D + 11
        BY <1>1, <1>2, <1>3, <2>1
    <2>3. h \in Nat /\ h \in 1..(L - 3) /\ L \in Nat
          /\ h + 1 = D + 12 /\ h + 2 = D + 13 /\ h + 3 = D + 14
        BY ONLY <2>2
    <2> QED BY <2>1, <2>3
<1>7. Blank(raw, h)
    BY <1>1, <1>3, <1>6 DEF Blank
<1>8. PICK k : k = HeaderEnd(raw)
    OBVIOUS
<1>9. /\ k \in Nat /\ (k # 0 => k \in 1..(Len(raw) - 3))
      /\ k # 0 => SubSeq(raw, k, k + 3) = Crlf \o Crlf
      /\ \A i \in 1..(Len(raw) - 3) : SubSeq(raw, i, i + 3) = Crlf \o Crlf => k # 0 /\ k <= i
    BY <1>6, <1>8, HeaderEndIs
<1>10. SubSeq(raw, h, h + 3) = Crlf \o Crlf
    BY <1>6, <1>7, BlankIs
<1>11. k # 0 /\ k <= h
    BY <1>6, <1>9, <1>10
<1>12. Blank(raw, k)
    BY <1>9, <1>11, BlankIs
<1>13. k = h
    BY <1>5, <1>6, <1>9, <1>11, <1>12
<1> QED BY <1>1, <1>8, <1>13

\* Behind it is the body, before it the body's length.
Whole(raw, body) ==
    \E h : /\ h = HeaderEnd(raw)
           /\ SubSeq(raw, h + 4, Len(raw)) = body
           /\ ParseContentLength(SubSeq(raw, 1, h - 1)) = Len(raw) - h - 3

\* An answer is read by its own length.
LEMMA AnswerIsWhole ==
    ASSUME NEW status \in Statuses, NEW body \in Seq(Signs), Len(body) < Word,
           NEW raw, raw = BuildRawResponse(status, body)
    PROVE  Whole(raw, body)
<1>1. PICK d : d = Decimal[Len(body)]
    OBVIOUS
<1>2. Answers(raw, status, d, body)
    BY <1>1, AnswerFormed
<1>3. PICK D, B, L, h : D = Len(d) /\ B = Len(body) /\ L = Len(raw) /\ h = D + 11
    OBVIOUS
<1>4. d \in Seq(Digits) /\ D \in Nat /\ B \in Nat /\ D >= 1
    <2>1. d \in Seq(Digits) /\ Len(d) >= 1
        BY <1>1, DecimalIsRead
    <2> QED BY <1>3, <2>1
<1>5. /\ raw \in Seq(Signs) /\ L = D + B + 14
      /\ raw[1] = "HTTP/1.1" /\ raw[2] = Sp /\ raw[3] = status /\ raw[4] = Cr /\ raw[5] = Lf
      /\ raw[6] = ContentLength /\ raw[7] = Sp
      /\ \A i \in 1..D : raw[7 + i] = d[i]
      /\ raw[D + 8] = Cr /\ raw[D + 9] = Lf /\ raw[D + 10] = Close
      /\ \A i \in 1..B : raw[D + 14 + i] = body[i]
    BY <1>2, <1>3 DEF Answers
<1>6. HeaderEnd(raw) = h
    BY <1>1, <1>2, <1>3, AnswerHead
<1>7. SubSeq(raw, h + 4, L) = body
    <2>1. PICK s : s = D + 14
        OBVIOUS
    <2>2. s \in Nat /\ s + B = L /\ s + 1 = h + 4
        BY <1>3, <1>4, <1>5, <2>1
    <2>3. \A i \in 1..B : raw[s + i] = body[i]
        BY <1>4, <1>5, <2>1
    <2>4. Part(raw, s, body)
        BY <1>3, <1>4, <1>5, <2>2, <2>3 DEF Part
    <2>5. SubSeq(raw, s + 1, s + Len(body)) = body
        BY <1>5, <2>4, PartIsSubSeq
    <2> QED BY <1>3, <2>2, <2>5
<1>8. PICK n, headers : n = h - 1 /\ headers = SubSeq(raw, 1, n)
    OBVIOUS
<1>9. IsText(headers) /\ Len(headers) = n /\ \A i \in 1..n : headers[i] = raw[i]
    <2>1. n \in 0..Len(raw)
        BY <1>3, <1>4, <1>5, <1>8
    <2>2. raw \in Seq(Signs) /\ n \in 0..Len(raw) /\ headers = SubSeq(raw, 1, n)
        BY <1>5, <1>8, <2>1
    <2> QED BY ONLY <2>2, PrefixIs
<1>10. n = D + 10
    BY <1>3, <1>4, <1>8
<1>11. ASSUME NEW i \in 1..5 PROVE headers[i] # ContentLength
    <2>1. i \in 1..n
        BY <1>4, <1>10
    <2>2. headers[i] = raw[i]
        BY <1>9, <2>1
    <2>3. i = 1 \/ i = 2 \/ i = 3 \/ i = 4 \/ i = 5
        OBVIOUS
    <2>4. /\ Sp # ContentLength /\ Cr # ContentLength /\ Lf # ContentLength
          /\ status # ContentLength /\ "HTTP/1.1" # ContentLength
        BY StatusesAre, ContentLengthApart
    <2>5. raw[i] # ContentLength
        BY <1>5, <2>3, <2>4
    <2> QED BY <2>2, <2>5
<1>12. headers[6] = ContentLength /\ headers[7] = Sp
    <2>1. 6 \in 1..n /\ 7 \in 1..n
        BY <1>4, <1>10
    <2> QED BY <1>5, <1>9, <2>1
<1>13. ASSUME NEW i \in 1..D PROVE headers[7 + i] = d[i]
    <2>1. 7 + i \in 1..n
        BY <1>4, <1>10
    <2>2. headers[7 + i] = raw[7 + i]
        BY <1>9, <2>1
    <2> QED BY <1>5, <2>2
<1>14. ASSUME NEW i \in (D + 8)..n PROVE headers[i] # ContentLength
    <2>1. i \in 1..n /\ (i = D + 8 \/ i = D + 9 \/ i = D + 10)
        BY <1>4, <1>10
    <2>2. headers[i] = raw[i]
        BY <1>9, <2>1
    <2> QED BY <1>5, <2>1, <2>2, StatusesAre, ContentLengthApart
<1>15. headers[D + 8] \notin Digits
    <2>1. D + 8 \in 1..n
        BY <1>4, <1>10
    <2>2. headers[D + 8] = Cr
        BY <1>5, <1>9, <2>1
    <2> QED BY <2>2, SpacesAre
<1>16. Tells(headers, 6, d)
    <2>1. 6 + 1 + D <= n /\ 6 + 2 + D = D + 8 /\ 6 + 1 = 7 /\ 6 - 1 = 5
        BY <1>4, <1>10
    <2>2. Len(headers) = n /\ Len(d) = D
        BY <1>3, <1>9
    <2>3. \A i \in 1..(6 - 1) : headers[i] # ContentLength
        BY <1>11, <2>1
    <2>4. \A i \in 1..D : headers[6 + 1 + i] = d[i]
        BY <1>13, <2>1
    <2>5. \A i \in (6 + 2 + D)..n : headers[i] # ContentLength
        BY <1>14, <2>1
    <2>6. headers[6 + 2 + D] \notin Digits /\ headers[6 + 1] = Sp /\ headers[6] = ContentLength
        BY <1>12, <1>15, <2>1
    <2> QED BY <2>1, <2>2, <2>3, <2>4, <2>5, <2>6 DEF Tells
<1>17. ParseContentLength(headers) = B
    <2>1. PICK k : k = 6
        OBVIOUS
    <2>2. k \in Nat \ {0} /\ Tells(headers, k, d) /\ IsText(headers) /\ B \in Nat /\ d = Decimal[B]
        BY <1>1, <1>3, <1>4, <1>9, <1>16, <2>1
    <2>3. ParseContentLength(headers) = IF B < Word THEN B ELSE 0
        BY <2>2, LengthRead
    <2> QED BY <1>3, <2>3
<1>18. B = L - h - 3
    BY <1>3, <1>4, <1>5
<1> QED BY <1>3, <1>6, <1>7, <1>8, <1>17, <1>18 DEF Whole

-----------------------------------------------------------------------------
(* How long answers are *)

\* c[i] bounds the first i texts together.
Bounds(c, seqs) ==
    /\ \A i \in 1..Len(seqs) : c[i] \in Nat
    /\ Len(seqs[1]) <= c[1]
    /\ \A i \in 2..Len(seqs) : c[i - 1] + Len(seqs[i]) <= c[i]

\* A text of several is no longer than their lengths added up.
LEMMA FlattenBound ==
    ASSUME NEW S, NEW seqs \in Seq(Seq(S)), Len(seqs) # 0, NEW c, Bounds(c, seqs)
    PROVE  Len(FlattenSeq(seqs)) \in Nat /\ Len(FlattenSeq(seqs)) <= c[Len(seqs)]
<1>1. PICK n \in Nat : n = Len(seqs) /\ n >= 1
    OBVIOUS
<1>2. PICK F : Joins(F, S, seqs)
    BY FlattenSteps
<1>3. /\ F[1] = seqs[1] /\ \A j \in 2..n : F[j] = F[j - 1] \o seqs[j]
      /\ \A j \in 1..n : F[j] \in Seq(S) /\ seqs[j] \in Seq(S)
      /\ FlattenSeq(seqs) = F[n]
    <2>1. \A j \in 1..n : seqs[j] \in Seq(S)
        BY <1>1
    <2> QED BY <1>1, <1>2, <2>1 DEF Joins
<1>4. /\ \A j \in 1..n : c[j] \in Nat
      /\ Len(seqs[1]) <= c[1]
      /\ \A j \in 2..n : c[j - 1] + Len(seqs[j]) <= c[j]
    BY <1>1 DEF Bounds
<1> DEFINE T == {k \in Nat : k + 1 <= n => Len(F[k + 1]) <= c[k + 1]}
<1>5. 0 \in T
    BY <1>3, <1>4
<1>6. ASSUME NEW k \in T PROVE k + 1 \in T
    <2> SUFFICES ASSUME (k + 1) + 1 <= n PROVE Len(F[(k + 1) + 1]) <= c[(k + 1) + 1]
        OBVIOUS
    <2>1. PICK j, h : j = (k + 1) + 1 /\ h = k + 1
        OBVIOUS
    <2>2. j \in 2..n /\ h \in 1..n /\ j \in 1..n /\ j - 1 = h /\ Len(F[h]) <= c[h]
        BY <1>1, <2>1
    <2>3. PICK x, y, z : x = F[h] /\ y = seqs[j] /\ z = F[j]
        OBVIOUS
    <2>4. x \in Seq(S) /\ y \in Seq(S) /\ z = x \o y
        BY <1>3, <2>2, <2>3
    <2>5. Len(z) = Len(x) + Len(y) /\ Len(x) \in Nat /\ Len(y) \in Nat
        BY ONLY <2>4, Joined
    <2>6. Len(x) <= c[h] /\ c[h] + Len(y) <= c[j] /\ c[h] \in Nat /\ c[j] \in Nat
        BY <1>4, <2>2, <2>3
    <2>7. Len(z) <= c[j]
        BY <2>5, <2>6
    <2> QED BY <2>1, <2>3, <2>7
<1>7. \A k \in Nat : k \in T
    <2>1. T \in SUBSET Nat
        OBVIOUS
    <2> HIDE DEF T
    <2> QED BY <1>5, <1>6, <2>1, Induction
<1>8. PICK k : k = n - 1
    OBVIOUS
<1>9. k \in Nat /\ k + 1 = n
    BY <1>1, <1>8
<1>10. k \in T
    <2> HIDE DEF T
    <2> QED BY <1>7, <1>9
<1>11. Len(F[n]) <= c[n]
    BY <1>9, <1>10
<1>12. Len(F[n]) \in Nat
    BY <1>1, <1>3
<1> QED BY <1>1, <1>3, <1>11, <1>12

\* c[i] bounds the first i members with the commas between them.
BoundsMembers(c, members) ==
    /\ \A i \in 1..Len(members) : c[i] \in Nat
    /\ Len(members[1]) <= c[1]
    /\ \A i \in 2..Len(members) : c[i - 1] + Len(members[i]) + 1 <= c[i]

\* A text of at most k symbols.
Short(x, k) == x \in Seq(Signs) /\ Len(x) \in Nat /\ Len(x) <= k

\* An object is no longer than its members added up, and two braces.
LEMMA ObjectBound ==
    ASSUME NEW members \in Seq(Seq(Signs)), NEW k, k = Len(members), k # 0,
           NEW c, BoundsMembers(c, members)
    PROVE  Short(JsonObject(members), c[k] + 2)
<1>1. PICK seqs, x, n : seqs = Listed(members) /\ x = JsonObject(members) /\ n = Len(members)
    OBVIOUS
<1>2. Opening \in Signs /\ Closing \in Signs /\ Comma \in Signs
    BY SignsAre
<1>3. ListsMembers(x, seqs, Signs, members)
    BY <1>1, <1>2, ListedAre
<1>4. /\ Wraps(x, Opening, FlattenSeq(seqs), Closing) /\ seqs \in Seq(Seq(Signs))
      /\ Len(seqs) = n /\ n \in Nat /\ n # 0
      /\ \A i \in 1..n : /\ members[i] \in Seq(Signs)
                         /\ seqs[i] = IF i = 1 THEN members[i] ELSE <<Comma>> \o members[i]
    BY <1>1, <1>3 DEF ListsMembers
<1>5. Bounds(c, seqs)
    <2>1. /\ \A i \in 1..n : c[i] \in Nat
          /\ Len(members[1]) <= c[1]
          /\ \A i \in 2..n : c[i - 1] + Len(members[i]) + 1 <= c[i]
        BY <1>1 DEF BoundsMembers
    <2>2. Len(seqs[1]) <= c[1]
        <3>1. 1 \in 1..n
            BY <1>4
        <3> QED BY <1>4, <2>1, <3>1
    <2>3. ASSUME NEW i \in 2..n PROVE c[i - 1] + Len(seqs[i]) <= c[i]
        <3>1. PICK p, y : p = <<Comma>> /\ y = members[i]
            OBVIOUS
        <3>2. p \in Seq(Signs) /\ Len(p) = 1
            BY <1>2, <3>1
        <3>3. i \in 1..n /\ i # 1 /\ i - 1 \in 1..n
            BY <1>4
        <3>4. y \in Seq(Signs) /\ seqs[i] = p \o y
            BY <1>4, <3>1, <3>3
        <3>5. Len(seqs[i]) = Len(p) + Len(y) /\ Len(y) \in Nat
            <4>1. PICK z : z = seqs[i]
                OBVIOUS
            <4>2. p \in Seq(Signs) /\ y \in Seq(Signs) /\ z = p \o y
                BY <3>2, <3>4, <4>1
            <4>3. Len(z) = Len(p) + Len(y) /\ Len(y) \in Nat
                BY ONLY <4>2, Joined
            <4> QED BY <4>1, <4>3
        <3>6. c[i - 1] \in Nat /\ c[i] \in Nat /\ c[i - 1] + Len(y) + 1 <= c[i]
            BY <2>1, <3>1, <3>3
        <3> QED BY <3>2, <3>5, <3>6
    <2> QED BY <1>4, <2>1, <2>2, <2>3 DEF Bounds
<1>6. PICK v : v = FlattenSeq(seqs)
    OBVIOUS
<1>7. v \in Seq(Signs) /\ Len(v) \in Nat /\ Len(v) <= c[n]
    BY <1>4, <1>5, <1>6, FlattenBound, FlattenIs
<1>8. x \in Seq(Signs) /\ Len(x) = Len(v) + 2
    BY <1>2, <1>4, <1>6, <1>7, Wrapped
<1>9. c[n] \in Nat
    BY <1>1, <1>4 DEF BoundsMembers
<1>10. Len(x) \in Nat /\ Len(x) <= c[n] + 2
    BY <1>7, <1>8, <1>9
<1> QED BY <1>1, <1>8, <1>10 DEF Short

\* Escaping doubles a text at most.
LEMMA TextBound ==
    ASSUME NEW name \in Names, NEW value \in Seq(Signs), Len(value) # 0
    PROVE  /\ JsonText(name, value) \in Seq(Signs)
           /\ Len(JsonText(name, value)) <= 2 * Len(value) + 4
<1>1. PICK seqs, e, n : seqs = Pieces(value) /\ e = JsonEscape(value) /\ n = Len(value)
    OBVIOUS
<1>2. Backslash \in Signs /\ Quote \in Signs /\ Colon \in Signs /\ name \in Signs
    BY SignsAre
<1>3. /\ e = FlattenSeq(seqs) /\ seqs \in Seq(Seq(Signs)) /\ Len(seqs) = n /\ n \in Nat /\ n # 0
      /\ \A i \in 1..n : seqs[i] = IF value[i] = Quote \/ value[i] = Backslash
                                   THEN <<Backslash, value[i]>> ELSE <<value[i]>>
    BY <1>1, <1>2, PiecesAre
<1>4. ASSUME NEW i \in 1..n PROVE Len(seqs[i]) \in Nat /\ Len(seqs[i]) <= 2
    <2>1. PICK s : s = value[i]
        OBVIOUS
    <2>2. seqs[i] = <<Backslash, s>> \/ seqs[i] = <<s>>
        BY <1>3, <2>1
    <2>3. PICK a, b : a = <<Backslash, s>> /\ b = <<s>>
        OBVIOUS
    <2>4. Len(a) = 2 /\ Len(b) = 1
        BY <2>3
    <2>5. seqs[i] = a \/ seqs[i] = b
        BY <2>2, <2>3
    <2>6. 2 \in Nat /\ 1 \in Nat /\ 2 <= 2 /\ 1 <= 2
        OBVIOUS
    <2> QED BY ONLY <2>4, <2>5, <2>6
<1>5. PICK c : c = [i \in 1..n |-> 2 * i]
    OBVIOUS
<1>6. Bounds(c, seqs)
    <2>1. \A i \in 1..n : c[i] = 2 * i /\ c[i] \in Nat
        BY <1>3, <1>5
    <2>2. Len(seqs[1]) <= c[1]
        <3>1. 1 \in 1..n
            BY <1>3
        <3> QED BY <1>4, <2>1, <3>1
    <2>3. ASSUME NEW i \in 2..n PROVE c[i - 1] + Len(seqs[i]) <= c[i]
        <3>1. i \in 1..n /\ i - 1 \in 1..n
            BY <1>3
        <3>2. c[i - 1] = 2 * (i - 1) /\ c[i] = 2 * i /\ Len(seqs[i]) \in Nat /\ Len(seqs[i]) <= 2
            BY <1>4, <2>1, <3>1
        <3>3. PICK l : l = Len(seqs[i])
            OBVIOUS
        <3>4. i \in Nat /\ l \in Nat /\ l <= 2
            BY <1>3, <3>1, <3>2, <3>3
        <3>5. 2 * (i - 1) + l <= 2 * i
            BY ONLY <3>4
        <3> QED BY <3>2, <3>3, <3>5
    <2> QED BY <1>3, <2>1, <2>2, <2>3 DEF Bounds
<1>7. e \in Seq(Signs) /\ Len(e) \in Nat /\ Len(e) <= 2 * n
    <2>1. Len(e) \in Nat /\ Len(e) <= c[n]
        BY <1>3, <1>6, FlattenBound
    <2>2. c[n] = 2 * n
        BY <1>3, <1>5
    <2>3. e \in Seq(Signs)
        BY <1>1, <1>2, KeepsEscaped
    <2> QED BY <2>1, <2>2, <2>3
<1>8. PICK q : q = Quoted(e)
    OBVIOUS
<1>9. q \in Seq(Signs) /\ Len(q) = Len(e) + 2
    <2>1. Wraps(q, Quote, e, Quote)
        BY <1>8 DEF Wraps, Quoted
    <2> QED BY <1>2, <1>7, <2>1, Wrapped
<1>10. PICK m : m = Member(name, q)
    OBVIOUS
<1>11. m \in Seq(Signs) /\ Len(m) = Len(q) + 2
    <2>1. Membered(Member(name, q), Signs, name, q)
        BY <1>2, <1>9, MemberIs
    <2> QED BY <1>10, <2>1 DEF Membered
<1>12. JsonText(name, value) = m
    BY <1>1, <1>8, <1>10 DEF JsonText
<1> QED BY <1>1, <1>3, <1>7, <1>9, <1>11, <1>12

\* A member has a name and a colon before its value.
LEMMA MemberBound ==
    ASSUME NEW name \in Names, NEW v \in Seq(Signs)
    PROVE  Member(name, v) \in Seq(Signs) /\ Len(Member(name, v)) = Len(v) + 2
<1>1. name \in Signs /\ Colon \in Signs
    BY SignsAre
<1>2. Membered(Member(name, v), Signs, name, v)
    BY <1>1, MemberIs
<1> QED BY <1>2 DEF Membered

\* A number of one digit.
LEMMA CountBound ==
    ASSUME NEW name \in Names, NEW n \in 0..9
    PROVE  JsonNumber(name, n) \in Seq(Signs) /\ Len(JsonNumber(name, n)) = 3
<1>1. n \in Nat /\ n < 10 /\ n + 1 \in 1..10
    OBVIOUS
<1>2. Decimal[n] = <<Numerals[n + 1]>> /\ Numerals[n + 1] \in Signs
    BY <1>1, DecimalSteps, NumeralsAre, SignsAre
<1>3. PICK d : d = Decimal[n]
    OBVIOUS
<1>4. d \in Seq(Signs) /\ Len(d) = 1
    BY <1>2, <1>3
<1>5. Member(name, d) \in Seq(Signs) /\ Len(Member(name, d)) = 3
    <2>1. Member(name, d) \in Seq(Signs) /\ Len(Member(name, d)) = Len(d) + 2
        BY <1>4, MemberBound
    <2> QED BY <1>4, <2>1
<1> QED BY <1>3, <1>5 DEF JsonNumber

\* The size of every answer without an echoed text fits a size_t.
LEMMA SmallWord == Word \in Nat /\ 100 <= Word
    BY SizesAssumption, WordAssumption

\* Bodies of answers fit.
LEMMA ErrorFits ==
    ASSUME NEW error \in Seq(Signs), Len(error) \in 1..2
    PROVE  Len(ErrorToJson(error)) < Word
<1>1. PICK a, members, l : a = JsonText("error", error) /\ members = <<a>> /\ l = Len(error)
    OBVIOUS
<1>2. l \in 1..2 /\ l # 0
    BY <1>1
<1>3. a \in Seq(Signs) /\ Len(a) <= 2 * l + 4
    BY <1>1, <1>2, NamesAre, TextBound
<1>4. Len(a) <= 8
    BY <1>2, <1>3
<1>5. members \in Seq(Seq(Signs)) /\ Len(members) = 1 /\ members[1] = a
    BY <1>1, <1>3
<1>6. PICK c : c = <<8>>
    OBVIOUS
<1>7. c[1] = 8
    BY <1>6
<1>8. BoundsMembers(c, members)
    BY <1>4, <1>5, <1>7 DEF BoundsMembers
<1>9. Short(JsonObject(members), c[1] + 2)
    <2>1. members \in Seq(Seq(Signs)) /\ 1 = Len(members) /\ 1 # 0
        BY <1>5
    <2> QED BY ONLY <1>8, <2>1, ObjectBound
<1>10. ErrorToJson(error) = JsonObject(members)
    BY <1>1 DEF ErrorToJson
<1> QED BY <1>7, <1>9, <1>10, SmallWord DEF Short

\* A receipt of short texts,
ShortReceipt(receipt) ==
    \/ receipt = None
    \/ receipt.txHash \in Seq(Signs) /\ Len(receipt.txHash) = 1 /\ receipt.blockHeight \in 0..9

\* which is written in 19 symbols.
LEMMA ReceiptFits ==
    ASSUME NEW receipt, ShortReceipt(receipt)
    PROVE  Short(ReceiptToJson(receipt), 19)
<1>0. PICK x : x = ReceiptToJson(receipt)
    OBVIOUS
<1>1. CASE receipt = None
    <2>1. x = <<"null">> /\ "null" \in Signs
        BY <1>0, <1>1, Zenon DEF ReceiptToJson, Signs
    <2> QED BY <1>0, <2>1 DEF Short
<1>2. CASE receipt # None
    <2>1. PICK t, h, n : t = receipt.txHash /\ h = receipt.blockHeight /\ n = <<"now">>
        OBVIOUS
    <2>2. t \in Seq(Signs) /\ Len(t) = 1 /\ h \in 0..9
        BY <1>2, <2>1 DEF ShortReceipt
    <2>3. n \in Seq(Signs) /\ Len(n) = 1
        <3>1. "now" \in Signs
            BY Zenon DEF Signs
        <3> QED BY <2>1, <3>1
    <2>4. PICK a, b, d, members :
            /\ a = JsonText("txHash", t) /\ b = JsonNumber("blockHeight", h)
            /\ d = JsonText("submittedAt", n) /\ members = <<a, b, d>>
        OBVIOUS
    <2>5. x = JsonObject(members)
        BY <1>0, <1>2, <2>1, <2>4, Zenon DEF ReceiptToJson
    <2>6. a \in Seq(Signs) /\ Len(a) <= 6
        <3>1. PICK l : l = Len(t)
            OBVIOUS
        <3>2. l # 0 /\ 2 * l + 4 = 6
            BY <2>2, <3>1
        <3>3. a \in Seq(Signs) /\ Len(a) <= 2 * l + 4
            BY <2>2, <2>4, <3>1, <3>2, NamesAre, TextBound
        <3> QED BY <3>2, <3>3
    <2>7. d \in Seq(Signs) /\ Len(d) <= 6
        <3>1. PICK l : l = Len(n)
            OBVIOUS
        <3>2. l # 0 /\ 2 * l + 4 = 6
            BY <2>3, <3>1
        <3>3. d \in Seq(Signs) /\ Len(d) <= 2 * l + 4
            BY <2>3, <2>4, <3>1, <3>2, NamesAre, TextBound
        <3> QED BY <3>2, <3>3
    <2>8. b \in Seq(Signs) /\ Len(b) = 3
        BY <2>2, <2>4, NamesAre, CountBound
    <2>9. /\ members \in Seq(Seq(Signs)) /\ Len(members) = 3
          /\ members[1] = a /\ members[2] = b /\ members[3] = d
        BY <2>4, <2>6, <2>7, <2>8
    <2>10. PICK c : c = <<6, 10, 17>>
        OBVIOUS
    <2>11. c[1] = 6 /\ c[2] = 10 /\ c[3] = 17
        BY <2>10
    <2>12. BoundsMembers(c, members)
        <3>1. ASSUME NEW i \in 1..3 PROVE c[i] \in Nat
            <4>1. i = 1 \/ i = 2 \/ i = 3
                OBVIOUS
            <4> QED BY <2>11, <4>1
        <3>2. ASSUME NEW i \in 2..3 PROVE c[i - 1] + Len(members[i]) + 1 <= c[i]
            <4>1. Len(d) \in Nat
                BY <2>7
            <4>2. CASE i = 2
                <5>1. i - 1 = 1 /\ c[1] + 3 + 1 <= c[2]
                    BY <2>11, <4>2
                <5> QED BY <2>8, <2>9, <4>2, <5>1
            <4>3. CASE i = 3
                <5>1. i - 1 = 2 /\ c[2] + Len(d) + 1 <= c[3]
                    BY <2>7, <2>11, <4>1, <4>3
                <5> QED BY <2>9, <4>3, <5>1
            <4>4. i = 2 \/ i = 3
                OBVIOUS
            <4> QED BY <4>2, <4>3, <4>4
        <3>3. Len(members[1]) <= c[1]
            BY <2>6, <2>9, <2>11
        <3> QED BY <2>9, <3>1, <3>2, <3>3 DEF BoundsMembers
    <2>13. Short(JsonObject(members), c[3] + 2)
        <3>1. members \in Seq(Seq(Signs)) /\ 3 = Len(members) /\ 3 # 0
            BY <2>9
        <3> QED BY ONLY <2>12, <3>1, ObjectBound
    <2>14. c[3] + 2 = 19
        BY <2>11
    <2> QED BY <1>0, <2>5, <2>13, <2>14
<1> QED BY <1>1, <1>2

\* The results that Ingest has here.
ShortResult(r) ==
    /\ ResultIs(r) /\ Len(r.message) \in 1..4 /\ r.recordId \in 0..9 /\ ShortReceipt(r.receipt)

\* The answer to an ingest with such a receipt and a short message fits.
LEMMA ResultFits ==
    ASSUME NEW r, ShortResult(r)
    PROVE  Len(ResultToJson(r)) < Word
<1>1. PICK a, b, c, d, e, members :
         /\ a = Member("accepted", IF r.accepted THEN <<"true">> ELSE <<"false">>)
         /\ b = JsonText("message", r.message) /\ c = JsonNumber("recordId", r.recordId)
         /\ d = JsonNumber("processingMs", 0) /\ e = Member("receipt", ReceiptToJson(r.receipt))
         /\ members = <<a, b, c, d, e>>
    OBVIOUS
<1>2. ResultToJson(r) = JsonObject(members)
    BY <1>1, Zenon DEF ResultToJson
<1>3. a \in Seq(Signs) /\ Len(a) = 3
    <2>1. PICK w : w = IF r.accepted THEN <<"true">> ELSE <<"false">>
        OBVIOUS
    <2>2. "true" \in Signs /\ "false" \in Signs
        BY Zenon DEF Signs
    <2>3. w \in Seq(Signs) /\ Len(w) = 1
        BY <2>1, <2>2
    <2>4. a \in Seq(Signs) /\ Len(a) = Len(w) + 2
        BY <1>1, <2>1, <2>3, NamesAre, MemberBound
    <2> QED BY <2>3, <2>4
<1>4. b \in Seq(Signs) /\ Len(b) <= 12
    <2>1. PICK m, l : m = r.message /\ l = Len(m)
        OBVIOUS
    <2>2. m \in Seq(Signs) /\ l \in 1..4 /\ l # 0
        <3>1. m \in Seq(Signs)
            BY <2>1 DEF ShortResult, ResultIs
        <3>2. l \in 1..4
            BY <2>1 DEF ShortResult
        <3> QED BY <3>1, <3>2
    <2>3. b \in Seq(Signs) /\ Len(b) <= 2 * l + 4
        BY <1>1, <2>1, <2>2, NamesAre, TextBound
    <2> QED BY <2>2, <2>3
<1>5. c \in Seq(Signs) /\ Len(c) = 3
    BY <1>1, NamesAre, CountBound DEF ShortResult
<1>6. d \in Seq(Signs) /\ Len(d) = 3
    BY <1>1, NamesAre, CountBound
<1>7. e \in Seq(Signs) /\ Len(e) <= 21
    <2>1. PICK v : v = ReceiptToJson(r.receipt)
        OBVIOUS
    <2>2. Short(v, 19)
        BY <2>1, ReceiptFits DEF ShortResult
    <2>3. v \in Seq(Signs) /\ Len(v) \in Nat /\ Len(v) <= 19
        BY <2>2 DEF Short
    <2>4. e \in Seq(Signs) /\ Len(e) = Len(v) + 2
        BY <1>1, <2>1, <2>3, NamesAre, MemberBound
    <2> QED BY <2>3, <2>4
<1>8. /\ members \in Seq(Seq(Signs)) /\ Len(members) = 5
      /\ members[1] = a /\ members[2] = b /\ members[3] = c /\ members[4] = d /\ members[5] = e
    BY <1>1, <1>3, <1>4, <1>5, <1>6, <1>7
<1>9. PICK k : k = <<3, 16, 20, 24, 46>>
    OBVIOUS
<1>10. k[1] = 3 /\ k[2] = 16 /\ k[3] = 20 /\ k[4] = 24 /\ k[5] = 46
    BY <1>9
<1>11. BoundsMembers(k, members)
    <2>1. ASSUME NEW i \in 1..5 PROVE k[i] \in Nat
        <3>1. i = 1 \/ i = 2 \/ i = 3 \/ i = 4 \/ i = 5
            OBVIOUS
        <3> QED BY <1>10, <3>1
    <2>2. ASSUME NEW i \in 2..5 PROVE k[i - 1] + Len(members[i]) + 1 <= k[i]
        <3>1. Len(b) \in Nat /\ Len(e) \in Nat
            BY <1>4, <1>7
        <3>2. CASE i = 2
            <4>1. i - 1 = 1 /\ k[1] + Len(b) + 1 <= k[2]
                BY <1>4, <1>10, <3>1, <3>2
            <4> QED BY <1>8, <3>2, <4>1
        <3>3. CASE i = 3
            <4>1. i - 1 = 2 /\ k[2] + 3 + 1 <= k[3]
                BY <1>10, <3>3
            <4> QED BY <1>5, <1>8, <3>3, <4>1
        <3>4. CASE i = 4
            <4>1. i - 1 = 3 /\ k[3] + 3 + 1 <= k[4]
                BY <1>10, <3>4
            <4> QED BY <1>6, <1>8, <3>4, <4>1
        <3>5. CASE i = 5
            <4>1. i - 1 = 4 /\ k[4] + Len(e) + 1 <= k[5]
                BY <1>7, <1>10, <3>1, <3>5
            <4> QED BY <1>8, <3>5, <4>1
        <3>6. i = 2 \/ i = 3 \/ i = 4 \/ i = 5
            OBVIOUS
        <3> QED BY <3>2, <3>3, <3>4, <3>5, <3>6
    <2>3. Len(members[1]) <= k[1]
        <3>1. members[1] = a /\ Len(a) = 3 /\ k[1] = 3 /\ 3 <= 3
            BY <1>3, <1>8, <1>10
        <3> QED BY ONLY <3>1
    <2> QED BY <1>8, <2>1, <2>2, <2>3 DEF BoundsMembers
<1>12. Short(JsonObject(members), k[5] + 2)
    <2>1. members \in Seq(Seq(Signs)) /\ 5 = Len(members) /\ 5 # 0
        BY <1>8
    <2> QED BY ONLY <1>11, <2>1, ObjectBound
<1> QED BY <1>2, <1>10, <1>12, SmallWord DEF Short

\* Both results of Ingest are such results: saved with a receipt,
LEMMA SavedResult ==
    ASSUME NEW r, r = [accepted |-> TRUE, message |-> <<"accepted">>, recordId |-> 1,
                       receipt |-> [txHash |-> <<"tx">>, blockHeight |-> 7]]
    PROVE  ShortResult(r)
<1>1. "accepted" \in Signs /\ "tx" \in Signs
    BY Zenon DEF Signs
<1>2. PICK m, t, receipt :
        m = <<"accepted">> /\ t = <<"tx">> /\ receipt = [txHash |-> t, blockHeight |-> 7]
    OBVIOUS
<1>3. m \in Seq(Signs) /\ t \in Seq(Signs) /\ Len(m) = 1 /\ Len(t) = 1
    BY <1>1, <1>2
<1>4. receipt.txHash = t /\ receipt.blockHeight = 7
    BY <1>2
<1>5. r.accepted = TRUE /\ r.message = m /\ r.recordId = 1 /\ r.receipt = receipt
    BY <1>2
<1>6. ReceiptIs(receipt)
    BY <1>3, <1>4 DEF ReceiptIs
<1>7. ShortReceipt(receipt)
    BY <1>3, <1>4 DEF ShortReceipt
<1>8. ResultIs(r)
    BY <1>3, <1>4, <1>5, <1>6 DEF ResultIs
<1> QED BY <1>3, <1>5, <1>7, <1>8 DEF ShortResult

\* and rejected.
LEMMA RejectedResult ==
    ASSUME NEW r, r = [accepted |-> FALSE, message |-> <<"near ", Quote, "key", Quote>>,
                       recordId |-> 0, receipt |-> None]
    PROVE  ShortResult(r) /\ r.accepted = FALSE
<1>1. PICK near \in Signs, key \in Signs : near = "near " /\ key = "key"
    BY Zenon DEF Signs
<1>2. Quote \in Signs
    BY SignsAre
<1>3. PICK m : m = <<near, Quote, key, Quote>>
    OBVIOUS
<1>4. m \in Seq(Signs) /\ Len(m) = 4
    BY ONLY <1>2, <1>3
<1>5. r.accepted = FALSE /\ r.message = m /\ r.recordId = 0 /\ r.receipt = None
    BY <1>1, <1>3, Zenon
<1>6. ResultIs(r)
    <2>1. ReceiptIs(r.receipt)
        BY ONLY <1>5 DEF ReceiptIs
    <2>2. r.accepted \in BOOLEAN /\ r.message \in Seq(Signs) /\ r.recordId \in Nat
        <3>1. FALSE \in BOOLEAN /\ 0 \in Nat
            OBVIOUS
        <3>2. r.accepted \in BOOLEAN
            BY ONLY <1>5, <3>1
        <3>3. r.message \in Seq(Signs)
            BY ONLY <1>4, <1>5
        <3>4. r.recordId \in Nat
            BY ONLY <1>5, <3>1
        <3> QED BY ONLY <3>2, <3>3, <3>4
    <2>3. r.accepted => r.receipt.txHash \in Seq(Signs)
        BY ONLY <1>5
    <2> QED BY ONLY <2>1, <2>2, <2>3 DEF ResultIs
<1> QED BY ONLY <1>4, <1>5, <1>6 DEF ShortResult, ShortReceipt

-----------------------------------------------------------------------------
(* What is parsed *)

\* An optional member is a part of the body or its default.
LEMMA OptionalIn ==
    ASSUME NEW text \in Seq(Signs), NEW key, NEW default \in Seq(Signs)
    PROVE  ValueOr(ExtractStringValue(text, key), default) \in Seq(Signs)
<1>1. PICK v : v = ExtractStringValue(text, key)
    OBVIOUS
<1>2. IsText(text)
    BY DEF IsText
<1>3. v # None => v \in Seq(Signs)
    BY <1>1, <1>2, ExtractedString, WithinIs
<1> QED BY <1>1, <1>3 DEF ValueOr

\* Of what the parser lets through every string is a part of the body.
LEMMA ParsedTexts ==
    ASSUME NEW text \in Seq(Signs), NEW json, json = ParseTelemetryPacketJson(text), json.ok
    PROVE  PacketTexts(json.packet)
<1>0. IsText(text)
    BY DEF IsText
<1>1. Readable(json.packet) /\ Unquoted(json.packet.deviceId)
    BY <1>0, PacketIsReadable
<1> DEFINE I == {i \in 1..Len(Required) : Extract(text, Required[i]) = None}
           missing == IF I # {} THEN Min(I) ELSE 0
<1>2. missing = SelectInSeq(Required, LAMBDA key : Extract(text, key) = None)
    BY DEF SelectInSeq
<1>3. missing = 0
    <2> HIDE DEF missing
    <2>1. CASE missing # 0
        <3>1. json.ok = FALSE
            BY <1>2, <2>1 DEF ParseTelemetryPacketJson
        <3> QED BY <3>1
    <2> QED BY <2>1
<1>4. I = {}
    <2> SUFFICES ASSUME I # {} PROVE FALSE
        OBVIOUS
    <2>1. I \in SUBSET Nat /\ 0 \notin I
        BY DEF Required
    <2>2. Min(I) \in I
        <3> HIDE DEF I
        <3> QED BY <2>1, LeastIs
    <2>3. Min(I) = 0
        <3> HIDE DEF I
        <3> QED BY <1>3
    <2> QED BY <2>1, <2>2, <2>3
<1>5. \A i \in 1..5 : Extract(text, Required[i]) # None
    <2>1. Len(Required) = 5
        BY DEF Required
    <2> QED BY <1>4, <2>1
<1> HIDE DEF missing, I
<1>6. PICK p : p = json.packet
    OBVIOUS
<1>7. /\ p.deviceId = Extract(text, "deviceId") /\ p.telemetryJson = Extract(text, "telemetry")
      /\ p.hashHex = Extract(text, "hash") /\ p.signature = Extract(text, "signature")
      /\ p.pubKeyId = ValueOr(Extract(text, "pubKeyId"), <<"default-pubkey">>)
      /\ p.transport = ValueOr(Extract(text, "transport"), <<"wifi">>)
      /\ p.batchCode = ValueOr(Extract(text, "batchCode"), <<>>)
    BY <1>2, <1>3, <1>6 DEF ParseTelemetryPacketJson
<1>8. /\ Extract(text, "deviceId") # None /\ Extract(text, "telemetry") # None
      /\ Extract(text, "hash") # None /\ Extract(text, "signature") # None
    <2>1. /\ Required[1] = "deviceId" /\ Required[3] = "telemetry" /\ Required[4] = "hash"
          /\ Required[5] = "signature"
        BY DEF Required
    <2>2. /\ Extract(text, Required[1]) # None /\ Extract(text, Required[3]) # None
          /\ Extract(text, Required[4]) # None /\ Extract(text, Required[5]) # None
        BY <1>5
    <2> QED BY <2>1, <2>2
<1>9. /\ Extract(text, "deviceId") = ExtractStringValue(text, "deviceId")
      /\ Extract(text, "telemetry") = ExtractObjectValue(text, "telemetry")
      /\ Extract(text, "hash") = ExtractStringValue(text, "hash")
      /\ Extract(text, "signature") = ExtractStringValue(text, "signature")
      /\ Extract(text, "pubKeyId") = ExtractStringValue(text, "pubKeyId")
      /\ Extract(text, "transport") = ExtractStringValue(text, "transport")
      /\ Extract(text, "batchCode") = ExtractStringValue(text, "batchCode")
    BY DEF Extract
<1>10. p.deviceId \in Seq(Signs) /\ p.hashHex \in Seq(Signs) /\ p.signature \in Seq(Signs)
    <2>1. ASSUME NEW key, ExtractStringValue(text, key) # None
          PROVE  ExtractStringValue(text, key) \in Seq(Signs)
        BY <1>0, <2>1, ExtractedString, WithinIs
    <2> QED BY <1>7, <1>8, <1>9, <2>1
<1>11. p.pubKeyId \in Seq(Signs) /\ p.transport \in Seq(Signs) /\ p.batchCode \in Seq(Signs)
    <2>1. "default-pubkey" \in Signs /\ "wifi" \in Signs
        BY Zenon DEF Signs
    <2>2. PICK a, b, c : a = <<"default-pubkey">> /\ b = <<"wifi">> /\ c = <<>>
        OBVIOUS
    <2>3. a \in Seq(Signs) /\ b \in Seq(Signs) /\ c \in Seq(Signs)
        BY <2>1, <2>2
    <2>4. /\ ValueOr(ExtractStringValue(text, "pubKeyId"), a) \in Seq(Signs)
          /\ ValueOr(ExtractStringValue(text, "transport"), b) \in Seq(Signs)
          /\ ValueOr(ExtractStringValue(text, "batchCode"), c) \in Seq(Signs)
        BY <2>3, OptionalIn
    <2> QED BY <1>7, <1>9, <2>2, <2>4
<1>12. /\ p.telemetryJson \in Seq(Signs) /\ WholeObject(p.telemetryJson)
       /\ p.telemetryJson[1] = Opening
    <2>1. PICK v : v = ExtractObjectValue(text, "telemetry")
        OBVIOUS
    <2>2. v = p.telemetryJson /\ v # None
        BY <1>7, <1>8, <1>9, <2>1
    <2>3. WholeObject(v) /\ Within(v, text) /\ v[1] = Opening
        BY <1>0, <2>1, <2>2, ExtractedObject
    <2>4. v \in Seq(Signs)
        BY <2>3, WithinIs
    <2> QED BY <2>2, <2>3, <2>4
<1>13. p.telemetryJson \in PassedTexts
    <2>1. Len(p.telemetryJson) \in Nat
        BY <1>12
    <2>2. Keeps(p.telemetryJson, FALSE)
        BY <1>12, <2>1, KeepsWhole
    <2> QED BY <1>12, <2>2 DEF PassedTexts
<1>14. p.timestamp \in Nat /\ Unquoted(p.deviceId)
    BY <1>1, <1>6 DEF Readable
<1> QED BY <1>6, <1>10, <1>11, <1>12, <1>13, <1>14 DEF PacketTexts

\* A packet that the parser refuses lacks a required member.
LEMMA MissingIs ==
    ASSUME NEW text, NEW json, json = ParseTelemetryPacketJson(text), ~json.ok
    PROVE  json.error \in Names
<1> DEFINE I == {i \in 1..Len(Required) : Extract(text, Required[i]) = None}
           missing == IF I # {} THEN Min(I) ELSE 0
<1>1. missing = SelectInSeq(Required, LAMBDA key : Extract(text, key) = None)
    BY DEF SelectInSeq
<1>2. missing # 0 /\ json.error = Required[missing]
    <2> HIDE DEF missing
    <2>1. CASE missing = 0
        <3>1. json.ok = TRUE
            BY <1>1, <2>1 DEF ParseTelemetryPacketJson
        <3> QED BY <3>1
    <2>2. CASE missing # 0
        BY <1>1, <2>2 DEF ParseTelemetryPacketJson
    <2> QED BY <2>1, <2>2
<1>3. missing \in 1..5
    <2>1. Len(Required) = 5
        BY DEF Required
    <2>2. I \in SUBSET Nat /\ I \subseteq 1..5
        BY <2>1
    <2>3. I # {}
        <3> HIDE DEF I
        <3> QED BY <1>2
    <2>4. Min(I) \in I
        <3> HIDE DEF I
        <3> QED BY <2>2, <2>3, LeastIs
    <2> HIDE DEF I
    <2> QED BY <2>2, <2>3, <2>4
<1> HIDE DEF missing
<1>4. \A i \in 1..5 : Required[i] \in Names
    <2> TAKE i \in 1..5
    <2>1. i = 1 \/ i = 2 \/ i = 3 \/ i = 4 \/ i = 5
        OBVIOUS
    <2>2. /\ Required[1] = "deviceId" /\ Required[2] = "timestamp" /\ Required[3] = "telemetry"
          /\ Required[4] = "hash" /\ Required[5] = "signature"
        BY DEF Required
    <2> QED BY <2>1, <2>2, NamesAre
<1> QED BY <1>2, <1>3, <1>4

\* The body is a part of what was read.
LEMMA BodyIn ==
    ASSUME NEW S, NEW raw \in Seq(S), NEW request, request = ParseHttpRequest(raw), request # None
    PROVE  request.body \in Seq(S)
<1>1. PICK m, n : m = HeaderEnd(raw) + 4 /\ n = Len(raw)
    OBVIOUS
<1>2. HeaderEnd(raw) \in Nat /\ n \in Nat
    BY <1>1, HeaderEndIs
<1>3. request.body = SubSeq(raw, m, n)
    BY <1>1 DEF ParseHttpRequest
<1>4. m \in Nat \ {0} /\ n \in Nat /\ n <= Len(raw)
    BY <1>1, <1>2
<1>5. Within(request.body, raw)
    BY <1>3, <1>4 DEF Within
<1> QED BY <1>5, WithinIs

-----------------------------------------------------------------------------
(* What is answered *)

\* An answer with a body that is one object and no larger than a size_t tells.
Answered(raw) ==
    \E status \in Statuses, body \in Seq(Signs) :
        raw = BuildRawResponse(status, body) /\ IsObject(body) /\ Len(body) < Word

\* The two literal texts of an error.
LEMMA ErrorTexts ==
    /\ <<"invalid HTTP request">> \in Seq(Signs) /\ Len(<<"invalid HTTP request">>) \in 1..2
    /\ <<"route not found">> \in Seq(Signs) /\ Len(<<"route not found">>) \in 1..2
    /\ \A name \in Names :
          <<"missing ", name>> \in Seq(Signs) /\ Len(<<"missing ", name>>) \in 1..2
<1>1. PICK a \in Signs, b \in Signs, c \in Signs :
          a = "invalid HTTP request" /\ b = "route not found" /\ c = "missing "
    BY Zenon DEF Signs
<1>2. \A s \in Signs : <<s>> \in Seq(Signs) /\ Len(<<s>>) \in 1..2
    BY ONLY TRUE
<1>3. \A s \in Signs, t \in Signs : <<s, t>> \in Seq(Signs) /\ Len(<<s, t>>) \in 1..2
    BY ONLY TRUE
<1>4. \A name \in Names : name \in Signs
    BY SignsAre
<1> QED BY ONLY <1>1, <1>2, <1>3, <1>4, Zenon

\* An error of one text or two is answered with one object.
LEMMA ErrorAnswered ==
    ASSUME NEW error \in Seq(Signs), Len(error) \in 1..2, NEW status \in Statuses
    PROVE  Answered(BuildRawResponse(status, ErrorToJson(error)))
<1>1. ErrorToJson(error) \in Seq(Signs) /\ IsObject(ErrorToJson(error))
    BY ErrorIsObject
<1>2. Len(ErrorToJson(error)) < Word
    BY ErrorFits
<1> QED BY ONLY <1>1, <1>2 DEF Answered

\* So is a result.
LEMMA ResultAnswered ==
    ASSUME NEW r, ShortResult(r), NEW status \in Statuses
    PROVE  Answered(BuildRawResponse(status, ResultToJson(r)))
<1>1. ResultIs(r)
    BY ONLY ShortResult(r) DEF ShortResult
<1>2. ResultToJson(r) \in Seq(Signs) /\ IsObject(ResultToJson(r))
    BY <1>1, ResultIsObject
<1>3. Len(ResultToJson(r)) < Word
    BY ResultFits
<1> QED BY ONLY <1>2, <1>3 DEF Answered

\* The result of Ingest, with its literal texts.
LEMMA IngestResultShort ==
    ASSUME NEW p PROVE ShortResult(IngestResult(p))
<1>1. CASE Valid(p)
    <2>1. PICK r : r = [accepted |-> TRUE, message |-> <<"accepted">>, recordId |-> 1,
                        receipt |-> [txHash |-> <<"tx">>, blockHeight |-> 7]]
        OBVIOUS
    <2>2. ShortResult(r)
        BY ONLY <2>1, SavedResult
    <2>3. IngestResult(p) = r
        BY <1>1, <2>1, Zenon DEF IngestResult
    <2> QED BY <2>2, <2>3
<1>2. CASE ~Valid(p)
    <2>1. PICK r : r = [accepted |-> FALSE, message |-> <<"near ", Quote, "key", Quote>>,
                        recordId |-> 0, receipt |-> None]
        BY Zenon
    <2>2. ShortResult(r)
        BY ONLY <2>1, RejectedResult, Zenon
    <2>3. IngestResult(p) = r
        BY <1>2, <2>1, Zenon DEF IngestResult
    <2> QED BY ONLY <2>2, <2>3
<1> QED BY <1>1, <1>2

\* What is answered, and of which texts it is made.
AnswerInv ==
    /\ answer # None => Answered(answer)
    /\ result # None => ShortResult(result) /\ PacketTexts(parsed)

\* AnswerInv is inductive: what is answered is built of parts of what was read
\* and of texts of the code, in which Names and quotes stand as JsonEscape or
\* the scan of ExtractObjectValue leaves them.
LEMMA AnswerInvariant == Spec => []AnswerInv
<1>1. Init => AnswerInv
    BY DEF Init, AnswerInv
<1>2. ReadInv /\ AnswerInv /\ [Next]_vars => AnswerInv'
    <2> SUFFICES ASSUME ReadInv, AnswerInv, [Next]_vars PROVE AnswerInv'
        OBVIOUS
    <2>0. Raw \in Seq(Signs)
        <3>1. sent.text \in Seq(Symbols) /\ got \in 0..Len(sent.text)
            BY SentReads DEF ReadInv
        <3>2. Symbols \subseteq Signs
            BY SignsAre
        <3>3. sent.text \in Seq(Signs)
            BY ONLY <3>1, <3>2
        <3>4. PICK x : x = sent.text
            OBVIOUS
        <3>5. SubSeq(x, 1, got) \in Seq(Signs)
            BY ONLY <3>1, <3>3, <3>4
        <3> QED BY <3>4, <3>5 DEF Raw
    <2>1. CASE UNCHANGED <<answer, result, parsed>>
        BY ONLY <2>1, AnswerInv DEF AnswerInv
    <2>2. CASE HandleClient
        <3>1. PICK request : /\ request = ParseHttpRequest(Raw)
                             /\ \/ NoRequest \/ InvalidRequest(request)
                                \/ Ingest(request) \/ RouteOther(request)
            BY <2>2 DEF HandleClient
        <3>2. "400" \in Statuses /\ "404" \in Statuses /\ "202" \in Statuses
            BY DEF Statuses
        <3>3. CASE NoRequest
            BY <2>1, <3>3 DEF NoRequest
        <3>4. CASE InvalidRequest(request)
            <4>1. PICK error \in Seq(Signs) : error = <<"invalid HTTP request">> /\ Len(error) \in 1..2
                BY ErrorTexts, Zenon
            <4>2. answer' = BuildRawResponse("400", ErrorToJson(error))
                  /\ UNCHANGED <<result, parsed>>
                BY <3>4, <4>1, Zenon DEF InvalidRequest
            <4>3. Answered(answer')
                BY ONLY <3>2, <4>1, <4>2, ErrorAnswered
            <4> QED BY ONLY <4>2, <4>3, AnswerInv DEF AnswerInv
        <3>5. CASE Ingest(request)
            <4>1. PICK json : /\ json = ParseTelemetryPacketJson(request.body)
                              /\ json.ok => /\ parsed' = json.packet
                                            /\ result' = IngestResult(parsed')
                                            /\ answer' = BuildRawResponse(
                                                   IF result'.accepted THEN "202" ELSE "400",
                                                   ResultToJson(result'))
                              /\ ~json.ok =>
                                    /\ answer' = BuildRawResponse("400",
                                           ErrorToJson(<<"missing ", json.error>>))
                                    /\ UNCHANGED <<parsed, result>>
                BY <3>5, Zenon DEF Ingest
            <4>2. request # None
                BY <3>5, Zenon DEF Ingest
            <4>3. request.body \in Seq(Signs)
                BY ONLY <2>0, <3>1, <4>2, BodyIn
            <4>4. CASE json.ok
                <5>1. PacketTexts(parsed')
                    BY ONLY <4>1, <4>3, <4>4, ParsedTexts, Zenon
                <5>2. ShortResult(result')
                    BY ONLY <4>1, <4>4, IngestResultShort, Zenon
                <5>3. PICK status \in Statuses : status = IF result'.accepted THEN "202" ELSE "400"
                    BY ONLY <3>2
                <5>4. answer' = BuildRawResponse(status, ResultToJson(result'))
                    BY ONLY <4>1, <4>4, <5>3, Zenon
                <5>5. Answered(answer')
                    BY ONLY <5>2, <5>4, ResultAnswered
                <5> QED BY ONLY <5>1, <5>2, <5>5 DEF AnswerInv
            <4>5. CASE ~json.ok
                <5>1. json.error \in Names
                    BY ONLY <4>1, <4>5, MissingIs, Zenon
                <5>2. PICK error \in Seq(Signs) :
                          error = <<"missing ", json.error>> /\ Len(error) \in 1..2
                    BY ONLY <5>1, ErrorTexts, Zenon
                <5>3. answer' = BuildRawResponse("400", ErrorToJson(error))
                      /\ UNCHANGED <<parsed, result>>
                    BY ONLY <4>1, <4>5, <5>2, Zenon
                <5>4. Answered(answer')
                    BY ONLY <3>2, <5>2, <5>3, ErrorAnswered
                <5> QED BY ONLY <5>3, <5>4, AnswerInv DEF AnswerInv
            <4> QED BY <4>4, <4>5
        <3>6. CASE RouteOther(request)
            <4>1. PICK error \in Seq(Signs) : error = <<"route not found">> /\ Len(error) \in 1..2
                BY ErrorTexts, Zenon
            <4>2. /\ answer' = BuildRawResponse("404", ErrorToJson(error)) \/ answer' = None
                  /\ UNCHANGED <<result, parsed>>
                BY <3>6, <4>1, Zenon DEF RouteOther
            <4>3. answer' # None => Answered(answer')
                BY ONLY <3>2, <4>1, <4>2, ErrorAnswered
            <4> QED BY ONLY <4>2, <4>3, AnswerInv DEF AnswerInv
        <3> QED BY <3>1, <3>3, <3>4, <3>5, <3>6
    <2>3. UNCHANGED <<answer, result, parsed>> \/ HandleClient
        BY DEF Next, Recv, RecvEnds, vars
    <2> QED BY <2>1, <2>2, <2>3
<1> QED BY <1>1, <1>2, ReadInvariant, PTL DEF Spec

\* AnswersAreObjects: whatever text a client sends, the text of the answer, of
\* the event and of the record is one object, escaped where it must be, with the
\* telemetry object as it came, and the answer declares its length
\* (http_server.cpp:170-203, :460-485, :521-530, :583-592).
THEOREM AnswersAreWhole == Spec => []AnswersAreObjects
<1>1. AnswerInv => AnswersAreObjects
    <2> SUFFICES ASSUME AnswerInv PROVE AnswersAreObjects
        OBVIOUS
    <2>1. ASSUME NEW raw \in {answer} \ {None}
          PROVE  \E end \in {HeaderEnd(raw)} :
                    /\ IsObject(SubSeq(raw, end + 4, Len(raw)))
                    /\ ParseContentLength(SubSeq(raw, 1, end - 1)) = Len(raw) - end - 3
        <3>1. Answered(raw)
            BY <2>1 DEF AnswerInv
        <3>2. PICK status \in Statuses, body \in Seq(Signs) :
                  raw = BuildRawResponse(status, body) /\ IsObject(body) /\ Len(body) < Word
            BY <3>1 DEF Answered
        <3>3. Whole(raw, body)
            BY ONLY <3>2, AnswerIsWhole
        <3> QED BY ONLY <3>2, <3>3, Zenon DEF Whole
    <2>2. ASSUME result # None PROVE ShortResult(result) /\ ResultIs(result) /\ PacketTexts(parsed)
        BY <2>2 DEF AnswerInv, ShortResult
    <2>3. ASSUME result # None PROVE IsObject(EventToJson(parsed, result))
        BY ONLY <2>2, <2>3, EventIsObject
    <2>4. ASSUME result # None
          PROVE  /\ IsObject(RecordToJson(Record))
                 /\ ExtractObjectValue(RecordToJson(Record), "telemetry") = parsed.telemetryJson
        <3>1. PICK record : record = Record
            OBVIOUS
        <3>2. /\ record.recordId = result.recordId /\ record.packet = parsed
              /\ record.receipt = result.receipt
            BY ONLY <3>1 DEF Record
        <3>3. result.recordId \in Nat /\ ReceiptIs(result.receipt)
            BY ONLY <2>2, <2>4 DEF ResultIs
        <3>4. RecordTexts(record)
            BY ONLY <2>2, <2>4, <3>2, <3>3 DEF RecordTexts
        <3>5. /\ IsObject(RecordToJson(record))
              /\ ExtractObjectValue(RecordToJson(record), "telemetry") = record.packet.telemetryJson
            BY ONLY <3>4, RecordIsObject
        <3> QED BY ONLY <3>1, <3>2, <3>5
    <2> QED BY ONLY <2>1, <2>3, <2>4, Zenon DEF AnswersAreObjects
<1> QED BY <1>1, AnswerInvariant, PTL
===============================================================================
