------------------------- MODULE HttpConnection_proofs -------------------------
(***************************************************************************)
(* What HttpConnection keeps for every buffer, limit, packet and request   *)
(* that its assumptions allow: a request that declares its own length is   *)
(* read to its end and no further, nothing that is read exceeds its width, *)
(* the text that is hashed tells packets apart, so that nothing is         *)
(* accepted but what its device signed, and frames are read as long as     *)
(* they are.                                                               *)
(*                                                                         *)
(* The first half says what the loops of the parser compute.  The folds    *)
(* and recursive functions of the model are unrolled by Recursion, which   *)
(* holds of every step given as a function, and by Induction over a set.   *)
(***************************************************************************)
EXTENDS HttpConnection, SequenceTheorems, WellFoundedInduction, TLAPS

-----------------------------------------------------------------------------
(* Induction and recursion *)

\* What holds of 0 and of each next number holds of every number.
LEMMA Induction ==
    ASSUME NEW T \in SUBSET Nat, 0 \in T, \A n \in T : n + 1 \in T
    PROVE  \A n \in Nat : n \in T
<1> DEFINE R == {p \in Nat \X Nat : p[1] < p[2]}
<1>1. IsWellFoundedOn(R, Nat)
    BY NatLessThanWellFounded DEF OpToRel
<1>2. SUFFICES ASSUME Nat \ T # {} PROVE FALSE
    OBVIOUS
<1>3. PICK m \in Nat \ T : \A k \in Nat \ T : <<k, m>> \notin R
    <2> HIDE DEF R
    <2> QED BY <1>1, <1>2, WFMin
<1>4. m # 0 /\ m - 1 \in Nat /\ <<m - 1, m>> \in R
    BY <1>3
<1>5. m - 1 \in T
    BY <1>3, <1>4
<1> QED BY <1>3, <1>4, <1>5

\* F goes on from a by these steps.
Iterates(F, S, a, step) ==
    F \in [Nat -> S] /\ F[0] = a /\ \A n \in Nat : F[n + 1] = step[<<n, F[n]>>]

\* Every step has a function that goes on from a by it.
LEMMA Recursion ==
    ASSUME NEW S, NEW a \in S, NEW step \in [Nat \X S -> S]
    PROVE  \E F : Iterates(F, S, a, step)
<1> DEFINE Good(g, n) == /\ g \in [0..n -> S] /\ g[0] = a
                         /\ \A k \in 0..(n - 1) : g[k + 1] = step[<<k, g[k]>>]
           T == {n \in Nat : \E g : Good(g, n)}
<1>1. 0 \in T
    <2>1. Good([k \in 0..0 |-> a], 0)
        OBVIOUS
    <2> QED BY <2>1
<1>2. ASSUME NEW n \in T PROVE n + 1 \in T
    <2>1. PICK g : Good(g, n)
        OBVIOUS
    <2> DEFINE h == [k \in 0..(n + 1) |-> IF k = n + 1 THEN step[<<n, g[n]>>] ELSE g[k]]
    <2>2. n \in Nat /\ g[n] \in S /\ \A k \in 0..n : g[k] \in S
        BY <2>1
    <2>3. h \in [0..(n + 1) -> S] /\ h[0] = a /\ h[n + 1] = step[<<n, g[n]>>]
          /\ \A k \in 0..n : h[k] = g[k]
        BY <2>1, <2>2
    <2>4. \A k \in 0..n : h[k + 1] = step[<<k, h[k]>>]
        <3> SUFFICES ASSUME NEW k \in 0..n PROVE h[k + 1] = step[<<k, h[k]>>]
            OBVIOUS
        <3>1. CASE k = n
            BY <2>2, <2>3, <3>1
        <3>2. CASE k \in 0..(n - 1)
            BY <2>1, <2>2, <2>3, <3>2
        <3> QED BY <2>2, <3>1, <3>2
    <2> HIDE DEF h
    <2>5. Good(h, n + 1)
        BY <2>2, <2>3, <2>4
    <2>6. n + 1 \in Nat /\ \E g2 : Good(g2, n + 1)
        BY <2>2, <2>5
    <2> QED BY <2>6
<1>3. \A n \in Nat : \E g : Good(g, n)
    <2>1. T \in SUBSET Nat
        OBVIOUS
    <2> HIDE DEF T
    <2>2. \A n \in Nat : n \in T
        BY <1>1, <1>2, <2>1, Induction
    <2> QED BY <2>2 DEF T
<1>4. ASSUME NEW n \in Nat, NEW m \in Nat, NEW g, NEW h, Good(g, n), Good(h, m)
      PROVE  \A k \in Nat : k <= n /\ k <= m => g[k] = h[k]
    <2> DEFINE U == {k \in Nat : k <= n /\ k <= m => g[k] = h[k]}
    <2>1. 0 \in U
        BY <1>4
    <2>2. ASSUME NEW k \in U PROVE k + 1 \in U
        <3> SUFFICES ASSUME k + 1 <= n, k + 1 <= m PROVE g[k + 1] = h[k + 1]
            OBVIOUS
        <3>1. k \in 0..(n - 1) /\ k \in 0..(m - 1) /\ g[k] = h[k]
            OBVIOUS
        <3>2. g[k + 1] = step[<<k, g[k]>>] /\ h[k + 1] = step[<<k, h[k]>>]
            BY <1>4, <3>1
        <3> QED BY <3>1, <3>2
    <2>3. U \in SUBSET Nat
        OBVIOUS
    <2> HIDE DEF U
    <2>4. \A k \in Nat : k \in U
        BY <2>1, <2>2, <2>3, Induction
    <2> QED BY <2>4 DEF U
<1> DEFINE G == [n \in Nat |-> CHOOSE g : Good(g, n)]
           F == [n \in Nat |-> G[n][n]]
<1>5. \A n \in Nat : Good(G[n], n)
    BY <1>3
<1>6. F \in [Nat -> S] /\ F[0] = a
    <2> HIDE DEF G
    <2> QED BY <1>5
<1>7. ASSUME NEW n \in Nat PROVE F[n + 1] = step[<<n, F[n]>>]
    <2> HIDE DEF G
    <2>1. Good(G[n], n) /\ Good(G[n + 1], n + 1) /\ n + 1 \in Nat
        BY <1>5
    <2> HIDE DEF Good
    <2>2. G[n + 1][n] = G[n][n]
        BY <1>4, <2>1
    <2>3. G[n + 1][n + 1] = step[<<n, G[n + 1][n]>>]
        BY <2>1 DEF Good
    <2> QED BY <2>1, <2>2, <2>3
<1>8. Iterates(F, S, a, step)
    <2> HIDE DEF F
    <2> QED BY <1>6, <1>7 DEF Iterates
<1> QED BY <1>8

-----------------------------------------------------------------------------
(* Digits and numbers *)

Digits == {"0", "1", "2", "3", "4", "5", "6", "7", "8", "9"}

\* The ten numerals differ.
LEMMA NumeralsAre ==
    /\ Numerals \in Seq(Digits) /\ Len(Numerals) = 10 /\ ToSet(Numerals) = Digits
    /\ \A i \in 1..10 : Numerals[i] \in Digits
    /\ \A i, j \in 1..10 : Numerals[i] = Numerals[j] => i = j
<1>1. Numerals \in Seq(Digits) /\ Len(Numerals) = 10
    BY DEF Numerals, Digits
<1>2. DOMAIN Numerals = 1..10
    BY <1>1
<1>3. \A i \in 1..10 : i = 1 \/ i = 2 \/ i = 3 \/ i = 4 \/ i = 5 \/ i = 6 \/ i = 7
                       \/ i = 8 \/ i = 9 \/ i = 10
    OBVIOUS
<1>4. /\ Numerals[1] = "0" /\ Numerals[2] = "1" /\ Numerals[3] = "2" /\ Numerals[4] = "3"
      /\ Numerals[5] = "4" /\ Numerals[6] = "5" /\ Numerals[7] = "6" /\ Numerals[8] = "7"
      /\ Numerals[9] = "8" /\ Numerals[10] = "9"
    BY DEF Numerals
<1>5. \A i \in 1..10 : Numerals[i] \in Digits
    BY <1>3, <1>4 DEF Digits
<1>6. \A s \in Digits : \E i \in 1..10 : s = Numerals[i]
    BY <1>4 DEF Digits
<1>7. ToSet(Numerals) = Digits
    BY <1>2, <1>5, <1>6 DEF ToSet
<1>8. \A i, j \in 1..10 : Numerals[i] = Numerals[j] => i = j
    BY <1>3, <1>4
<1> QED BY <1>1, <1>5, <1>7, <1>8

\* A set of numbers has a least one.
LEMMA LeastIs ==
    ASSUME NEW T \in SUBSET Nat, T # {}
    PROVE  Min(T) \in T /\ \A k \in T : Min(T) <= k
<1> DEFINE Above == {n \in Nat : \A k \in T : n <= k}
<1>1. 0 \in Above
    OBVIOUS
<1>2. PICK t \in T : TRUE
    OBVIOUS
<1>3. t + 1 \in Nat /\ t + 1 \notin Above
    BY <1>2
<1>4. \E n \in Above : n + 1 \notin Above
    <2> SUFFICES ASSUME \A n \in Above : n + 1 \in Above PROVE FALSE
        OBVIOUS
    <2>1. Above \in SUBSET Nat
        OBVIOUS
    <2> HIDE DEF Above
    <2> QED BY <1>1, <1>3, <2>1, Induction
<1>5. PICK n \in Above : n + 1 \notin Above
    BY <1>4
<1>6. n \in T /\ \A k \in T : n <= k
    BY <1>5
<1> QED BY <1>6 DEF Min

\* A numeral has its value.
LEMMA DigitValues ==
    /\ \A d \in 0..9 : DigitValue(Numerals[d + 1]) = d
    /\ \A s \in Digits : DigitValue(s) \in 0..9
    /\ \A s : DigitValue(s) \in Int
    /\ \A s : IsDigit(s) <=> s \in Digits
<1> DEFINE I(s) == {i \in 1..Len(Numerals) : Numerals[i] = s}
<1>1. ASSUME NEW s
      PROVE DigitValue(s) = (IF I(s) # {} THEN Min(I(s)) ELSE 0) - 1
    BY DEF DigitValue, SelectInSeq
<1>2. \A s : I(s) \in SUBSET (1..10)
    BY NumeralsAre
<1>3. ASSUME NEW i \in 1..10
      PROVE  DigitValue(Numerals[i]) = i - 1
    <2>1. i \in I(Numerals[i])
        BY NumeralsAre
    <2>2. I(Numerals[i]) \in SUBSET Nat
        BY <1>2
    <2>3. Min(I(Numerals[i])) \in I(Numerals[i])
        BY <2>1, <2>2, LeastIs
    <2>4. \A j \in I(Numerals[i]) : j = i
        BY NumeralsAre
    <2>5. DigitValue(Numerals[i]) = Min(I(Numerals[i])) - 1
        BY <1>1, <2>1
    <2> QED BY <2>3, <2>4, <2>5
<1>4. \A s \in Digits : \E i \in 1..10 : s = Numerals[i]
    <2>1. DOMAIN Numerals = 1..10 /\ Digits = {Numerals[i] : i \in DOMAIN Numerals}
        BY NumeralsAre DEF ToSet
    <2> QED BY <2>1
<1>5. ASSUME NEW s PROVE DigitValue(s) \in Int
    <2>1. CASE I(s) # {}
        <3>1. I(s) \in SUBSET Nat
            BY <1>2
        <3>2. Min(I(s)) \in I(s)
            BY <2>1, <3>1, LeastIs
        <3> QED BY <1>1, <2>1, <3>1, <3>2
    <2>2. CASE I(s) = {}
        <3>1. DigitValue(s) = (IF I(s) # {} THEN Min(I(s)) ELSE 0) - 1
            BY <1>1
        <3> HIDE DEF I
        <3> QED BY <2>2, <3>1
    <2> QED BY <2>1, <2>2
<1>6. \A s : IsDigit(s) <=> s \in Digits
    BY NumeralsAre DEF IsDigit
<1>7. ASSUME NEW s \in Digits PROVE DigitValue(s) \in 0..9
    <2>1. PICK i \in 1..10 : s = Numerals[i]
        BY <1>4
    <2>2. DigitValue(s) = i - 1
        BY <1>3, <2>1
    <2> QED BY <2>2
<1>8. ASSUME NEW d \in 0..9 PROVE DigitValue(Numerals[d + 1]) = d
    <2>1. d + 1 \in 1..10
        OBVIOUS
    <2> QED BY <1>3, <2>1
<1> QED BY <1>5, <1>6, <1>7, <1>8

\* f has the numbers of the first digits.
Counts(f, digits) ==
    /\ f \in [Nat -> Int] /\ f[0] = 0 /\ NumberOf(digits) = f[Len(digits)]
    /\ \A i \in Nat \ {0} : f[i] = 10 * f[i - 1] + DigitValue(digits[i])

\* NumberOf adds a digit at a time: f holds the sums on the way.
LEMMA NumberSteps ==
    ASSUME NEW digits, Len(digits) \in Nat
    PROVE  \E f : Counts(f, digits)
<1> DEFINE next(i, m) == 10 * m + DigitValue(digits[i + 1])
           step == [p \in Nat \X Int |-> next(p[1], p[2])]
           number == CHOOSE f : f = [i \in 0..Len(digits) |->
                         IF i = 0 THEN 0 ELSE 10 * f[i - 1] + DigitValue(digits[i])]
<1>1. step \in [Nat \X Int -> Int]
    <2>1. \A p \in Nat \X Int : p[2] \in Int /\ DigitValue(digits[p[1] + 1]) \in Int
        BY DigitValues
    <2> QED BY <2>1
<1>2. \A n \in Nat, m \in Int : step[<<n, m>>] = next(n, m)
    OBVIOUS
<1>3. PICK F : Iterates(F, Int, 0, step)
    <2> DEFINE zero == 0
    <2>1. zero \in Int
        OBVIOUS
    <2> HIDE DEF step, zero
    <2>2. \E F : Iterates(F, Int, zero, step)
        BY <1>1, <2>1, Recursion
    <2> QED BY <2>2 DEF zero
<1>4. ASSUME NEW i \in Nat \ {0}
      PROVE  F[i] = 10 * F[i - 1] + DigitValue(digits[i])
    <2> HIDE DEF step
    <2>1. i - 1 \in Nat /\ (i - 1) + 1 = i /\ F[i - 1] \in Int
        BY <1>3 DEF Iterates
    <2>2. F[(i - 1) + 1] = step[<<i - 1, F[i - 1]>>]
        BY <1>3, <2>1 DEF Iterates
    <2>3. step[<<i - 1, F[i - 1]>>] = next(i - 1, F[i - 1])
        BY <1>2, <2>1
    <2> QED BY <2>1, <2>2, <2>3
<1> DEFINE g == [i \in 0..Len(digits) |-> F[i]]
<1>5. g = [i \in 0..Len(digits) |-> IF i = 0 THEN 0 ELSE 10 * g[i - 1] + DigitValue(digits[i])]
    <2> DEFINE rhs(i) == IF i = 0 THEN 0 ELSE 10 * g[i - 1] + DigitValue(digits[i])
    <2>1. ASSUME NEW i \in 0..Len(digits) PROVE F[i] = rhs(i)
        <3>1. CASE i = 0
            BY <1>3, <3>1 DEF Iterates
        <3>2. CASE i # 0
            <4>1. i \in Nat \ {0} /\ i - 1 \in 0..Len(digits)
                BY <3>2
            <4>2. g[i - 1] = F[i - 1]
                BY <4>1
            <4> HIDE DEF g
            <4> QED BY <1>4, <3>2, <4>1, <4>2
        <3> QED BY <3>1, <3>2
    <2> HIDE DEF rhs
    <2>2. g = [i \in 0..Len(digits) |-> rhs(i)]
        BY <2>1
    <2> QED BY <2>2 DEF rhs
<1>6. number = [i \in 0..Len(digits) |->
                    IF i = 0 THEN 0 ELSE 10 * number[i - 1] + DigitValue(digits[i])]
    <2> HIDE DEF g
    <2> QED BY <1>5
<1>7. NumberOf(digits) = number[Len(digits)]
    BY DEF NumberOf
<1> HIDE DEF number
<1>8. \A i \in 0..Len(digits) :
        number[i] = IF i = 0 THEN 0 ELSE 10 * number[i - 1] + DigitValue(digits[i])
    BY <1>6
<1> DEFINE T == {i \in Nat : i <= Len(digits) => number[i] = F[i]}
<1>9. \A n \in Nat : n \in T
    <2>1. 0 \in T
        BY <1>3, <1>8 DEF Iterates
    <2>2. ASSUME NEW n \in T PROVE n + 1 \in T
        <3> SUFFICES ASSUME n + 1 <= Len(digits) PROVE number[n + 1] = F[n + 1]
            OBVIOUS
        <3>1. n + 1 \in 0..Len(digits) /\ n + 1 \in Nat \ {0} /\ (n + 1) - 1 = n /\ number[n] = F[n]
            OBVIOUS
        <3>2. number[n + 1] = 10 * number[n] + DigitValue(digits[n + 1])
            BY <1>8, <3>1
        <3>3. F[n + 1] = 10 * F[n] + DigitValue(digits[n + 1])
            BY <1>4, <3>1
        <3> QED BY <3>1, <3>2, <3>3
    <2>3. T \in SUBSET Nat
        OBVIOUS
    <2> HIDE DEF T
    <2> QED BY <2>1, <2>2, <2>3, Induction
<1>10. number[Len(digits)] = F[Len(digits)]
    BY <1>9
<1>11. Counts(F, digits)
    BY <1>3, <1>4, <1>7, <1>10 DEF Iterates, Counts
<1> QED BY <1>11

\* Division by ten.
LEMMA TenthLess ==
    ASSUME NEW n \in Nat
    PROVE  /\ n \div 10 \in Nat /\ n % 10 \in 0..9 /\ n % 10 = n - 10 * (n \div 10)
           /\ n >= 10 => n \div 10 < n
<1>1. n \div 10 \in Int
    OBVIOUS
<1>2. n % 10 \in 0..9
    OBVIOUS
<1>3. n % 10 = n - 10 * (n \div 10)
    OBVIOUS
<1> DEFINE q == n \div 10  m == n % 10
<1>4. q \in Int /\ m \in 0..9 /\ m = n - 10 * q
    BY <1>1, <1>2, <1>3
<1> HIDE DEF q, m
<1>5. q \in Nat /\ (n >= 10 => q < n)
    BY <1>4
<1> QED BY <1>2, <1>3, <1>5 DEF q

\* to_string writes the last digit behind those of a tenth.
LEMMA DecimalSteps ==
    \A n \in Nat : Decimal[n] = IF n < 10 THEN <<Numerals[n + 1]>>
                                ELSE Append(Decimal[n \div 10], Numerals[(n % 10) + 1])
<1> DEFINE S == [Nat -> Seq(Digits)]
           row(f, n) == IF n < 10 THEN <<Numerals[n + 1]>>
                        ELSE Append(f[n \div 10], Numerals[(n % 10) + 1])
           longer(f) == [n \in Nat |-> row(f, n)]
           step == [p \in Nat \X S |-> longer(p[2])]
           empty == [n \in Nat |-> <<>>]
<1>1. ASSUME NEW f \in S, NEW n \in Nat PROVE row(f, n) \in Seq(Digits)
    <2>1. CASE n < 10
        <3>1. n + 1 \in 1..10
            BY <2>1
        <3>2. Numerals[n + 1] \in Digits
            BY <3>1, NumeralsAre
        <3> QED BY <2>1, <3>2
    <2>2. CASE ~(n < 10)
        <3> DEFINE q == n \div 10  m == n % 10
        <3>1. q \in Nat /\ m \in 0..9
            BY TenthLess
        <3> HIDE DEF q, m
        <3>2. m + 1 \in 1..10
            BY <3>1
        <3>3. f[q] \in Seq(Digits) /\ Numerals[m + 1] \in Digits
            BY <3>1, <3>2, NumeralsAre
        <3>4. Append(f[q], Numerals[m + 1]) \in Seq(Digits)
            BY <3>3
        <3> QED BY <2>2, <3>4 DEF q, m
    <2> QED BY <2>1, <2>2
<1>2. ASSUME NEW f \in S PROVE longer(f) \in S
    BY <1>1
<1>3. empty \in S
    OBVIOUS
<1> HIDE DEF S
<1>4. step \in [Nat \X S -> S] /\ \A k \in Nat, f \in S : step[<<k, f>>] = longer(f)
    <2> HIDE DEF longer
    <2> QED BY <1>2
<1> HIDE DEF step, empty
<1>5. PICK F : Iterates(F, S, empty, step)
    BY <1>3, <1>4, Recursion
<1>6. \A k \in Nat : F[k] \in S /\ F[k + 1] = longer(F[k])
    BY <1>4, <1>5 DEF Iterates
<1>7. \A k \in Nat, n \in Nat : F[k + 1][n] = row(F[k], n)
    <2> HIDE DEF row
    <2> QED BY <1>6
\* F[k] is settled below k.
<1>8. \A k \in Nat : \A n \in 0..(k - 1) : F[k][n] = F[k + 1][n]
    <2> DEFINE T == {k \in Nat : \A n \in 0..(k - 1) : F[k][n] = F[k + 1][n]}
    <2>1. 0 \in T
        OBVIOUS
    <2>2. ASSUME NEW k \in T PROVE k + 1 \in T
        <3> SUFFICES ASSUME NEW n \in 0..k PROVE F[k + 1][n] = F[(k + 1) + 1][n]
            OBVIOUS
        <3>1. F[k + 1][n] = row(F[k], n) /\ F[(k + 1) + 1][n] = row(F[k + 1], n)
            <4> HIDE DEF row
            <4> QED BY <1>7
        <3>2. CASE n < 10
            BY <3>1, <3>2
        <3>3. CASE ~(n < 10)
            <4>1. n \div 10 \in 0..(k - 1)
                BY <3>3, TenthLess
            <4>2. F[k][n \div 10] = F[k + 1][n \div 10]
                BY <4>1
            <4> QED BY <3>1, <3>3, <4>2
        <3> QED BY <3>2, <3>3
    <2>3. T \in SUBSET Nat
        OBVIOUS
    <2> HIDE DEF T
    <2>4. \A k \in Nat : k \in T
        BY <2>1, <2>2, <2>3, Induction
    <2> QED BY <2>4 DEF T
<1>9. ASSUME NEW n \in Nat PROVE \A d \in Nat : F[n + 1 + d][n] = F[n + 1][n]
    <2> DEFINE T == {d \in Nat : F[n + 1 + d][n] = F[n + 1][n]}
    <2>1. 0 \in T
        OBVIOUS
    <2>2. ASSUME NEW d \in T PROVE d + 1 \in T
        <3>1. n + 1 + d \in Nat /\ n \in 0..((n + 1 + d) - 1) /\ n + 1 + (d + 1) = (n + 1 + d) + 1
            OBVIOUS
        <3>2. F[n + 1 + d][n] = F[(n + 1 + d) + 1][n]
            BY <1>8, <3>1
        <3> QED BY <3>1, <3>2
    <2>3. T \in SUBSET Nat
        OBVIOUS
    <2> HIDE DEF T
    <2>4. \A k \in Nat : k \in T
        BY <2>1, <2>2, <2>3, Induction
    <2> QED BY <2>4 DEF T
<1> DEFINE G == [n \in Nat |-> F[n + 1][n]]
<1>10. ASSUME NEW n \in Nat PROVE G[n] = row(G, n)
    <2>1. G[n] = row(F[n], n)
        <3> HIDE DEF row
        <3> QED BY <1>7
    <2>2. CASE n < 10
        BY <2>1, <2>2
    <2>3. CASE ~(n < 10)
        <3> DEFINE m == n \div 10
                   d == n - 1 - m
        <3>1. m \in Nat /\ d \in Nat /\ m + 1 + d = n
            BY <2>3, TenthLess
        <3>2. F[m + 1 + d][m] = F[m + 1][m]
            BY <1>9, <3>1
        <3>3. F[n][m] = G[m]
            BY <3>1, <3>2
        <3> QED BY <2>1, <2>3, <3>3
    <2> QED BY <2>2, <2>3
<1>11. G = [n \in Nat |-> row(G, n)]
    <2> HIDE DEF row
    <2> QED BY <1>10
<1>12. \E f : f = [n \in Nat |-> row(f, n)]
    <2> HIDE DEF G
    <2> QED BY <1>11
<1> DEFINE decimal == CHOOSE f : f = [n \in Nat |-> row(f, n)]
<1>13. Decimal = decimal
    BY DEF Decimal
<1>14. decimal = [n \in Nat |-> row(decimal, n)]
    BY <1>12
<1> HIDE DEF decimal
<1>15. \A n \in Nat : decimal[n] = row(decimal, n)
    <2> HIDE DEF row
    <2> QED BY <1>14
<1> QED BY <1>13, <1>15

\* A digit is read as its value.
LEMMA NumberOfOne ==
    ASSUME NEW s \in Digits PROVE NumberOf(<<s>>) = DigitValue(s)
<1> DEFINE t == <<s>>
<1>1. Len(t) = 1 /\ t[1] = s
    OBVIOUS
<1> HIDE DEF t
<1>2. PICK f : Counts(f, t)
    BY <1>1, NumberSteps
<1>3. f[1] = 10 * f[0] + DigitValue(t[1])
    BY <1>2 DEF Counts
<1>4. DigitValue(s) \in Int
    BY DigitValues
<1>5. NumberOf(t) = DigitValue(s)
    BY <1>1, <1>2, <1>3, <1>4 DEF Counts
<1> QED BY <1>5 DEF t

\* A number is read from left to right.
LEMMA NumberOfAppend ==
    ASSUME NEW t \in Seq(Digits), NEW s \in Digits
    PROVE  NumberOf(Append(t, s)) = 10 * NumberOf(t) + DigitValue(s)
<1> DEFINE u == Append(t, s)
<1>1. Len(t) \in Nat /\ Len(u) = Len(t) + 1 /\ u[Len(u)] = s /\ \A i \in 1..Len(t) : u[i] = t[i]
    OBVIOUS
<1> HIDE DEF u
<1>2. PICK f : Counts(f, t)
    BY <1>1, NumberSteps
<1>3. PICK g : Counts(g, u)
    <2>1. Len(u) \in Nat
        BY <1>1
    <2> QED BY <2>1, NumberSteps
<1> DEFINE T == {i \in Nat : i <= Len(t) => f[i] = g[i]}
<1>4. 0 \in T
    BY <1>2, <1>3 DEF Counts
<1>5. ASSUME NEW i \in T PROVE i + 1 \in T
    <2> SUFFICES ASSUME i + 1 <= Len(t) PROVE f[i + 1] = g[i + 1]
        OBVIOUS
    <2>1. i + 1 \in Nat \ {0} /\ (i + 1) - 1 = i /\ i + 1 \in 1..Len(t) /\ f[i] = g[i]
        BY <1>1
    <2>2. f[i + 1] = 10 * f[i] + DigitValue(t[i + 1])
        BY <1>2, <2>1 DEF Counts
    <2>3. g[i + 1] = 10 * g[i] + DigitValue(u[i + 1])
        BY <1>3, <2>1 DEF Counts
    <2>4. u[i + 1] = t[i + 1]
        BY <1>1, <2>1
    <2> QED BY <2>1, <2>2, <2>3, <2>4
<1>6. T \in SUBSET Nat
    OBVIOUS
<1> HIDE DEF T
<1>7. \A i \in Nat : i \in T
    BY <1>4, <1>5, <1>6, Induction
<1>8. f[Len(t)] = g[Len(t)]
    BY <1>1, <1>7 DEF T
<1>9. g[Len(u)] = 10 * g[Len(u) - 1] + DigitValue(u[Len(u)])
    <2>1. Len(u) \in Nat \ {0}
        BY <1>1
    <2> QED BY <1>3, <2>1 DEF Counts
<1>10. NumberOf(u) = 10 * NumberOf(t) + DigitValue(s)
    <2>1. Len(u) - 1 = Len(t) /\ NumberOf(u) = g[Len(u)] /\ NumberOf(t) = f[Len(t)]
        BY <1>1, <1>2, <1>3 DEF Counts
    <2> QED BY <1>1, <1>8, <1>9, <2>1
<1> QED BY <1>10 DEF u

\* What to_string writes from_chars reads as the same number
\* (json_parser.cpp:28-32).
LEMMA DecimalIsRead ==
    \A n \in Nat : /\ Decimal[n] \in Seq(Digits) /\ Len(Decimal[n]) >= 1
                   /\ NumberOf(Decimal[n]) = n
<1> DEFINE Fits(n) == /\ Decimal[n] \in Seq(Digits) /\ Len(Decimal[n]) >= 1
                      /\ NumberOf(Decimal[n]) = n
           T == {k \in Nat : \A n \in 0..(k - 1) : Fits(n)}
<1>1. 0 \in T
    OBVIOUS
<1>2. ASSUME NEW k \in T PROVE k + 1 \in T
    <2>1. CASE k < 10
        <3> DEFINE s == Numerals[k + 1]
        <3>1. k \in 0..9 /\ k + 1 \in 1..10
            BY <2>1
        <3>2. s \in Digits /\ DigitValue(s) = k
            BY <3>1, NumeralsAre, DigitValues
        <3>3. Decimal[k] = <<s>>
            BY <2>1, DecimalSteps
        <3> HIDE DEF s
        <3>4. NumberOf(<<s>>) = k
            BY <3>2, NumberOfOne
        <3>5. Fits(k)
            BY <3>2, <3>3, <3>4
        <3> HIDE DEF Fits
        <3> QED BY <3>5
    <2>2. CASE ~(k < 10)
        <3> DEFINE m == k \div 10
                   d == k % 10
                   s == Numerals[d + 1]
        <3>1. m \in 0..(k - 1) /\ d \in 0..9 /\ d = k - 10 * m
            BY <2>2, TenthLess
        <3>2. Fits(m)
            BY <3>1
        <3>3. s \in Digits /\ DigitValue(s) = d
            <4> HIDE DEF d
            <4> QED BY <3>1, NumeralsAre, DigitValues
        <3>4. Decimal[k] = Append(Decimal[m], s)
            BY <2>2, DecimalSteps
        <3> HIDE DEF m, d, s
        <3>5. NumberOf(Append(Decimal[m], s)) = 10 * NumberOf(Decimal[m]) + DigitValue(s)
            BY <3>2, <3>3, NumberOfAppend
        <3>6. NumberOf(Decimal[k]) = k
            BY <3>1, <3>2, <3>3, <3>4, <3>5
        <3>7. Decimal[k] \in Seq(Digits) /\ Len(Decimal[k]) >= 1
            BY <3>2, <3>3, <3>4
        <3>8. Fits(k)
            BY <3>6, <3>7
        <3> HIDE DEF Fits
        <3> QED BY <3>8
    <2> QED BY <2>1, <2>2
<1>3. T \in SUBSET Nat
    OBVIOUS
<1>4. \A k \in Nat : k \in T
    <2> HIDE DEF T
    <2> QED BY <1>1, <1>2, <1>3, Induction
<1>5. ASSUME NEW n \in Nat PROVE Fits(n)
    <2> DEFINE k == n + 1
    <2>1. k \in Nat /\ n \in 0..(k - 1)
        OBVIOUS
    <2> HIDE DEF k, Fits
    <2>2. k \in T
        BY <1>4, <2>1
    <2> QED BY <2>1, <2>2
<1> QED BY <1>5

-----------------------------------------------------------------------------
(* Scanning for the end of an object *)

ScanState == [depth : Int, inString : BOOLEAN, escape : BOOLEAN, end : {0}]

\* The members that a packet must have.
LEMMA RequiredAre == ToSet(Required) = {"deviceId", "timestamp", "telemetry", "hash", "signature"}
<1>1. DOMAIN Required = 1..5
    BY DEF Required
<1>2. /\ Required[1] = "deviceId" /\ Required[2] = "timestamp" /\ Required[3] = "telemetry"
      /\ Required[4] = "hash" /\ Required[5] = "signature"
    BY DEF Required
<1>3. \A i \in 1..5 : i = 1 \/ i = 2 \/ i = 3 \/ i = 4 \/ i = 5
    OBVIOUS
<1> QED BY <1>1, <1>2, <1>3 DEF ToSet

\* What the five kinds of steps do to the fields of the scan.
LEMMA Cleared ==
    ASSUME NEW a \in ScanState, NEW s, NEW b,
           b = [a EXCEPT !.escape = FALSE, !.inString = IF s \in Names THEN ~@ ELSE @]
    PROVE  /\ b \in ScanState /\ b.depth = a.depth /\ b.escape = FALSE
           /\ b.inString = IF s \in Names THEN ~a.inString ELSE a.inString
<1>1. b \in ScanState
    BY DEF ScanState
<1>2. b.depth = a.depth
    BY DEF ScanState
<1>3. b.escape = FALSE
    BY DEF ScanState
<1>4. b.inString = IF s \in Names THEN ~a.inString ELSE a.inString
    BY DEF ScanState
<1> QED BY <1>1, <1>2, <1>3, <1>4

\* The same of a backslash within a string.
LEMMA Escaped ==
    ASSUME NEW a \in ScanState, NEW b, b = [a EXCEPT !.escape = TRUE]
    PROVE  b \in ScanState /\ b.depth = a.depth /\ b.inString = a.inString /\ b.escape = TRUE
BY DEF ScanState

\* The same of a quote.
LEMMA Toggled ==
    ASSUME NEW a \in ScanState, NEW b, b = [a EXCEPT !.inString = ~@]
    PROVE  b \in ScanState /\ b.depth = a.depth /\ b.inString = ~a.inString
           /\ b.escape = a.escape
BY DEF ScanState

\* The same of an opening brace.
LEMMA Deepened ==
    ASSUME NEW a \in ScanState, NEW b, b = [a EXCEPT !.depth = @ + 1]
    PROVE  b \in ScanState /\ b.depth = a.depth + 1 /\ b.inString = a.inString
           /\ b.escape = a.escape
BY DEF ScanState

\* The same of a closing brace.
LEMMA Raised ==
    ASSUME NEW a \in ScanState, NEW b, b = [a EXCEPT !.depth = @ - 1]
    PROVE  b \in ScanState /\ b.depth = a.depth - 1 /\ b.inString = a.inString
           /\ b.escape = a.escape
BY DEF ScanState

\* Only a quote, also one around a name, opens or ends a string, and nothing
\* but a backslash escapes (json_parser.cpp:52-84).
LEMMA ScanStep ==
    ASSUME NEW a \in ScanState, NEW s, NEW b, b = ScanSymbol(a, s)
    PROVE  /\ b \in ScanState
           /\ ~HasQuote(s) => b.inString = a.inString
           /\ s # "\\" /\ a.escape = FALSE => b.escape = FALSE
           /\ a.escape = TRUE => b.escape = FALSE
<1>1. CASE a.escape
    <2>1. b = [a EXCEPT !.escape = FALSE, !.inString = IF s \in Names THEN ~@ ELSE @]
        BY <1>1 DEF ScanSymbol
    <2> QED BY <2>1, Cleared DEF HasQuote
<1>2. CASE ~a.escape /\ s = "\\"
    <2>1. b = [a EXCEPT !.escape = TRUE]
        BY <1>2 DEF ScanSymbol
    <2>2. a.escape # TRUE
        BY <1>2
    <2> QED BY <1>2, <2>1, <2>2, Escaped
<1>3. CASE ~a.escape /\ s = Quote
    <2>1. b = [a EXCEPT !.inString = ~@]
        BY <1>3 DEF ScanSymbol, Quote
    <2>2. a.escape # TRUE
        BY <1>3
    <2> QED BY <1>3, <2>1, <2>2, Toggled DEF HasQuote
<1>4. CASE ~a.escape /\ s # "\\" /\ s # Quote
    <2>1. b = a \/ b = [a EXCEPT !.depth = @ + 1] \/ b = [a EXCEPT !.depth = @ - 1]
        BY <1>4 DEF ScanSymbol
    <2>2. a.escape # TRUE
        BY <1>4
    <2> QED BY <2>1, <2>2, Deepened, Raised
<1> QED BY <1>1, <1>2, <1>3, <1>4

\* The same state but for the depth.
Alike(a, b, c) == a.inString = b.inString /\ a.escape = b.escape /\ a.depth = b.depth + c

\* Scans in the same string see the same, at whatever depth they are.
LEMMA ScanAlike ==
    ASSUME NEW a \in ScanState, NEW b \in ScanState, NEW c \in Int, Alike(a, b, c), NEW s,
           NEW x, x = ScanSymbol(a, s), NEW y, y = ScanSymbol(b, s)
    PROVE  Alike(x, y, c)
<1>1. a.depth \in Int /\ b.depth \in Int
    BY DEF ScanState
<1>2. a.inString = b.inString /\ a.escape = b.escape /\ a.depth = b.depth + c
    BY DEF Alike
<1>3. CASE a.escape
    <2>1. x = [a EXCEPT !.escape = FALSE, !.inString = IF s \in Names THEN ~@ ELSE @]
        BY <1>3 DEF ScanSymbol
    <2>2. y = [b EXCEPT !.escape = FALSE, !.inString = IF s \in Names THEN ~@ ELSE @]
        BY <1>2, <1>3 DEF ScanSymbol
    <2>3. /\ x.depth = a.depth /\ x.escape = FALSE
          /\ x.inString = IF s \in Names THEN ~a.inString ELSE a.inString
        BY <2>1, Cleared
    <2>4. /\ y.depth = b.depth /\ y.escape = FALSE
          /\ y.inString = IF s \in Names THEN ~b.inString ELSE b.inString
        BY <2>2, Cleared
    <2> QED BY <1>2, <2>3, <2>4 DEF Alike
<1>4. CASE ~a.escape /\ s = "\\"
    <2>1. x = [a EXCEPT !.escape = TRUE] /\ y = [b EXCEPT !.escape = TRUE]
        BY <1>2, <1>4 DEF ScanSymbol
    <2> QED BY <1>2, <2>1, Escaped DEF Alike
<1>5. CASE ~a.escape /\ s = Quote
    <2>1. x = [a EXCEPT !.inString = ~@] /\ y = [b EXCEPT !.inString = ~@]
        BY <1>2, <1>5 DEF ScanSymbol, Quote
    <2> QED BY <1>2, <2>1, Toggled DEF Alike
<1>6. CASE ~a.escape /\ s # "\\" /\ s # Quote
    <2>1. \/ x = a /\ y = b
          \/ x = [a EXCEPT !.depth = @ + 1] /\ y = [b EXCEPT !.depth = @ + 1]
          \/ x = [a EXCEPT !.depth = @ - 1] /\ y = [b EXCEPT !.depth = @ - 1]
        BY <1>2, <1>6 DEF ScanSymbol
    <2>2. CASE x = a /\ y = b
        BY <1>2, <2>2 DEF Alike
    <2>3. CASE x = [a EXCEPT !.depth = @ + 1] /\ y = [b EXCEPT !.depth = @ + 1]
        <3>1. /\ x.depth = a.depth + 1 /\ x.inString = a.inString /\ x.escape = a.escape
              /\ y.depth = b.depth + 1 /\ y.inString = b.inString /\ y.escape = b.escape
            BY <2>3, Deepened
        <3> QED BY <1>1, <1>2, <3>1 DEF Alike
    <2>4. CASE x = [a EXCEPT !.depth = @ - 1] /\ y = [b EXCEPT !.depth = @ - 1]
        <3>1. /\ x.depth = a.depth - 1 /\ x.inString = a.inString /\ x.escape = a.escape
              /\ y.depth = b.depth - 1 /\ y.inString = b.inString /\ y.escape = b.escape
            BY <2>4, Raised
        <3> QED BY <1>1, <1>2, <3>1 DEF Alike
    <2> QED BY <2>1, <2>2, <2>3, <2>4
<1> QED BY <1>3, <1>4, <1>5, <1>6

\* One scan is within a string where the other is not.
Flipped(a, b) == a.inString = ~b.inString /\ a.escape = b.escape

\* They stay so.
LEMMA ScanFlipped ==
    ASSUME NEW a \in ScanState, NEW b \in ScanState, Flipped(a, b), NEW s,
           NEW x, x = ScanSymbol(a, s), NEW y, y = ScanSymbol(b, s)
    PROVE  Flipped(x, y)
<1>1. a.inString = ~b.inString /\ a.escape = b.escape
    BY DEF Flipped
<1>2. CASE a.escape
    <2>1. x = [a EXCEPT !.escape = FALSE, !.inString = IF s \in Names THEN ~@ ELSE @]
        BY <1>2 DEF ScanSymbol
    <2>2. y = [b EXCEPT !.escape = FALSE, !.inString = IF s \in Names THEN ~@ ELSE @]
        BY <1>1, <1>2 DEF ScanSymbol
    <2>3. x.escape = FALSE /\ x.inString = IF s \in Names THEN ~a.inString ELSE a.inString
        BY <2>1, Cleared
    <2>4. y.escape = FALSE /\ y.inString = IF s \in Names THEN ~b.inString ELSE b.inString
        BY <2>2, Cleared
    <2> QED BY <1>1, <2>3, <2>4 DEF Flipped
<1>3. CASE ~a.escape /\ s = "\\"
    <2>1. x = [a EXCEPT !.escape = TRUE] /\ y = [b EXCEPT !.escape = TRUE]
        BY <1>1, <1>3 DEF ScanSymbol
    <2>2. /\ x.inString = a.inString /\ x.escape = TRUE
          /\ y.inString = b.inString /\ y.escape = TRUE
        BY <2>1, Escaped
    <2> QED BY <1>1, <2>2 DEF Flipped
<1>4. CASE ~a.escape /\ s = Quote
    <2>1. x = [a EXCEPT !.inString = ~@] /\ y = [b EXCEPT !.inString = ~@]
        BY <1>1, <1>4 DEF ScanSymbol, Quote
    <2>2. /\ x.inString = ~a.inString /\ x.escape = a.escape
          /\ y.inString = ~b.inString /\ y.escape = b.escape
        BY <2>1, Toggled
    <2> QED BY <1>1, <2>2 DEF Flipped
<1>5. CASE ~a.escape /\ s # "\\" /\ s # Quote
    <2>1. /\ x = a \/ x = [a EXCEPT !.depth = @ + 1] \/ x = [a EXCEPT !.depth = @ - 1]
          /\ y = b \/ y = [b EXCEPT !.depth = @ + 1] \/ y = [b EXCEPT !.depth = @ - 1]
        BY <1>1, <1>5 DEF ScanSymbol
    <2>2. x.inString = a.inString /\ x.escape = a.escape
        BY <2>1, Deepened, Raised
    <2>3. y.inString = b.inString /\ y.escape = b.escape
        BY <2>1, Deepened, Raised
    <2> QED BY <1>1, <2>2, <2>3 DEF Flipped
<1> QED BY <1>2, <1>3, <1>4, <1>5

\* Within a string the depth stays.
LEMMA DepthWithin ==
    ASSUME NEW a \in ScanState, a.inString = TRUE, NEW s, NEW b, b = ScanSymbol(a, s)
    PROVE  b.depth = a.depth
<1>1. CASE a.escape
    <2>1. b = [a EXCEPT !.escape = FALSE, !.inString = IF s \in Names THEN ~@ ELSE @]
        BY <1>1 DEF ScanSymbol
    <2> QED BY <2>1, Cleared
<1>2. CASE ~a.escape /\ s = "\\"
    <2>1. b = [a EXCEPT !.escape = TRUE]
        BY <1>2 DEF ScanSymbol
    <2> QED BY <2>1, Escaped
<1>3. CASE ~a.escape /\ s = Quote
    <2>1. b = [a EXCEPT !.inString = ~@]
        BY <1>3 DEF ScanSymbol, Quote
    <2> QED BY <2>1, Toggled
<1>4. CASE ~a.escape /\ s # "\\" /\ s # Quote
    <2>1. b = a
        BY <1>4 DEF ScanSymbol
    <2> QED BY <2>1
<1> QED BY <1>1, <1>2, <1>3, <1>4

\* P has the scan of the n symbols behind s, which are one object.
Scans(P, text, s, n) ==
    /\ P \in [Nat -> ScanState] /\ P[0] = ScanStart
    /\ \A k \in 0..(n - 1) : P[k + 1] = ScanSymbol(P[k], text[s + k + 1])
    /\ P[n].depth = 0 /\ \A k \in 1..(n - 1) : P[k].depth # 0

\* P has the scan of all that is behind s.
Runs(P, text, s) ==
    /\ P \in [Nat -> ScanState] /\ P[0] = ScanStart
    /\ \A k \in Nat : P[k + 1] = ScanSymbol(P[k], text[s + k + 1])

\* A text is scanned from anywhere to its end and beyond.
LEMMA ScanExists ==
    ASSUME NEW text, NEW s
    PROVE  \E P : Runs(P, text, s)
<1> DEFINE next(k, q) == ScanSymbol(q, text[s + k + 1])
           step == [p \in Nat \X ScanState |-> next(p[1], p[2])]
<1>1. ScanStart \in ScanState
    BY DEF ScanStart, ScanState
<1>2. \A k \in Nat, q \in ScanState : next(k, q) \in ScanState
    BY ScanStep
<1> HIDE DEF next
<1>3. step \in [Nat \X ScanState -> ScanState]
      /\ \A k \in Nat, q \in ScanState : step[<<k, q>>] = next(k, q)
    BY <1>2
<1> HIDE DEF step
<1>4. PICK P : Iterates(P, ScanState, ScanStart, step)
    BY <1>1, <1>3, Recursion
<1>5. \A k \in Nat : P[k + 1] = next(k, P[k])
    BY <1>3, <1>4 DEF Iterates
<1> QED BY <1>4, <1>5 DEF Iterates, next, Runs

\* ObjectEnd is where a scan from the opening brace first comes back to depth 0.
Closes(P, text, start, e) ==
    \/ e = 0 /\ \A k \in 1..(Len(text) - start + 1) : P[k].depth # 0
    \/ /\ e \in start..Len(text) /\ P[e - start + 1].depth = 0
       /\ \A k \in 1..(e - start) : P[k].depth # 0

\* ObjectEnd is what the scan of the states P finds from start on.
LEMMA ObjectScan ==
    ASSUME NEW text, Len(text) \in Nat, NEW start \in 1..Len(text),
           NEW e, e = ObjectEnd(text, start)
    PROVE  \E P : Runs(P, text, start - 1) /\ Closes(P, text, start, e)
<1> DEFINE S == [depth : Int, inString : BOOLEAN, escape : BOOLEAN, end : Nat]
           D == start - 1 .. Len(text)
           next(i, q) == LET after == ScanSymbol(q, text[i])
                         IN  IF q.end # 0 THEN q
                             ELSE IF after.depth = 0 THEN [after EXCEPT !.end = i] ELSE after
           row(f, i) == IF i = start - 1 THEN ScanStart ELSE next(i, f[i - 1])
           scan == CHOOSE f : f = [i \in D |-> row(f, i)]
<1>1. e = scan[Len(text)].end
    BY DEF ObjectEnd
<1>2. ScanStart \in S /\ ScanStart.end = 0 /\ ScanStart \in ScanState
    BY DEF ScanStart, ScanState
<1>3. ASSUME NEW q \in S, q.end = 0 PROVE q \in ScanState
    BY <1>3 DEF ScanState
<1>4. ASSUME NEW q \in S, NEW i \in Nat PROVE next(i, q) \in S
    <2>1. CASE q.end # 0
        BY <2>1
    <2>2. CASE q.end = 0
        <3>1. PICK b : b = ScanSymbol(q, text[i])
            OBVIOUS
        <3>2. b \in ScanState
            BY <1>3, <2>2, <3>1, ScanStep
        <3>3. next(i, q) = IF b.depth = 0 THEN [b EXCEPT !.end = i] ELSE b
            BY <2>2, <3>1
        <3> HIDE DEF next
        <3>4. b \in S
            BY <3>2 DEF ScanState
        <3>5. [b EXCEPT !.end = i] \in S
            BY <3>4
        <3> QED BY <3>3, <3>4, <3>5
    <2> QED BY <2>1, <2>2
<1> HIDE DEF S
<1> DEFINE step == [p \in Nat \X S |-> next(start + p[1], p[2])]
<1>5. step \in [Nat \X S -> S] /\ \A k \in Nat, q \in S : step[<<k, q>>] = next(start + k, q)
    <2> HIDE DEF next
    <2> QED BY <1>4
<1> HIDE DEF step, next
<1>6. PICK F : Iterates(F, S, ScanStart, step)
    BY <1>2, <1>5, Recursion
<1>7. F[0] = ScanStart /\ \A k \in Nat : F[k] \in S /\ F[k + 1] = next(start + k, F[k])
    BY <1>5, <1>6 DEF Iterates
<1> DEFINE g == [i \in D |-> F[i - start + 1]]
<1>8. g = [i \in D |-> row(g, i)]
    <2>1. ASSUME NEW i \in D PROVE g[i] = row(g, i)
        <3>1. CASE i = start - 1
            BY <1>7, <3>1
        <3>2. CASE i # start - 1
            <4>1. i - 1 \in D /\ i - start \in Nat /\ (i - 1) - start + 1 = i - start
                  /\ i - start + 1 = (i - start) + 1 /\ start + (i - start) = i
                BY <3>2
            <4>2. F[(i - start) + 1] = next(i, F[i - start])
                BY <1>7, <4>1
            <4>3. g[i] = F[(i - start) + 1] /\ g[i - 1] = F[i - start]
                BY <4>1
            <4> HIDE DEF g
            <4> QED BY <3>2, <4>2, <4>3
        <3> QED BY <3>1, <3>2
    <2> HIDE DEF row
    <2> QED BY <2>1
<1>9. scan = [i \in D |-> row(scan, i)]
    <2> HIDE DEF g, row
    <2> QED BY <1>8
<1> HIDE DEF scan, g
<1>10. \A i \in D : scan[i] = row(scan, i)
    <2> HIDE DEF row, D
    <2> QED BY <1>9
<1>11. PICK P : /\ P \in [Nat -> ScanState] /\ P[0] = ScanStart
                /\ \A k \in Nat : P[k + 1] = ScanSymbol(P[k], text[(start - 1) + k + 1])
    BY ScanExists DEF Runs
<1>12. \A k \in Nat : P[k] \in ScanState /\ P[k + 1] = ScanSymbol(P[k], text[start + k])
    <2>1. \A k \in Nat : (start - 1) + k + 1 = start + k
        OBVIOUS
    <2> QED BY <1>11, <2>1
<1> DEFINE Open(n) == \A k \in 1..n : P[k].depth # 0
           Shut(i, m) == m \in start..i /\ P[m - start + 1].depth = 0 /\ Open(m - start)
           Good(n) == LET i == start - 1 + n
                      IN  \/ scan[i] = P[n] /\ scan[i].end = 0 /\ Open(n)
                          \/ scan[i].end # 0 /\ Shut(i, scan[i].end)
           T == {n \in Nat : n <= Len(text) - start + 1 => Good(n)}
<1>13. 0 \in T
    <2>1. start - 1 \in D /\ scan[start - 1] = ScanStart
        BY <1>10
    <2>2. Open(0) /\ start - 1 + 0 = start - 1
        OBVIOUS
    <2>3. Good(0)
        <3> HIDE DEF Shut, Open
        <3> QED BY <1>2, <1>11, <2>1, <2>2
    <2> HIDE DEF Good
    <2> QED BY <2>3
<1>14. ASSUME NEW n \in T PROVE n + 1 \in T
    <2> SUFFICES ASSUME n + 1 <= Len(text) - start + 1 PROVE Good(n + 1)
        OBVIOUS
    <2>1. PICK i : i = start + n
        OBVIOUS
    <2>2. /\ i \in D /\ i # start - 1 /\ i - 1 = start - 1 + n /\ i = start - 1 + (n + 1)
          /\ i \in Nat /\ i # 0
        BY <2>1
    <2>3. scan[i] = next(i, scan[i - 1])
        BY <1>10, <2>2
    <2>4. Good(n)
        OBVIOUS
    <2>5. CASE scan[i - 1].end # 0 /\ Shut(i - 1, scan[i - 1].end)
        <3>1. scan[i] = scan[i - 1]
            BY <2>3, <2>5 DEF next
        <3>2. Shut(i, scan[i].end)
            BY <2>2, <2>5, <3>1
        <3> HIDE DEF Shut, Open
        <3> QED BY <2>2, <2>5, <3>1, <3>2
    <2>6. CASE scan[i - 1] = P[n] /\ scan[i - 1].end = 0 /\ Open(n)
        <3>1. P[n + 1] = ScanSymbol(P[n], text[i]) /\ P[n + 1] \in ScanState
            <4>1. n \in Nat /\ n + 1 \in Nat
                OBVIOUS
            <4> QED BY <1>12, <2>1, <4>1
        <3>2. scan[i] = IF P[n + 1].depth = 0 THEN [P[n + 1] EXCEPT !.end = i] ELSE P[n + 1]
            BY <2>3, <2>6, <3>1 DEF next
        <3>3. CASE P[n + 1].depth = 0
            <4>1. scan[i] = [P[n + 1] EXCEPT !.end = i]
                BY <3>2, <3>3
            <4>2. scan[i].end = i
                BY <3>1, <4>1 DEF ScanState
            <4>3. i - start = n /\ i - start + 1 = n + 1 /\ i \in start..i
                BY <2>1
            <4>4. Shut(i, scan[i].end)
                <5> HIDE DEF Open
                <5> QED BY <2>6, <3>3, <4>2, <4>3
            <4> HIDE DEF Shut, Open
            <4> QED BY <2>2, <4>2, <4>4
        <3>4. CASE P[n + 1].depth # 0
            <4>1. scan[i] = P[n + 1] /\ scan[i].end = 0
                BY <3>1, <3>2, <3>4 DEF ScanState
            <4>2. Open(n + 1)
                BY <2>6, <3>4
            <4> HIDE DEF Shut, Open
            <4> QED BY <2>2, <4>1, <4>2
        <3> QED BY <3>3, <3>4
    <2> HIDE DEF Shut, Open
    <2> QED BY <2>2, <2>4, <2>5, <2>6
<1>15. \A n \in Nat : n \in T
    <2>1. T \in SUBSET Nat
        OBVIOUS
    <2> HIDE DEF T
    <2> QED BY <1>13, <1>14, <2>1, Induction
<1>16. (e = 0 /\ Open(Len(text) - start + 1)) \/ Shut(Len(text), e)
    <2>1. PICK n : n = Len(text) - start + 1
        OBVIOUS
    <2>2. n \in Nat /\ start - 1 + n = Len(text)
        BY <2>1
    <2>3. Good(n)
        <3> HIDE DEF Good
        <3> QED BY <1>15, <2>1, <2>2
    <2> HIDE DEF Shut, Open
    <2> QED BY <1>1, <2>1, <2>2, <2>3
<1> QED BY <1>11, <1>16 DEF Runs, Closes

\* If it finds an end, the text up to there is one object for the scan.
LEMMA ObjectRun ==
    ASSUME NEW text, Len(text) \in Nat, NEW start \in 1..Len(text),
           NEW e, e = ObjectEnd(text, start), e # 0
    PROVE  e \in start..Len(text) /\ \E P : Scans(P, text, start - 1, e - start + 1)
<1>1. PICK P : Runs(P, text, start - 1) /\ Closes(P, text, start, e)
    BY ObjectScan
<1>2. e \in start..Len(text)
    BY <1>1 DEF Closes
<1>3. e - start + 1 \in Nat /\ (e - start + 1) - 1 = e - start
    BY <1>2
<1>4. P[e - start + 1].depth = 0 /\ \A k \in 1..(e - start) : P[k].depth # 0
    BY <1>1 DEF Closes
<1>5. \A k \in 0..(e - start) : P[k + 1] = ScanSymbol(P[k], text[(start - 1) + k + 1])
    BY <1>1 DEF Runs
<1>6. Scans(P, text, start - 1, e - start + 1)
    BY <1>1, <1>3, <1>4, <1>5 DEF Scans, Runs
<1> QED BY <1>2, <1>6

\* So it is where any scan says that one object ends.
LEMMA ObjectEnds ==
    ASSUME NEW text, Len(text) \in Nat, NEW start \in 1..Len(text), NEW m \in start..Len(text),
           NEW R, Scans(R, text, start - 1, m - start + 1)
    PROVE  ObjectEnd(text, start) = m
<1>1. PICK e : e = ObjectEnd(text, start)
    OBVIOUS
<1>2. PICK P : Runs(P, text, start - 1) /\ Closes(P, text, start, e)
    BY <1>1, ObjectScan
<1>3. PICK n : n = m - start + 1
    OBVIOUS
<1>4. n \in Nat \ {0} /\ n <= Len(text) - start + 1
    BY <1>3
<1> DEFINE T == {k \in Nat : k <= n => P[k] = R[k]}
<1>5. 0 \in T
    BY <1>2 DEF Runs, Scans
<1>6. ASSUME NEW k \in T PROVE k + 1 \in T
    <2> SUFFICES ASSUME k + 1 <= n PROVE P[k + 1] = R[k + 1]
        OBVIOUS
    <2>1. k \in Nat /\ k \in 0..(n - 1) /\ P[k] = R[k]
        BY <1>4
    <2>2. R[k + 1] = ScanSymbol(R[k], text[(start - 1) + k + 1])
        BY <1>3, <2>1 DEF Scans
    <2>3. P[k + 1] = ScanSymbol(P[k], text[(start - 1) + k + 1])
        BY <1>2, <2>1 DEF Runs
    <2> QED BY <2>1, <2>2, <2>3
<1>7. \A k \in Nat : k \in T
    <2>1. T \in SUBSET Nat
        OBVIOUS
    <2> HIDE DEF T
    <2> QED BY <1>5, <1>6, <2>1, Induction
<1>8. \A k \in 0..n : P[k] = R[k]
    BY <1>4, <1>7
<1>9. P[n].depth = 0 /\ \A k \in 1..(n - 1) : P[k].depth # 0
    BY <1>3, <1>4, <1>8 DEF Scans
<1>10. CASE e = 0 /\ \A k \in 1..(Len(text) - start + 1) : P[k].depth # 0
    BY <1>4, <1>9, <1>10
<1>11. CASE /\ e \in start..Len(text) /\ P[e - start + 1].depth = 0
            /\ \A k \in 1..(e - start) : P[k].depth # 0
    <2>1. /\ e - start + 1 \in Nat \ {0}
          /\ n \in 1..(e - start) \/ n = e - start + 1 \/ e - start + 1 \in 1..(n - 1)
        BY <1>4, <1>11
    <2>2. n = e - start + 1
        BY <1>9, <1>11, <2>1
    <2> QED BY <1>1, <1>3, <1>11, <2>2
<1> QED BY <1>2, <1>10, <1>11 DEF Closes

-----------------------------------------------------------------------------
(* The fields of packets and the text that is hashed *)

\* An object does not end with another whole one.  If the other begins outside
\* of the strings of the first, the braces around it are still open where both
\* end; if it begins within a string, each is within a string where the other
\* is not, and only one of them can end there.
LEMMA NoTail ==
    ASSUME NEW X, NEW s1 \in Nat, NEW s2 \in Nat, NEW n \in Nat, s1 < s2, s2 < n,
           NEW P1, Scans(P1, X, s1, n - s1), NEW P2, Scans(P2, X, s2, n - s2),
           X[s2] # "\\"
    PROVE  FALSE
<1>1. PICK d \in Nat : d = s2 - s1
    OBVIOUS
<1>2. PICK m \in Nat : m = n - s2
    OBVIOUS
<1>3. d # 0 /\ m # 0 /\ n - s1 = d + m /\ s1 + d = s2
    BY <1>1, <1>2
<1>4. /\ \A k \in Nat : P1[k] \in ScanState /\ P2[k] \in ScanState
      /\ P2[0] = ScanStart
      /\ \A k \in 0..(d + m - 1) : P1[k + 1] = ScanSymbol(P1[k], X[s1 + k + 1])
      /\ \A k \in 0..(m - 1) : P2[k + 1] = ScanSymbol(P2[k], X[s2 + k + 1])
      /\ P1[d + m].depth = 0 /\ \A k \in 1..(d + m - 1) : P1[k].depth # 0
      /\ P2[m].depth = 0 /\ \A k \in 1..(m - 1) : P2[k].depth # 0
    BY <1>2, <1>3 DEF Scans
<1>5. P2[0].inString = FALSE /\ P2[0].escape = FALSE /\ P2[0].depth = 0
    BY <1>4 DEF ScanStart
<1>6. P1[d].depth # 0
    BY <1>3, <1>4
<1>7. P1[d].escape = FALSE
    <2>1. PICK k \in Nat : k = d - 1
        BY <1>3
    <2>2. k \in 0..(d + m - 1) /\ s1 + k + 1 = s2 /\ k + 1 = d
        BY <1>1, <1>3, <2>1
    <2>3. PICK x, a : x = X[s2] /\ a = P1[k]
        OBVIOUS
    <2>4. P1[d] = ScanSymbol(a, x) /\ a \in ScanState /\ x # "\\"
        BY <1>4, <2>2, <2>3
    <2>5. a.escape = FALSE \/ a.escape = TRUE
        BY <2>4 DEF ScanState
    <2> QED BY <2>4, <2>5, ScanStep
<1>8. PICK c \in Int : c = P1[d].depth
    BY <1>4 DEF ScanState
\* Both read the same symbols behind s2.
<1>9. ASSUME NEW k \in Nat, k + 1 <= m
      PROVE  /\ P1[d + k] \in ScanState /\ P2[k] \in ScanState
             /\ P1[d + (k + 1)] = ScanSymbol(P1[d + k], X[s2 + k + 1])
             /\ P2[k + 1] = ScanSymbol(P2[k], X[s2 + k + 1])
    <2>1. PICK l \in Nat : l = d + k
        OBVIOUS
    <2>2. l \in 0..(d + m - 1) /\ k \in 0..(m - 1) /\ l + 1 = d + (k + 1) /\ s1 + l + 1 = s2 + k + 1
        BY <1>3, <1>9, <2>1
    <2>3. P1[l + 1] = ScanSymbol(P1[l], X[s1 + l + 1]) /\ P1[l] \in ScanState
        BY <1>4, <2>2
    <2> QED BY <1>4, <2>1, <2>2, <2>3
<1>10. CASE P1[d].inString = FALSE
    <2> DEFINE U == {k \in Nat : k <= m => Alike(P1[d + k], P2[k], c)}
    <2>1. 0 \in U
        <3>1. P1[d + 0] = P1[d] /\ c = 0 + c
            OBVIOUS
        <3>2. Alike(P1[d], P2[0], c)
            BY <1>5, <1>7, <1>8, <1>10, <3>1 DEF Alike
        <3> QED BY <3>1, <3>2
    <2>2. ASSUME NEW k \in U PROVE k + 1 \in U
        <3> SUFFICES ASSUME k + 1 <= m PROVE Alike(P1[d + (k + 1)], P2[k + 1], c)
            OBVIOUS
        <3>1. k \in Nat /\ Alike(P1[d + k], P2[k], c)
            OBVIOUS
        <3> HIDE DEF U
        <3> QED BY <1>9, <3>1, ScanAlike
    <2>3. \A k \in Nat : k \in U
        <3>1. U \in SUBSET Nat
            OBVIOUS
        <3> HIDE DEF U
        <3> QED BY <2>1, <2>2, <3>1, Induction
    <2>4. Alike(P1[d + m], P2[m], c)
        BY <2>3
    <2> QED BY <1>4, <1>6, <1>8, <2>4 DEF Alike
<1>11. CASE P1[d].inString = TRUE
    <2> DEFINE U == {k \in Nat : k <= m => Flipped(P1[d + k], P2[k])}
    <2>1. 0 \in U
        <3>1. P1[d + 0] = P1[d]
            OBVIOUS
        <3>2. Flipped(P1[d], P2[0])
            BY <1>5, <1>7, <1>11 DEF Flipped
        <3> QED BY <3>1, <3>2
    <2>2. ASSUME NEW k \in U PROVE k + 1 \in U
        <3> SUFFICES ASSUME k + 1 <= m PROVE Flipped(P1[d + (k + 1)], P2[k + 1])
            OBVIOUS
        <3>1. k \in Nat /\ Flipped(P1[d + k], P2[k])
            OBVIOUS
        <3> HIDE DEF U
        <3> QED BY <1>9, <3>1, ScanFlipped
    <2>3. \A k \in Nat : k \in U
        <3>1. U \in SUBSET Nat
            OBVIOUS
        <3> HIDE DEF U
        <3> QED BY <2>1, <2>2, <3>1, Induction
    <2>4. PICK k \in Nat : k = m - 1
        BY <1>3
    <2>5. k + 1 <= m /\ k + 1 = m /\ d + (k + 1) = d + m /\ k <= m
        BY <2>4
    <2>6. Flipped(P1[d + k], P2[k])
        BY <2>3, <2>5
    <2> HIDE DEF U
    <2>7. PICK a, b, x : a = P1[d + k] /\ b = P2[k] /\ x = X[s2 + k + 1]
        OBVIOUS
    <2>8. /\ a \in ScanState /\ b \in ScanState /\ Flipped(a, b)
          /\ P1[d + m] = ScanSymbol(a, x) /\ P2[m] = ScanSymbol(b, x)
        BY <1>9, <2>5, <2>6, <2>7
    <2>9. a.inString = TRUE \/ b.inString = TRUE
        BY <2>8 DEF Flipped, ScanState
    <2>10. CASE a.inString = TRUE
        <3>1. P1[d + m].depth = a.depth
            BY ONLY <2>8, <2>10, DepthWithin
        <3>2. d + k \in 1..(d + m - 1)
            BY <1>3, <2>4
        <3> QED BY <1>4, <2>7, <3>1, <3>2
    <2>11. CASE b.inString = TRUE
        <3>1. P2[m].depth = b.depth
            BY ONLY <2>8, <2>11, DepthWithin
        <3>2. k # 0
            BY <1>5, <2>7, <2>11
        <3>3. k \in 1..(m - 1)
            BY <2>4, <3>2
        <3> QED BY <1>4, <2>7, <3>1, <3>3
    <2> QED BY <2>9, <2>10, <2>11
<1>12. P1[d].inString = FALSE \/ P1[d].inString = TRUE
    BY <1>4 DEF ScanState
<1> QED BY <1>10, <1>11, <1>12

\* What a text of three fields is made of: a, "|", digits, "|", an object behind s.
Fields(X, S, a, d, t, s) ==
    /\ a \in Seq(S) /\ d \in Seq(S) /\ t \in Seq(S) /\ X \in Seq(S)
    /\ s = Len(a) + Len(d) + 2 /\ Len(X) = s + Len(t)
    /\ \A i \in 1..Len(a) : X[i] = a[i]
    /\ X[Len(a) + 1] = "|" /\ X[s] = "|"
    /\ \A i \in 1..Len(d) : X[Len(a) + 1 + i] = d[i]
    /\ \A i \in 1..Len(t) : X[s + i] = t[i]

\* The text that is hashed has its three fields where its separators say.
LEMMA FieldsOf ==
    ASSUME NEW S, "|" \in S, NEW a \in Seq(S), NEW d \in Seq(S), NEW t \in Seq(S)
    PROVE  Fields(a \o <<"|">> \o d \o <<"|">> \o t, S, a, d, t, Len(a) + Len(d) + 2)
<1> DEFINE b == a \o <<"|">>
           c == b \o d
           e == c \o <<"|">>
           X == e \o t
<1>1. /\ Len(a) \in Nat /\ Len(d) \in Nat /\ Len(t) \in Nat
      /\ <<"|">> \in Seq(S) /\ Len(<<"|">>) = 1 /\ <<"|">>[1] = "|"
    OBVIOUS
<1>2. b \in Seq(S) /\ Len(b) = Len(a) + 1 /\ b[Len(a) + 1] = "|" /\ \A i \in 1..Len(a) : b[i] = a[i]
    OBVIOUS
<1> HIDE DEF b
<1>3. c \in Seq(S) /\ Len(c) = Len(b) + Len(d)
      /\ \A i \in 1..(Len(b) + Len(d)) : c[i] = IF i <= Len(b) THEN b[i] ELSE d[i - Len(b)]
    BY <1>2, ConcatProperties
<1> HIDE DEF c
<1>4. e \in Seq(S) /\ Len(e) = Len(c) + 1 /\ e[Len(c) + 1] = "|" /\ \A i \in 1..Len(c) : e[i] = c[i]
    <2>1. c \in Seq(S)
        BY <1>3
    <2> QED BY <2>1
<1> HIDE DEF e
<1>5. X \in Seq(S) /\ Len(X) = Len(e) + Len(t)
      /\ \A i \in 1..(Len(e) + Len(t)) : X[i] = IF i <= Len(e) THEN e[i] ELSE t[i - Len(e)]
    BY <1>4, ConcatProperties
<1> HIDE DEF X
<1>6. Len(b) = Len(a) + 1 /\ Len(c) = Len(a) + Len(d) + 1 /\ Len(e) = Len(a) + Len(d) + 2
    BY <1>1, <1>2, <1>3, <1>4
<1>7. \A i \in 1..Len(a) : X[i] = a[i]
    <2> TAKE i \in 1..Len(a)
    <2>1. X[i] = e[i] /\ e[i] = c[i] /\ c[i] = b[i] /\ b[i] = a[i]
        BY <1>1, <1>2, <1>3, <1>4, <1>5, <1>6
    <2> QED BY <2>1
<1>8. X[Len(a) + 1] = "|" /\ X[Len(e)] = "|"
    <2>1. PICK j : j = Len(a) + 1
        OBVIOUS
    <2>2. j \in 1..Len(c) /\ j \in 1..(Len(b) + Len(d)) /\ j \in 1..(Len(e) + Len(t))
          /\ j <= Len(e) /\ j <= Len(b)
        BY <1>1, <1>6, <2>1
    <2>3. X[j] = e[j] /\ e[j] = c[j] /\ c[j] = b[j] /\ b[j] = "|"
        BY <1>2, <1>3, <1>4, <1>5, <2>1, <2>2
    <2>4. PICK l : l = Len(e)
        OBVIOUS
    <2>5. l \in 1..(Len(e) + Len(t)) /\ l <= Len(e) /\ l = Len(c) + 1
        BY <1>1, <1>6, <2>4
    <2>6. X[l] = e[l] /\ e[l] = "|"
        BY <1>4, <1>5, <2>5
    <2> QED BY <2>1, <2>3, <2>4, <2>6
<1>9. \A i \in 1..Len(d) : X[Len(a) + 1 + i] = d[i]
    <2> TAKE i \in 1..Len(d)
    <2>1. PICK j : j = Len(a) + 1 + i
        OBVIOUS
    <2>2. j \in 1..(Len(b) + Len(d)) /\ j \in 1..Len(c) /\ j \in 1..(Len(e) + Len(t))
          /\ j <= Len(e) /\ ~(j <= Len(b)) /\ j - Len(b) = i
        BY <1>1, <1>6, <2>1
    <2>3. X[j] = e[j] /\ e[j] = c[j] /\ c[j] = d[i]
        BY <1>3, <1>4, <1>5, <2>2
    <2> QED BY <2>1, <2>3
<1>10. \A i \in 1..Len(t) : X[Len(e) + i] = t[i]
    <2> TAKE i \in 1..Len(t)
    <2>1. PICK j : j = Len(e) + i
        OBVIOUS
    <2>2. j \in 1..(Len(e) + Len(t)) /\ ~(j <= Len(e)) /\ j - Len(e) = i
        BY <1>1, <1>6, <2>1
    <2>3. X[j] = t[i]
        BY <1>5, <2>2
    <2> QED BY <2>1, <2>3
<1>11. Fields(X, S, a, d, t, Len(a) + Len(d) + 2)
    BY <1>5, <1>6, <1>7, <1>8, <1>9, <1>10 DEF Fields
<1> QED BY <1>11 DEF X, e, c, b

\* A text that is one object.
WholeObject(t) == Len(t) \in Nat \ {0} /\ \E P : Scans(P, t, 0, Len(t))

Unquoted(t) == \A i \in 1..Len(t) : ~HasQuote(t[i])

\* An object within a text is scanned as it is alone.
LEMMA ScansInside ==
    ASSUME NEW t, NEW n \in Nat, NEW P, Scans(P, t, 0, n),
           NEW X, NEW s \in Nat, \A i \in 1..n : X[s + i] = t[i]
    PROVE  Scans(P, X, s, n)
<1>1. ASSUME NEW k \in 0..(n - 1) PROVE P[k + 1] = ScanSymbol(P[k], X[s + k + 1])
    <2>1. k + 1 \in 1..n /\ s + (k + 1) = s + k + 1 /\ 0 + k + 1 = k + 1
        OBVIOUS
    <2>2. P[k + 1] = ScanSymbol(P[k], t[0 + k + 1])
        BY DEF Scans
    <2>3. X[s + (k + 1)] = t[k + 1]
        BY <2>1
    <2> QED BY <2>1, <2>2, <2>3
<1> QED BY <1>1 DEF Scans

\* A separator is neither a quote, a backslash nor a digit.
LEMMA SymbolsApart ==
    /\ ~HasQuote("|") /\ "|" # "\\" /\ "|" \notin Digits
    /\ \A d \in Digits : ~HasQuote(d)
BY RequiredAre DEF HasQuote, Names, Optional, Quote, Digits

\* The lengths of the three fields make up the text.
LEMMA FieldLengths ==
    ASSUME NEW X, NEW S, NEW a, NEW d, NEW t, NEW s, Fields(X, S, a, d, t, s)
    PROVE  /\ Len(a) \in Nat /\ Len(d) \in Nat /\ Len(t) \in Nat /\ Len(X) \in Nat
           /\ s = Len(a) + Len(d) + 2 /\ s \in Nat /\ Len(X) = s + Len(t)
<1>1. Len(a) \in Nat /\ Len(d) \in Nat /\ Len(t) \in Nat /\ Len(X) \in Nat
    BY DEF Fields
<1>2. s = Len(a) + Len(d) + 2 /\ Len(X) = s + Len(t)
    BY DEF Fields
<1> QED BY <1>1, <1>2

\* Of two readings of a text as three fields the objects begin at one place.
LEMMA ObjectsSame ==
    ASSUME NEW X, NEW S, NEW a1, NEW d1, NEW t1, NEW s1, Fields(X, S, a1, d1, t1, s1),
           NEW a2, NEW d2, NEW t2, NEW s2, Fields(X, S, a2, d2, t2, s2),
           WholeObject(t1), WholeObject(t2)
    PROVE  ~(s1 < s2)
<1> SUFFICES ASSUME s1 < s2 PROVE FALSE
    OBVIOUS
<1> DEFINE n == Len(X)
<1>1. /\ s1 \in Nat /\ s2 \in Nat /\ n \in Nat /\ n - s1 = Len(t1) /\ n - s2 = Len(t2)
      /\ Len(t1) \in Nat /\ Len(t2) \in Nat /\ Len(t2) # 0 /\ X[s2] = "|"
    <2>1. /\ s1 \in Nat /\ Len(X) = s1 + Len(t1) /\ Len(t1) \in Nat
          /\ s2 \in Nat /\ Len(X) = s2 + Len(t2) /\ Len(t2) \in Nat
        BY FieldLengths
    <2>2. Len(t2) # 0 /\ X[s2] = "|"
        BY DEF Fields, WholeObject
    <2> QED BY <2>1, <2>2
<1>2. s2 < n
    BY <1>1
<1>3. PICK P1 : Scans(P1, X, s1, n - s1)
    <2>1. PICK P1 : Scans(P1, t1, 0, Len(t1))
        BY DEF WholeObject
    <2>2. \A i \in 1..Len(t1) : X[s1 + i] = t1[i]
        BY DEF Fields
    <2>3. Scans(P1, X, s1, Len(t1))
        BY <1>1, <2>1, <2>2, ScansInside
    <2> QED BY <1>1, <2>3
<1>4. PICK P2 : Scans(P2, X, s2, n - s2)
    <2>1. PICK P2 : Scans(P2, t2, 0, Len(t2))
        BY DEF WholeObject
    <2>2. \A i \in 1..Len(t2) : X[s2 + i] = t2[i]
        BY DEF Fields
    <2>3. Scans(P2, X, s2, Len(t2))
        BY <1>1, <2>1, <2>2, ScansInside
    <2> QED BY <1>1, <2>3
<1>5. X[s2] # "\\"
    BY <1>1, SymbolsApart
<1> HIDE DEF n
<1> QED BY <1>1, <1>2, <1>3, <1>4, <1>5, NoTail

\* The names end at one place, too: the digits behind hold no separator.
LEMMA NamesSame ==
    ASSUME NEW X, NEW S, NEW a1, NEW d1, NEW t1, NEW s, Fields(X, S, a1, d1, t1, s),
           NEW a2, NEW d2, NEW t2, Fields(X, S, a2, d2, t2, s), d1 \in Seq(Digits)
    PROVE  ~(Len(a1) < Len(a2))
<1> SUFFICES ASSUME Len(a1) < Len(a2) PROVE FALSE
    OBVIOUS
<1>1. /\ Len(a1) \in Nat /\ Len(d1) \in Nat /\ s = Len(a1) + Len(d1) + 2
      /\ Len(a2) \in Nat /\ Len(d2) \in Nat /\ s = Len(a2) + Len(d2) + 2
    BY DEF Fields
<1>2. PICK j : j = Len(a2) - Len(a1)
    OBVIOUS
<1>3. j \in 1..Len(d1) /\ Len(a1) + 1 + j = Len(a2) + 1
    BY <1>1, <1>2
<1>4. X[Len(a1) + 1 + j] = d1[j] /\ d1[j] \in Digits /\ X[Len(a2) + 1] = "|"
    BY <1>3 DEF Fields
<1> QED BY <1>3, <1>4, SymbolsApart

\* Two texts of three fields are the same only if all fields are.
LEMMA FieldsSame ==
    ASSUME NEW X, NEW S, NEW a1, NEW d1, NEW t1, NEW s1, Fields(X, S, a1, d1, t1, s1),
           NEW a2, NEW d2, NEW t2, NEW s2, Fields(X, S, a2, d2, t2, s2),
           d1 \in Seq(Digits), WholeObject(t1), d2 \in Seq(Digits), WholeObject(t2)
    PROVE  a1 = a2 /\ d1 = d2 /\ t1 = t2
<1>1. /\ Len(a1) \in Nat /\ Len(d1) \in Nat /\ s1 = Len(a1) + Len(d1) + 2 /\ Len(t1) \in Nat
      /\ Len(a2) \in Nat /\ Len(d2) \in Nat /\ s2 = Len(a2) + Len(d2) + 2 /\ Len(t2) \in Nat
      /\ Len(X) = s1 + Len(t1) /\ Len(X) = s2 + Len(t2)
    BY FieldLengths
<1>2. s1 = s2
    <2>1. ~(s1 < s2) /\ ~(s2 < s1)
        BY ObjectsSame
    <2> QED BY <1>1, <2>1
<1>3. Len(a1) = Len(a2)
    <2>1. ~(Len(a1) < Len(a2)) /\ ~(Len(a2) < Len(a1))
        BY <1>2, NamesSame
    <2> QED BY <1>1, <2>1
<1>4. Len(t1) = Len(t2) /\ Len(d1) = Len(d2)
    BY <1>1, <1>2, <1>3
<1>5. a1 = a2
    <2>1. a1 \in Seq(S) /\ a2 \in Seq(S) /\ \A i \in 1..Len(a1) : a1[i] = a2[i]
        BY <1>3 DEF Fields
    <2> QED BY <1>3, <2>1, SeqEqual
<1>6. t1 = t2
    <2>1. t1 \in Seq(S) /\ t2 \in Seq(S) /\ \A i \in 1..Len(t1) : t1[i] = t2[i]
        BY <1>2, <1>4 DEF Fields
    <2> QED BY <1>4, <2>1, SeqEqual
<1>7. d1 = d2
    <2>1. d1 \in Seq(S) /\ d2 \in Seq(S) /\ \A i \in 1..Len(d1) : d1[i] = d2[i]
        BY <1>3, <1>4 DEF Fields
    <2> QED BY <1>4, <2>1, SeqEqual
<1> QED BY <1>5, <1>6, <1>7

-----------------------------------------------------------------------------
(* Positions in a text *)

\* A sequence of whatever symbols.
IsText(t) == \E S : t \in Seq(S)

\* A text has a length.
LEMMA TextLength ==
    ASSUME NEW t, IsText(t)
    PROVE  Len(t) \in Nat /\ DOMAIN t = 1..Len(t)
BY DEF IsText

\* A part of whatever there is is a text.
LEMMA TextOfPart ==
    ASSUME NEW text, NEW m \in Nat, NEW n \in Nat, NEW t, t = SubSeq(text, m, n)
    PROVE  /\ IsText(t) /\ Len(t) \in Nat
           /\ m <= n => Len(t) = n - m + 1
           /\ \A i \in 1..Len(t) : t[i] = text[m + i - 1] /\ m + i - 1 \in m..n
<1> DEFINE S == {text[i] : i \in Nat}
<1>1. t = [i \in 1..(n - m + 1) |-> text[i + m - 1]]
    BY SMT
<1>2. Len(t) \in Nat /\ (m <= n => Len(t) = n - m + 1)
    OBVIOUS
<1>3. DOMAIN t = 1..(n - m + 1)
    BY <1>1
<1>4. \A i \in 1..(n - m + 1) : t[i] = text[i + m - 1] /\ text[i + m - 1] \in S
    BY <1>1
<1> HIDE DEF S
<1>5. t \in Seq(S)
    <2>1. CASE m <= n
        <3>1. PICK l \in Nat : l = n - m + 1
            BY <2>1
        <3>2. t \in [1..l -> S]
            BY <1>1, <1>4, <3>1
        <3> QED BY <3>2, SeqDef
    <2>2. CASE ~(m <= n)
        <3>1. 1..(n - m + 1) = 1..0
            BY <2>2
        <3>2. t \in [1..0 -> S]
            BY <1>1, <3>1
        <3> QED BY <3>2
    <2> QED BY <2>1, <2>2
<1>6. \A i \in 1..Len(t) : i \in 1..(n - m + 1) /\ m + i - 1 = i + m - 1 /\ m + i - 1 \in m..n
    <2>1. DOMAIN t = 1..Len(t)
        BY <1>5
    <2> QED BY <1>3, <2>1
<1>7. IsText(t)
    BY <1>5 DEF IsText
<1> QED BY <1>2, <1>3, <1>4, <1>6, <1>7

\* find gives no place or one with the symbol.
LEMMA FindIs ==
    ASSUME NEW text, Len(text) \in Nat, NEW from \in Nat, NEW s, NEW k, k = Find(text, from, s)
    PROVE  k = 0 \/ (k \in from..Len(text) /\ text[k] = s)
<1> DEFINE I == {i \in from..Len(text) : text[i] = s}
<1>1. k = IF I # {} THEN Min(I) ELSE 0
    BY DEF Find, SelectInSubSeq
<1>2. I \in SUBSET Nat
    OBVIOUS
<1>3. I # {} => Min(I) \in I
    <2> HIDE DEF I
    <2> QED BY <1>2, LeastIs
<1> QED BY <1>1, <1>3

\* Spaces end somewhere.
LEMMA SpacesEnd ==
    ASSUME NEW text, Len(text) \in Nat, NEW from \in Nat
    PROVE  SkipSpaces(text, from) \in Nat
<1> DEFINE I == {i \in from..Len(text) : ~(text[i] \in Spaces)}
<1>1. SkipSpaces(text, from) = LET i == IF I # {} THEN Min(I) ELSE 0
                               IN  IF i = 0 THEN Len(text) + 1 ELSE i
    BY DEF SkipSpaces, PastAll, SelectInSubSeq
<1>2. I \in SUBSET Nat
    OBVIOUS
<1>3. I # {} => Min(I) \in Nat
    <2> HIDE DEF I
    <2> QED BY <1>2, LeastIs
<1> QED BY <1>1, <1>3

\* Behind a digit digits end somewhere.
LEMMA DigitsEnd ==
    ASSUME NEW text, Len(text) \in Nat, NEW from \in 1..Len(text), IsDigit(text[from]),
           NEW k, k = PastAll(text, from, IsDigit)
    PROVE  k \in (from + 1)..(Len(text) + 1) /\ \A i \in from..(k - 1) : IsDigit(text[i])
<1> DEFINE I == {i \in from..Len(text) : ~IsDigit(text[i])}
<1>1. k = LET i == IF I # {} THEN Min(I) ELSE 0 IN IF i = 0 THEN Len(text) + 1 ELSE i
    BY DEF PastAll, SelectInSubSeq
<1>2. I \in SUBSET Nat
    OBVIOUS
<1>3. CASE I = {}
    <2>1. k = Len(text) + 1
        <3> HIDE DEF I
        <3> QED BY <1>1, <1>3
    <2> QED BY <1>3, <2>1
<1>4. CASE I # {}
    <2>1. Min(I) \in I /\ \A i \in I : Min(I) <= i
        <3> HIDE DEF I
        <3> QED BY <1>2, <1>4, LeastIs
    <2>2. k \in I /\ \A i \in I : k <= i
        <3>1. Min(I) # 0
            BY <2>1
        <3>2. k = Min(I)
            <4> HIDE DEF I
            <4> QED BY <1>1, <1>4, <3>1
        <3> HIDE DEF I
        <3> QED BY <2>1, <3>2
    <2>3. k # from /\ k \in from..Len(text)
        BY <2>2
    <2>4. \A i \in from..(k - 1) : i \notin I /\ i \in from..Len(text)
        <3> HIDE DEF I
        <3> QED BY <2>2, <2>3
    <2>5. \A i \in from..(k - 1) : IsDigit(text[i])
        BY <2>4
    <2>6. k \in (from + 1)..(Len(text) + 1)
        BY <2>3
    <2> QED BY <2>5, <2>6
<1> QED BY <1>3, <1>4

\* A value begins somewhere, or nowhere.
LEMMA ValueIs ==
    ASSUME NEW text, Len(text) \in Nat, NEW i \in Nat
    PROVE  ValueAt(text, i) \in Nat
<1>1. SkipSpaces(text, i + 1) \in Nat
    BY SpacesEnd
<1>2. SkipSpaces(text, SkipSpaces(text, i + 1) + 1) \in Nat
    BY <1>1, SpacesEnd
<1> QED BY <1>1, <1>2 DEF ValueAt

\* Digits are read as a number.
LEMMA NumberNat ==
    ASSUME NEW t, Len(t) \in Nat, \A i \in 1..Len(t) : IsDigit(t[i])
    PROVE  NumberOf(t) \in Nat
<1>1. PICK f : Counts(f, t)
    BY NumberSteps
<1> DEFINE T == {i \in Nat : i <= Len(t) => f[i] \in Nat}
<1>2. 0 \in T
    BY <1>1 DEF Counts
<1>3. ASSUME NEW i \in T PROVE i + 1 \in T
    <2> SUFFICES ASSUME i + 1 <= Len(t) PROVE f[i + 1] \in Nat
        OBVIOUS
    <2>1. i + 1 \in Nat \ {0} /\ (i + 1) - 1 = i /\ i + 1 \in 1..Len(t) /\ f[i] \in Nat
        OBVIOUS
    <2>2. DigitValue(t[i + 1]) \in 0..9
        BY <2>1, DigitValues
    <2>3. f[i + 1] = 10 * f[i] + DigitValue(t[i + 1])
        BY <1>1, <2>1 DEF Counts
    <2> QED BY <2>1, <2>2, <2>3
<1>4. \A i \in Nat : i \in T
    <2>1. T \in SUBSET Nat
        OBVIOUS
    <2> HIDE DEF T
    <2> QED BY <1>2, <1>3, <2>1, Induction
<1>5. NumberOf(t) = f[Len(t)] /\ f[Len(t)] \in Nat
    BY <1>1, <1>4 DEF Counts
<1> QED BY <1>5

Opening == "{"

\* A part of a text.
Within(v, text) == \E m \in Nat \ {0}, n \in Nat : n <= Len(text) /\ v = SubSeq(text, m, n)

\* A part of a text has only its symbols.
LEMMA WithinIs ==
    ASSUME NEW S, NEW text \in Seq(S), NEW v, Within(v, text)
    PROVE  v \in Seq(S)
<1>1. PICK m \in Nat \ {0}, n \in Nat : n <= Len(text) /\ v = SubSeq(text, m, n)
    BY DEF Within
<1>2. m \in Int /\ n \in Int /\ \A i \in m..n : text[i] \in S
    BY <1>1
<1>3. SubSeq(text, m, n) \in Seq(S)
    BY <1>2, SubSeqProperties
<1> QED BY <1>1, <1>3

\* A string ends at the first quote, so it holds none (json_parser.cpp:13-20).
LEMMA ExtractedString ==
    ASSUME NEW text, IsText(text), NEW key, NEW v, v = ExtractStringValue(text, key), v # None
    PROVE  IsText(v) /\ Unquoted(v) /\ Within(v, text)
<1> DEFINE found == {i \in DOMAIN text : /\ text[i] = key
                                         /\ At(text, ValueAt(text, i)) = Quote
                                         /\ ClosingQuote(text, ValueAt(text, i) + 1) # 0}
           begin == IF found = {} THEN 0 ELSE ValueAt(text, Min(found))
           close == ClosingQuote(text, begin + 1)
<1>1. v = IF begin = 0 THEN None ELSE SubSeq(text, begin + 1, close - 1)
    BY DEF ExtractStringValue, SearchValue
<1>2. Len(text) \in Nat /\ found \in SUBSET Nat
    BY TextLength
<1>3. found # {}
    <2> HIDE DEF found
    <2> QED BY <1>1
<1>4. Min(found) \in found
    <2> HIDE DEF found
    <2> QED BY <1>2, <1>3, LeastIs
<1>5. begin = ValueAt(text, Min(found)) /\ begin \in Nat
    <2>1. begin = ValueAt(text, Min(found)) /\ Min(found) \in Nat
        <3> HIDE DEF found
        <3> QED BY <1>2, <1>3, <1>4
    <2> HIDE DEF begin, found
    <2> QED BY <1>2, <2>1, ValueIs
<1>6. close # 0
    BY <1>4, <1>5
<1> HIDE DEF found, begin
<1> DEFINE I == {i \in (begin + 1)..Len(text) : HasQuote(text[i])}
<1>7. close = IF I # {} THEN Min(I) ELSE 0
    BY DEF ClosingQuote, SelectInSubSeq
<1>8. I \in SUBSET Nat /\ I # {}
    <2>1. I # {}
        <3> HIDE DEF I
        <3> QED BY <1>6, <1>7
    <2> QED BY <1>5, <2>1
<1>9. close \in I /\ \A i \in I : close <= i
    <2> HIDE DEF I, close
    <2> QED BY <1>7, <1>8, LeastIs
<1> DEFINE m == begin + 1  n == close - 1
<1>10. m \in Nat /\ n \in Nat
    BY <1>2, <1>5, <1>9
<1>11. v = SubSeq(text, m, n)
    <2>1. begin # 0
        BY <1>1
    <2> QED BY <1>1, <2>1
<1>12. \A i \in m..n : ~HasQuote(text[i])
    <2>1. \A i \in m..n : i \notin I /\ i \in (begin + 1)..Len(text)
        BY <1>2, <1>5, <1>9
    <2> QED BY <2>1
<1>14. m \in Nat \ {0} /\ n <= Len(text)
    BY <1>2, <1>5, <1>9
<1> HIDE DEF m, n, I, close
<1>13. /\ IsText(v)
       /\ \A i \in 1..Len(v) : v[i] = text[m + i - 1] /\ m + i - 1 \in m..n
    BY <1>10, <1>11, TextOfPart
<1>15. Within(v, text)
    BY <1>10, <1>11, <1>14 DEF Within
<1> QED BY <1>12, <1>13, <1>15 DEF Unquoted

\* Digits that begin in a text are a number.
LEMMA NumberAt ==
    ASSUME NEW text, IsText(text), NEW begin \in Nat, IsDigit(At(text, begin))
    PROVE  begin \in 1..Len(text) /\ NumberOf(DigitsAt(text, begin)) \in Nat
<1>1. Len(text) \in Nat /\ DOMAIN text = 1..Len(text)
    BY TextLength
<1>2. begin \in 1..Len(text) /\ IsDigit(text[begin])
    <2>1. ~IsDigit("")
        <3>1. "" \notin Digits
            BY DEF Digits
        <3> QED BY <3>1, DigitValues
    <2> QED BY <1>1, <2>1 DEF At
<1>3. PICK k, n, d : k = PastAll(text, begin, IsDigit) /\ n = k - 1 /\ d = DigitsAt(text, begin)
    OBVIOUS
<1>4. k \in (begin + 1)..(Len(text) + 1) /\ \A i \in begin..(k - 1) : IsDigit(text[i])
    BY <1>1, <1>2, <1>3, DigitsEnd
<1>5. n \in Nat /\ d = SubSeq(text, begin, n)
    BY <1>1, <1>3, <1>4 DEF DigitsAt
<1>6. Len(d) \in Nat
    BY <1>5, TextOfPart
<1>7. \A i \in 1..Len(d) : d[i] = text[begin + i - 1] /\ begin + i - 1 \in begin..n
    BY <1>5, TextOfPart
<1>8. \A i \in 1..Len(d) : IsDigit(d[i])
    BY <1>3, <1>4, <1>7
<1>9. NumberOf(d) \in Nat
    BY <1>6, <1>8, NumberNat
<1> QED BY <1>2, <1>3, <1>9

\* A number that is read fits in 64 bits (json_parser.cpp:22-33).
LEMMA ExtractedNumber ==
    ASSUME NEW text, IsText(text), NEW key, NEW v, v = ExtractUnsignedValue(text, key), v # None
    PROVE  v \in 0..(Word - 1)
<1> DEFINE found == {i \in DOMAIN text : text[i] = key /\ IsDigit(At(text, ValueAt(text, i)))}
           begin == IF found = {} THEN 0 ELSE ValueAt(text, Min(found))
           d == DigitsAt(text, begin)
<1>1. v = IF begin = 0 THEN None ELSE ParseUnsigned(d)
    BY DEF ExtractUnsignedValue, SearchValue
<1>2. Len(text) \in Nat /\ found \in SUBSET Nat
    BY TextLength
<1>3. found # {}
    <2> HIDE DEF found
    <2> QED BY <1>1
<1>4. Min(found) \in found
    <2> HIDE DEF found
    <2> QED BY <1>2, <1>3, LeastIs
<1>5. begin \in Nat /\ IsDigit(At(text, begin))
    <2>1. begin = ValueAt(text, Min(found)) /\ Min(found) \in Nat
        <3> HIDE DEF found
        <3> QED BY <1>2, <1>3, <1>4
    <2>2. IsDigit(At(text, begin))
        BY <1>4, <2>1
    <2> HIDE DEF begin, found
    <2> QED BY <1>2, <2>1, <2>2, ValueIs
<1> HIDE DEF found, begin
<1>6. NumberOf(d) \in Nat
    BY <1>5, NumberAt
<1>7. v = ParseUnsigned(d)
    BY <1>1
<1> HIDE DEF d
<1>8. v = NumberOf(d) /\ NumberOf(d) < Word
    BY <1>7 DEF ParseUnsigned
<1> QED BY <1>6, <1>8, WordAssumption

\* An object that is read is whole (json_parser.cpp:35-85).
LEMMA ExtractedObject ==
    ASSUME NEW text, IsText(text), NEW key, NEW v, v = ExtractObjectValue(text, key), v # None
    PROVE  IsText(v) /\ WholeObject(v) /\ Within(v, text) /\ v[1] = Opening
<1> DEFINE name == Find(text, 1, key)
           colon == FindAfter(text, name, ":")
           start == FindAfter(text, colon, "{")
           end == IF start = 0 THEN 0 ELSE ObjectEnd(text, start)
<1>1. v = IF end = 0 THEN None ELSE SubSeq(text, start, end)
    BY DEF ExtractObjectValue
<1>2. Len(text) \in Nat
    BY TextLength
<1>3. name \in Nat
    BY <1>2, FindIs
<1> HIDE DEF name
<1>4. colon \in Nat
    <2>1. name + 1 \in Nat
        BY <1>3
    <2>2. Find(text, name + 1, ":") \in Nat
        BY <1>2, <2>1, FindIs
    <2> QED BY <2>2 DEF FindAfter
<1> HIDE DEF colon
<1>5. start # 0
    BY <1>1
<1>6. start \in 1..Len(text) /\ text[start] = Opening
    <2>1. colon + 1 \in Nat
        BY <1>4
    <2>2. start = Find(text, colon + 1, "{")
        BY <1>5 DEF FindAfter
    <2>3. Find(text, colon + 1, "{") \in {0} \cup (colon + 1)..Len(text)
        BY <1>2, <2>1, FindIs
    <2>4. start \in {0} \cup (colon + 1)..Len(text)
        BY <2>2, <2>3
    <2>5. start = Find(text, colon + 1, Opening)
        BY <2>2, Zenon DEF Opening
    <2>6. text[start] = Opening
        <3> HIDE DEF start
        <3> QED BY <1>2, <1>5, <2>1, <2>5, FindIs
    <2> HIDE DEF start
    <2> QED BY <1>2, <1>4, <1>5, <2>4, <2>6
<1> HIDE DEF start
<1>7. end = ObjectEnd(text, start) /\ end # 0 /\ v = SubSeq(text, start, end)
    BY <1>1, <1>5
<1> HIDE DEF end
<1>8. end \in start..Len(text) /\ \E P : Scans(P, text, start - 1, end - start + 1)
    BY <1>2, <1>6, <1>7, ObjectRun
<1>9. start \in Nat /\ end \in Nat /\ start <= end
    BY <1>2, <1>6, <1>8
<1>10. /\ IsText(v) /\ Len(v) = end - start + 1
       /\ \A i \in 1..Len(v) : v[i] = text[start + i - 1]
    <2>1. v = SubSeq(text, start, end)
        BY <1>7
    <2>2. IsText(v)
        BY <1>9, <2>1, TextOfPart
    <2>3. Len(v) = end - start + 1
        BY <1>9, <2>1, TextOfPart
    <2>4. \A i \in 1..Len(v) : v[i] = text[start + i - 1]
        BY <1>9, <2>1, TextOfPart
    <2> QED BY <2>2, <2>3, <2>4
<1>11. Len(v) \in Nat \ {0}
    BY <1>6, <1>8, <1>9, <1>10
<1>12. PICK P : Scans(P, text, start - 1, Len(v))
    BY <1>8, <1>10
<1>13. Scans(P, v, 0, Len(v))
    <2>1. ASSUME NEW k \in 0..(Len(v) - 1) PROVE P[k + 1] = ScanSymbol(P[k], v[0 + k + 1])
        <3>1. k + 1 \in 1..Len(v) /\ 0 + k + 1 = k + 1 /\ start + (k + 1) - 1 = (start - 1) + k + 1
            BY <1>6, <1>11
        <3>2. v[k + 1] = text[start + (k + 1) - 1]
            BY <1>10, <3>1
        <3>3. P[k + 1] = ScanSymbol(P[k], text[(start - 1) + k + 1])
            BY <1>12 DEF Scans
        <3> QED BY <3>1, <3>2, <3>3
    <2> QED BY <1>12, <2>1 DEF Scans
<1>14. v[1] = Opening
    <2>1. 1 \in 1..Len(v) /\ start + 1 - 1 = start
        BY <1>6, <1>11
    <2> QED BY <1>6, <1>10, <2>1
<1>15. Within(v, text)
    <2>1. start \in Nat \ {0} /\ end \in Nat /\ end <= Len(text)
        BY <1>2, <1>6, <1>8, <1>9
    <2> QED BY <1>7, <2>1 DEF Within
<1> QED BY <1>10, <1>11, <1>13, <1>14, <1>15 DEF WholeObject

\* A packet with whole telemetry, as devices send it and the parser lets it through.
Readable(p) ==
    /\ IsText(p.deviceId)
    /\ p.timestamp \in Nat
    /\ IsText(p.telemetryJson) /\ WholeObject(p.telemetryJson)

\* A packet that the parser lets through has an id without quotes and whole
\* telemetry.
LEMMA PacketIsReadable ==
    ASSUME NEW text, IsText(text), NEW json, json = ParseTelemetryPacketJson(text), json.ok
    PROVE  /\ Readable(json.packet) /\ json.packet.timestamp \in 0..(Word - 1)
           /\ Unquoted(json.packet.deviceId)
           /\ ExtractStringValue(text, "deviceId") # None
<1> DEFINE I == {i \in 1..Len(Required) : Extract(text, Required[i]) = None}
           missing == IF I # {} THEN Min(I) ELSE 0
<1>1. missing = SelectInSeq(Required, LAMBDA key : Extract(text, key) = None)
    BY DEF SelectInSeq
<1>2. missing = 0
    <2> HIDE DEF missing
    <2>1. CASE missing # 0
        <3>1. json.ok = FALSE
            BY <1>1, <2>1 DEF ParseTelemetryPacketJson
        <3> QED BY <3>1
    <2> QED BY <2>1
<1>3. I = {}
    <2> SUFFICES ASSUME I # {} PROVE FALSE
        OBVIOUS
    <2>1. I \in SUBSET Nat /\ 0 \notin I
        BY DEF Required
    <2>2. Min(I) \in I
        <3> HIDE DEF I
        <3> QED BY <2>1, LeastIs
    <2>3. Min(I) = 0
        <3> HIDE DEF I
        <3> QED BY <1>2
    <2> QED BY <2>1, <2>2, <2>3
<1>4. \A i \in 1..5 : Extract(text, Required[i]) # None
    <2>1. Len(Required) = 5
        BY DEF Required
    <2> QED BY <1>3, <2>1
<1> HIDE DEF missing, I
<1>5. Required[1] = "deviceId" /\ Required[2] = "timestamp" /\ Required[3] = "telemetry"
    BY DEF Required
<1>6. /\ Extract(text, "deviceId") # None /\ Extract(text, "timestamp") # None
      /\ Extract(text, "telemetry") # None
    BY <1>4, <1>5
<1>7. /\ json.packet.deviceId = Extract(text, "deviceId")
      /\ json.packet.timestamp = Extract(text, "timestamp")
      /\ json.packet.telemetryJson = Extract(text, "telemetry")
    BY <1>1, <1>2 DEF ParseTelemetryPacketJson
<1>8. /\ Extract(text, "deviceId") = ExtractStringValue(text, "deviceId")
      /\ Extract(text, "timestamp") = ExtractUnsignedValue(text, "timestamp")
      /\ Extract(text, "telemetry") = ExtractObjectValue(text, "telemetry")
    BY DEF Extract
<1>9. IsText(json.packet.deviceId) /\ Unquoted(json.packet.deviceId)
    BY <1>6, <1>7, <1>8, ExtractedString
<1>10. json.packet.timestamp \in 0..(Word - 1)
    BY <1>6, <1>7, <1>8, ExtractedNumber
<1>11. IsText(json.packet.telemetryJson) /\ WholeObject(json.packet.telemetryJson)
    BY <1>6, <1>7, <1>8, ExtractedObject
<1> QED BY <1>6, <1>8, <1>9, <1>10, <1>11, WordAssumption DEF Readable

\* No two packets with whole telemetry are hashed as the same text, whatever
\* their ids hold.
LEMMA HashedTexts ==
    ASSUME NEW p, Readable(p), NEW q, Readable(q), HashedText(p) = HashedText(q)
    PROVE  p.deviceId = q.deviceId /\ p.timestamp = q.timestamp /\ p.telemetryJson = q.telemetryJson
<1>1. PICK S1, S2, S3, S4 : /\ p.deviceId \in Seq(S1) /\ p.telemetryJson \in Seq(S2)
                            /\ q.deviceId \in Seq(S3) /\ q.telemetryJson \in Seq(S4)
    BY DEF Readable, IsText
<1> DEFINE S == S1 \cup S2 \cup S3 \cup S4 \cup Digits \cup {"|"}
           d == Decimal[p.timestamp]
           e == Decimal[q.timestamp]
<1>2. /\ d \in Seq(Digits) /\ e \in Seq(Digits)
      /\ NumberOf(d) = p.timestamp /\ NumberOf(e) = q.timestamp
    BY DecimalIsRead DEF Readable
<1> HIDE DEF d, e
<1>3. /\ p.deviceId \in Seq(S) /\ p.telemetryJson \in Seq(S) /\ d \in Seq(S)
      /\ q.deviceId \in Seq(S) /\ q.telemetryJson \in Seq(S) /\ e \in Seq(S) /\ "|" \in S
    BY <1>1, <1>2
<1> HIDE DEF S
<1>4. PICK X : X = HashedText(p)
    OBVIOUS
<1>5. /\ X = p.deviceId \o <<"|">> \o d \o <<"|">> \o p.telemetryJson
      /\ X = q.deviceId \o <<"|">> \o e \o <<"|">> \o q.telemetryJson
    BY <1>4 DEF HashedText, d, e
<1>6. /\ Fields(X, S, p.deviceId, d, p.telemetryJson, Len(p.deviceId) + Len(d) + 2)
      /\ Fields(X, S, q.deviceId, e, q.telemetryJson, Len(q.deviceId) + Len(e) + 2)
    BY <1>3, <1>5, FieldsOf
<1>7. p.deviceId = q.deviceId /\ d = e /\ p.telemetryJson = q.telemetryJson
    <2>1. WholeObject(p.telemetryJson) /\ WholeObject(q.telemetryJson)
        BY DEF Readable
    <2> QED BY <1>2, <1>6, <2>1, FieldsSame
<1> QED BY <1>2, <1>7

-----------------------------------------------------------------------------
(* What was parsed *)

\* IsObject says so of a text.
LEMMA ObjectIsWhole ==
    ASSUME NEW t, IsText(t), Len(t) # 0, IsObject(t)
    PROVE  WholeObject(t)
<1>1. Len(t) \in Nat /\ 1 \in 1..Len(t)
    BY TextLength
<1> DEFINE start == 1
           e == Len(t)
<1>2. start \in 1..Len(t) /\ e = ObjectEnd(t, start) /\ e # 0
    BY <1>1 DEF IsObject
<1>3. start - 1 = 0 /\ e - start + 1 = Len(t)
    BY <1>1
<1> HIDE DEF start, e
<1>4. \E P : Scans(P, t, start - 1, e - start + 1)
    BY <1>1, <1>2, ObjectRun
<1> QED BY <1>1, <1>3, <1>4 DEF WholeObject

\* So are the packets that devices send.
LEMMA PacketsReadable ==
    ASSUME NEW p \in Packets PROVE Readable(p)
<1>1. /\ p.deviceId \in Seq(STRING \ Names) /\ p.timestamp \in Nat
      /\ p.telemetryJson \in Seq(STRING) /\ p.telemetryJson # <<>> /\ IsObject(p.telemetryJson)
    BY PacketsAssumption
<1>2. IsText(p.deviceId) /\ IsText(p.telemetryJson)
    BY <1>1 DEF IsText
<1>3. Len(p.telemetryJson) # 0
    BY <1>1
<1>4. WholeObject(p.telemetryJson)
    BY <1>1, <1>2, <1>3, ObjectIsWhole
<1> QED BY <1>1, <1>2, <1>4 DEF Readable

\* The blank line.
LEMMA CrlfTwice == Len(Crlf \o Crlf) = 4 /\ Len(Crlf) = 2
BY DEF Crlf

\* find gives the first blank line.
LEMMA HeaderEndIs ==
    ASSUME NEW raw, Len(raw) \in Nat, NEW k, k = HeaderEnd(raw)
    PROVE  /\ k \in Nat /\ (k # 0 => k \in 1..(Len(raw) - 3))
           /\ k # 0 => SubSeq(raw, k, k + 3) = Crlf \o Crlf
           /\ \A i \in 1..(Len(raw) - 3) :
                 SubSeq(raw, i, i + 3) = Crlf \o Crlf => k # 0 /\ k <= i
<1> DEFINE part == Crlf \o Crlf
           found == {i \in 1..(Len(raw) - Len(part) + 1) : SubSeq(raw, i, i + Len(part) - 1) = part}
<1>1. k = IF found = {} THEN 0 ELSE Min(found)
    BY DEF HeaderEnd, FindSeq
<1>2. Len(part) = 4
    BY CrlfTwice
<1> HIDE DEF part
<1>3. found = {i \in 1..(Len(raw) - 3) : SubSeq(raw, i, i + 3) = part}
    <2>1. Len(raw) - Len(part) + 1 = Len(raw) - 3 /\ \A i \in Nat : i + Len(part) - 1 = i + 3
        BY <1>2
    <2>2. \A i \in 1..(Len(raw) - 3) : i \in Nat
        OBVIOUS
    <2> QED BY <2>1, <2>2
<1> HIDE DEF found
<1>4. found \in SUBSET Nat
    BY <1>3
<1>5. found # {} => k \in found /\ \A i \in found : k <= i
    BY <1>1, <1>4, LeastIs
<1>6. found = {} => k = 0
    BY <1>1
<1>7. k # 0 => k \in found
    BY <1>5, <1>6
<1>8. k \in Nat
    <2>1. CASE k = 0
        BY <2>1
    <2>2. CASE k # 0
        <3>1. k \in found
            BY <1>7, <2>2
        <3> QED BY <1>4, <3>1
    <2> QED BY <2>1, <2>2
<1>9. \A i \in 1..(Len(raw) - 3) : SubSeq(raw, i, i + 3) = part => k # 0 /\ k <= i
    <2> SUFFICES ASSUME NEW i \in 1..(Len(raw) - 3), SubSeq(raw, i, i + 3) = part
                 PROVE  k # 0 /\ k <= i
        OBVIOUS
    <2>1. i \in found
        BY <1>3
    <2>2. k \in found /\ k <= i
        BY <1>5, <2>1
    <2>3. 0 \notin found
        BY <1>3
    <2> QED BY <2>2, <2>3
<1> QED BY <1>3, <1>7, <1>8, <1>9 DEF part

\* The body of a request is a text.
LEMMA BodyIsText ==
    ASSUME NEW raw, Len(raw) \in Nat, NEW request, request = ParseHttpRequest(raw), request # None
    PROVE  IsText(request.body)
<1>1. PICK k : k = HeaderEnd(raw)
    OBVIOUS
<1> DEFINE m == k + 4
<1>2. m \in Nat
    BY <1>1, HeaderEndIs
<1>3. request.body = SubSeq(raw, m, Len(raw))
    BY <1>1 DEF ParseHttpRequest
<1> HIDE DEF m
<1> QED BY <1>2, <1>3, TextOfPart

\* What has been read and parsed so far.
ParsedInv ==
    /\ got \in Nat
    /\ parsed # None => Readable(parsed) /\ parsed.timestamp \in 0 .. (Word - 1)

\* ParsedInv is inductive: only Ingest sets what was parsed, from a body.
LEMMA ParsedInvariant == Spec => []ParsedInv
<1>1. Init => ParsedInv
    BY DEF Init, ParsedInv
<1>2. ParsedInv /\ [Next]_vars => ParsedInv'
    <2> SUFFICES ASSUME ParsedInv, [Next]_vars PROVE ParsedInv'
        OBVIOUS
    <2>1. CASE UNCHANGED vars
        BY <2>1 DEF ParsedInv, vars
    <2>2. ASSUME NEW n \in 1..BufferSize, Recv(n) PROVE ParsedInv'
        <3>1. got' \in Nat /\ parsed' = parsed
            BY <2>2, SizesAssumption DEF Recv, ParsedInv
        <3> QED BY <3>1 DEF ParsedInv
    <2>3. CASE RecvEnds
        BY <2>3 DEF RecvEnds, ParsedInv
    <2>4. CASE HandleClient
        <3>1. got' = got
            BY <2>4 DEF HandleClient
        <3>2. CASE parsed' = parsed
            BY <3>1, <3>2 DEF ParsedInv
        <3>3. CASE parsed' # parsed
            <4>1. PICK request : request = ParseHttpRequest(Raw) /\ Ingest(request)
                BY <2>4, <3>3 DEF HandleClient, NoRequest, InvalidRequest, RouteOther
            <4>2. PICK json : /\ json = ParseTelemetryPacketJson(request.body) /\ json.ok
                              /\ parsed' = json.packet
                BY <3>3, <4>1 DEF Ingest
            <4>3. request # None
                BY <4>1 DEF Ingest
            <4>4. Len(Raw) \in Nat
                BY DEF Raw, ParsedInv
            <4>5. IsText(request.body)
                BY <4>1, <4>3, <4>4, BodyIsText
            <4>6. Readable(parsed') /\ parsed'.timestamp \in 0 .. (Word - 1)
                BY <4>2, <4>5, PacketIsReadable
            <4>7. got' \in Nat
                BY <3>1 DEF ParsedInv
            <4> QED BY <4>6, <4>7 DEF ParsedInv
        <3> QED BY <3>2, <3>3
    <2> QED BY <2>1, <2>2, <2>3, <2>4 DEF Next
<1> QED BY <1>1, <1>2, PTL DEF Spec

\* HashedTextIsUnique: what the parser lets through is hashed as the text of
\* one packet only.
THEOREM HashesTellApart == Spec => []HashedTextIsUnique
<1>1. ParsedInv => HashedTextIsUnique
    <2> SUFFICES ASSUME ParsedInv, parsed # None, NEW p \in Packets,
                        HashedText(p) = HashedText(parsed)
                 PROVE  \A f \in SignedFields : p[f] = parsed[f]
        BY DEF HashedTextIsUnique
    <2>1. Readable(p) /\ Readable(parsed)
        BY PacketsReadable DEF ParsedInv
    <2>2. /\ p.deviceId = parsed.deviceId /\ p.timestamp = parsed.timestamp
          /\ p.telemetryJson = parsed.telemetryJson
        BY <2>1, HashedTexts
    <2> QED BY <2>2 DEF SignedFields
<1> QED BY <1>1, ParsedInvariant, PTL

-----------------------------------------------------------------------------
(* What clients send *)

\* The fold that joins texts adds one after the other,
Joins(F, S, seqs) ==
    /\ F[1] = seqs[1] /\ \A i \in 2..Len(seqs) : F[i] = F[i - 1] \o seqs[i]
    /\ \A i \in 1..Len(seqs) : F[i] \in Seq(S)
    /\ FlattenSeq(seqs) = F[Len(seqs)]

\* FlattenSeq puts texts together one after the other.
LEMMA FlattenSteps ==
    ASSUME NEW S, NEW seqs \in Seq(Seq(S)), Len(seqs) # 0
    PROVE  \E F : Joins(F, S, seqs)
<1> DEFINE n == Len(seqs)
           Q == Seq(S)
           row(f, i) == IF i = 1 THEN seqs[i] ELSE f[i - 1] \o seqs[i]
           flatten == CHOOSE f : f = [i \in 1..n |-> row(f, i)]
<1>1. n \in Nat /\ \A i \in 1..n : seqs[i] \in Q
    OBVIOUS
<1>2. FlattenSeq(seqs) = IF n = 0 THEN seqs ELSE flatten[n]
    BY DEF FlattenSeq
<1>3. n # 0
    OBVIOUS
<1> DEFINE next(k, q) == IF k + 2 <= n THEN q \o seqs[k + 2] ELSE q
           step == [p \in Nat \X Q |-> next(p[1], p[2])]
           a == seqs[1]
<1>4. a \in Q
    BY <1>1, <1>3
<1>5. \A k \in Nat, q \in Q : next(k, q) \in Q
    <2> TAKE k \in Nat, q \in Q
    <2>1. CASE k + 2 <= n
        <3>1. k + 2 \in 1..n
            BY <1>1, <2>1
        <3>2. seqs[k + 2] \in Q
            BY <1>1, <3>1
        <3> HIDE DEF n
        <3>3. q \o seqs[k + 2] \in Q
            BY <3>2
        <3> QED BY <2>1, <3>3
    <2>2. CASE ~(k + 2 <= n)
        BY <2>2
    <2> QED BY <2>1, <2>2
<1> HIDE DEF next
<1>6. step \in [Nat \X Q -> Q] /\ \A k \in Nat, q \in Q : step[<<k, q>>] = next(k, q)
    <2> HIDE DEF Q
    <2> QED BY <1>5
<1> HIDE DEF step, a
<1>7. PICK F : Iterates(F, Q, a, step)
    <2> HIDE DEF Q
    <2> QED BY <1>4, <1>6, Recursion
<1>8. F[0] = a /\ \A k \in Nat : F[k] \in Q /\ F[k + 1] = next(k, F[k])
    <2> HIDE DEF Q
    <2> QED BY <1>6, <1>7 DEF Iterates
<1> DEFINE g == [i \in 1..n |-> F[i - 1]]
<1>9. ASSUME NEW i \in 1..n PROVE g[i] = row(g, i)
    <2>1. CASE i = 1
        BY <1>8, <2>1 DEF a
    <2>2. CASE i # 1
        <3>1. PICK k : k = i - 2
            OBVIOUS
        <3>2. k \in Nat /\ k + 1 = i - 1 /\ k + 2 = i /\ k + 2 <= n /\ i - 1 \in 1..n
              /\ (i - 1) - 1 = k
            BY <1>1, <2>2, <3>1
        <3>3. F[k + 1] = F[k] \o seqs[k + 2]
            BY <1>8, <3>2 DEF next
        <3>4. g[i] = F[i - 1] /\ g[i - 1] = F[(i - 1) - 1]
            BY <3>2
        <3>5. g[i] = g[i - 1] \o seqs[i]
            <4> HIDE DEF g
            <4> QED BY <3>2, <3>3, <3>4
        <3> HIDE DEF g
        <3> QED BY <2>2, <3>5
    <2> QED BY <2>1, <2>2
<1>10. g = [i \in 1..n |-> row(g, i)]
    <2> HIDE DEF row, n
    <2> QED BY <1>9
<1>11. flatten = [i \in 1..n |-> row(flatten, i)]
    <2> HIDE DEF row, n, g
    <2> QED BY <1>10
<1> HIDE DEF flatten
<1>12. \A i \in 1..n : flatten[i] = row(flatten, i)
    <2> HIDE DEF row, n
    <2> QED BY <1>11
<1> DEFINE T == {k \in Nat : k + 1 <= n => flatten[k + 1] \in Q}
<1>13. \A k \in Nat : k \in T
    <2>1. 0 \in T
        <3>1. 1 \in 1..n
            BY <1>1, <1>3
        <3>2. flatten[1] = seqs[1]
            BY <1>12, <3>1
        <3> HIDE DEF Q, n
        <3> QED BY <1>1, <3>1, <3>2
    <2>2. ASSUME NEW k \in T PROVE k + 1 \in T
        <3> SUFFICES ASSUME (k + 1) + 1 <= n PROVE flatten[(k + 1) + 1] \in Q
            OBVIOUS
        <3>1. PICK i : i = (k + 1) + 1
            OBVIOUS
        <3>2. i \in 1..n /\ i # 1 /\ i - 1 = k + 1
            BY <1>1, <3>1
        <3>3. flatten[i] = flatten[i - 1] \o seqs[i]
            BY <1>12, <3>2
        <3>4. flatten[i - 1] \in Q /\ seqs[i] \in Q
            <4>1. flatten[k + 1] \in Q
                OBVIOUS
            <4> HIDE DEF Q, n, T
            <4> QED BY <1>1, <3>2, <4>1
        <3>5. flatten[i - 1] \o seqs[i] \in Q
            BY <3>4
        <3> HIDE DEF Q
        <3> QED BY <3>1, <3>3, <3>5
    <2>3. T \in SUBSET Nat
        OBVIOUS
    <2> HIDE DEF T
    <2> QED BY <2>1, <2>2, <2>3, Induction
<1>14. ASSUME NEW i \in 1..n PROVE flatten[i] \in Q
    <2>1. i - 1 \in Nat /\ (i - 1) + 1 = i /\ i <= n
        BY <1>1
    <2>2. i - 1 \in T
        <3> HIDE DEF T, n
        <3> QED BY <1>13, <2>1
    <2> HIDE DEF Q, n
    <2> QED BY <2>1, <2>2
<1>15. flatten[1] = seqs[1] /\ \A i \in 2..n : flatten[i] = flatten[i - 1] \o seqs[i]
    <2>1. 1 \in 1..n /\ \A i \in 2..n : i \in 1..n /\ i # 1
        BY <1>1, <1>3
    <2> HIDE DEF n
    <2> QED BY <1>12, <2>1
<1>16. FlattenSeq(seqs) = flatten[n]
    BY <1>2, <1>3
<1> HIDE DEF T
<1> QED BY <1>14, <1>15, <1>16 DEF Joins

\* and gives a text of their symbols.
LEMMA FlattenIs ==
    ASSUME NEW S, NEW seqs \in Seq(Seq(S))
    PROVE  FlattenSeq(seqs) \in Seq(S)
<1>1. CASE Len(seqs) = 0
    <2>1. seqs = <<>> /\ FlattenSeq(seqs) = seqs
        BY <1>1 DEF FlattenSeq
    <2>2. <<>> \in Seq(S)
        OBVIOUS
    <2> QED BY <2>1, <2>2, Zenon
<1>2. CASE Len(seqs) # 0
    <2>1. PICK F : Joins(F, S, seqs)
        BY <1>2, FlattenSteps
    <2>2. Len(seqs) \in 1..Len(seqs)
        BY <1>2
    <2> QED BY <2>1, <2>2 DEF Joins
<1> QED BY <1>1, <1>2

\* The symbols that requests are made of.
Symbols ==
    STRING \cup Names \cup Digits \cup {a.method : a \in Asked} \cup
    {"{", "}", ",", ":", " ", "\r", "\n", "POST", "HTTP/1.1", "/api/v1/ingest",
     "Host: gateway", "Content-Length:", "sha", "sig", "key-1", Quote}

\* So do two concatenations.
LEMMA Concat3 ==
    ASSUME NEW S, NEW a \in Seq(S), NEW b \in Seq(S), NEW c \in Seq(S)
    PROVE  a \o b \o c \in Seq(S)
OBVIOUS

\* So do quotes around a value.
LEMMA QuotedIs ==
    ASSUME NEW v \in Seq(Symbols) PROVE Quoted(v) \in Seq(Symbols)
<1>1. <<Quote>> \in Seq(Symbols)
    <2>1. Quote \in Symbols
        BY DEF Symbols
    <2> QED BY <2>1
<1> HIDE DEF Symbols
<1> QED BY <1>1, Concat3 DEF Quoted

\* The values that devices write are made of the symbols,
LEMMA ValuesAre ==
    ASSUME NEW p \in Packets, NEW name \in ToSet(Required) \cup Optional
    PROVE  Value(p, name) \in Seq(Symbols)
<1>1. /\ p.deviceId \in Seq(Symbols) /\ p.telemetryJson \in Seq(Symbols)
      /\ p.transport \in Seq(Symbols) /\ p.batchCode \in Seq(Symbols)
    <2>1. /\ p.deviceId \in Seq(STRING \ Names) /\ p.telemetryJson \in Seq(STRING)
          /\ p.transport \in Seq(STRING \ Names) /\ p.batchCode \in Seq(STRING \ Names)
        BY PacketsAssumption
    <2>2. STRING \subseteq Symbols /\ STRING \ Names \subseteq Symbols
        BY DEF Symbols
    <2> QED BY <2>1, <2>2, SeqMonotonic
<1>2. Decimal[p.timestamp] \in Seq(Symbols)
    <2>1. Decimal[p.timestamp] \in Seq(Digits)
        BY PacketsAssumption, DecimalIsRead
    <2>2. Digits \subseteq Symbols
        BY DEF Symbols
    <2> QED BY <2>1, <2>2, SeqMonotonic
<1>3. <<"sha">> \in Seq(Symbols) /\ <<"sig">> \in Seq(Symbols) /\ <<"key-1">> \in Seq(Symbols)
    BY DEF Symbols
<1>4. name \in {"deviceId", "timestamp", "telemetry", "hash", "signature", "pubKeyId", "transport",
               "batchCode"}
    BY RequiredAre DEF Optional
<1> QED BY <1>1, <1>2, <1>3, <1>4, QuotedIs DEF Value

\* and so are their bodies.
LEMMA BodyIs ==
    ASSUME NEW p \in Packets, NEW order \in Orders
    PROVE  Body(p, order) \in Seq(Symbols)
<1> DEFINE members == [i \in DOMAIN order |-> Member(order[i], Value(p, order[i]))]
           parts == [i \in DOMAIN members |->
                        IF i = 1 THEN members[i] ELSE <<",">> \o members[i]]
<1>1. PICK n \in Nat : DOMAIN order = 1..n
      /\ \A i \in 1..n : order[i] \in ToSet(Required) \cup Optional
    BY OrdersAssumption
<1>2. ASSUME NEW i \in 1..n PROVE Member(order[i], Value(p, order[i])) \in Seq(Symbols)
    <2>1. Value(p, order[i]) \in Seq(Symbols)
        BY <1>1, ValuesAre
    <2>2. order[i] \in Symbols /\ ":" \in Symbols
        BY <1>1 DEF Symbols, Names
    <2>3. <<order[i], ":">> \in Seq(Symbols)
        BY <2>2
    <2> HIDE DEF Symbols
    <2> QED BY <2>1, <2>3 DEF Member
<1>3. DOMAIN members = 1..n /\ \A i \in 1..n : members[i] \in Seq(Symbols)
    BY <1>1, <1>2
<1> HIDE DEF members
<1>4. ASSUME NEW i \in 1..n PROVE <<",">> \o members[i] \in Seq(Symbols)
    <2>1. <<",">> \in Seq(Symbols)
        BY DEF Symbols
    <2>2. members[i] \in Seq(Symbols)
        BY <1>3
    <2> QED BY <2>1, <2>2, ConcatProperties
<1>5. parts \in [1..n -> Seq(Symbols)]
    BY <1>3, <1>4
<1>6. parts \in Seq(Seq(Symbols))
    <2> HIDE DEF parts
    <2> QED BY <1>5, SeqDef
<1>7. FlattenSeq(parts) \in Seq(Symbols)
    <2> HIDE DEF parts
    <2> QED BY <1>6, FlattenIs
<1>8. <<"{">> \in Seq(Symbols) /\ <<"}">> \in Seq(Symbols)
    BY DEF Symbols
<1>9. Body(p, order) = <<"{">> \o FlattenSeq(parts) \o <<"}">>
    BY DEF Body, JsonObject, members
<1> HIDE DEF parts
<1> QED BY <1>7, <1>8, <1>9, Concat3

Sp == " "
Cr == "\r"
Lf == "\n"

\* What separates words and lines.
LEMMA SpacesAre ==
    /\ Crlf = <<Cr, Lf>> /\ Spaces = {Sp, Cr, Lf}
    /\ Cr # Lf /\ Cr # Sp /\ Lf # Sp
    /\ Sp \notin Digits /\ Cr \notin Digits /\ Lf \notin Digits
<1>1. Crlf = <<Cr, Lf>> /\ Spaces = {Sp, Cr, Lf}
    BY Zenon DEF Cr, Lf, Sp, Crlf, Spaces
<1>2. Cr # Lf /\ Cr # Sp /\ Lf # Sp
    BY Zenon DEF Cr, Lf, Sp
<1>3. Sp \notin Digits /\ Cr \notin Digits /\ Lf \notin Digits
    BY Zenon DEF Cr, Lf, Sp, Digits
<1> QED BY <1>1, <1>2, <1>3

\* A concatenation, symbol by symbol.
LEMMA Joined ==
    ASSUME NEW S, NEW a \in Seq(S), NEW b \in Seq(S), NEW c, c = a \o b
    PROVE  /\ c \in Seq(S) /\ Len(c) = Len(a) + Len(b) /\ Len(a) \in Nat /\ Len(b) \in Nat
           /\ \A i \in 1..Len(a) : c[i] = a[i]
           /\ \A i \in 1..Len(b) : c[Len(a) + i] = b[i]
<1>1. /\ c \in Seq(S) /\ Len(c) = Len(a) + Len(b) /\ Len(a) \in Nat /\ Len(b) \in Nat
      /\ \A i \in 1..(Len(a) + Len(b)) : c[i] = IF i <= Len(a) THEN a[i] ELSE b[i - Len(a)]
    BY ConcatProperties
<1>2. ASSUME NEW i \in 1..Len(b) PROVE c[Len(a) + i] = b[i]
    <2>1. PICK j : j = Len(a) + i
        OBVIOUS
    <2>2. j \in 1..(Len(a) + Len(b)) /\ ~(j <= Len(a)) /\ j - Len(a) = i
        BY <1>1, <2>1
    <2> QED BY <1>1, <2>1, <2>2
<1> QED BY <1>1, <1>2

\* The symbols of a request up to its body, x being its header line.
Formed(text, S, m, target, x, body) ==
    /\ text \in Seq(S) /\ target \in Seq(S) /\ x \in Seq(S) /\ body \in Seq(S)
    /\ Len(text) = Len(target) + Len(x) + Len(body) + 10
    /\ text[1] = m /\ text[2] = Sp
    /\ \A i \in 1..Len(target) : text[2 + i] = target[i]
    /\ text[Len(target) + 3] = Sp /\ text[Len(target) + 4] = "HTTP/1.1"
    /\ text[Len(target) + 5] = Cr /\ text[Len(target) + 6] = Lf
    /\ \A i \in 1..Len(x) : text[Len(target) + 6 + i] = x[i]
    /\ text[Len(target) + Len(x) + 7] = Cr /\ text[Len(target) + Len(x) + 8] = Lf
    /\ text[Len(target) + Len(x) + 9] = Cr /\ text[Len(target) + Len(x) + 10] = Lf
    /\ \A i \in 1..Len(body) : text[Len(target) + Len(x) + 10 + i] = body[i]

Written(text, m, target, x, body) ==
    text = <<m, Sp>> \o target \o <<Sp, "HTTP/1.1">> \o Crlf \o x \o Crlf \o Crlf \o body

\* Every request is formed so.
LEMMA RequestFormed ==
    ASSUME NEW S, NEW m \in S, NEW target \in Seq(S), NEW x \in Seq(S), NEW body \in Seq(S),
           {Sp, "HTTP/1.1", Cr, Lf} \subseteq S, NEW text, Written(text, m, target, x, body)
    PROVE  Formed(text, S, m, target, x, body)
<1>1. PICK a, b, c, p, q : /\ a = <<m, Sp>> /\ b = <<Sp, "HTTP/1.1">> /\ c = Crlf
                           /\ p = Len(target) /\ q = Len(x)
    OBVIOUS
<1>2. Sp \in S /\ "HTTP/1.1" \in S /\ Cr \in S /\ Lf \in S /\ p \in Nat /\ q \in Nat
    BY <1>1
<1>3. /\ a \in Seq(S) /\ Len(a) = 2 /\ a[1] = m /\ a[2] = Sp
      /\ b \in Seq(S) /\ Len(b) = 2 /\ b[1] = Sp /\ b[2] = "HTTP/1.1"
      /\ c \in Seq(S) /\ Len(c) = 2 /\ c[1] = Cr /\ c[2] = Lf
    BY <1>1, <1>2, SpacesAre
<1>4. PICK e1, e2, e3, e4, e5, e6 :
        /\ e1 = a \o target /\ e2 = e1 \o b /\ e3 = e2 \o c /\ e4 = e3 \o x
        /\ e5 = e4 \o c /\ e6 = e5 \o c /\ text = e6 \o body
    BY <1>1 DEF Written
<1>5. /\ e1 \in Seq(S) /\ Len(e1) = Len(a) + p
      /\ \A i \in 1..Len(a) : e1[i] = a[i]
      /\ \A i \in 1..p : e1[Len(a) + i] = target[i]
    BY <1>1, <1>3, <1>4, Joined
<1>6. /\ e2 \in Seq(S) /\ Len(e2) = Len(e1) + Len(b)
      /\ \A i \in 1..Len(e1) : e2[i] = e1[i]
      /\ \A i \in 1..Len(b) : e2[Len(e1) + i] = b[i]
    <2>1. e2 = e1 \o b
        BY <1>4
    <2>2. e1 \in Seq(S) /\ b \in Seq(S)
        BY <1>3, <1>5
    <2> QED BY <2>1, <2>2, Joined
<1>7. /\ e3 \in Seq(S) /\ Len(e3) = Len(e2) + Len(c)
      /\ \A i \in 1..Len(e2) : e3[i] = e2[i]
      /\ \A i \in 1..Len(c) : e3[Len(e2) + i] = c[i]
    <2>1. e3 = e2 \o c
        BY <1>4
    <2>2. e2 \in Seq(S) /\ c \in Seq(S)
        BY <1>3, <1>6
    <2> QED BY <2>1, <2>2, Joined
<1>8. /\ e4 \in Seq(S) /\ Len(e4) = Len(e3) + q
      /\ \A i \in 1..Len(e3) : e4[i] = e3[i]
      /\ \A i \in 1..q : e4[Len(e3) + i] = x[i]
    BY <1>1, <1>4, <1>7, Joined
<1>9. /\ e5 \in Seq(S) /\ Len(e5) = Len(e4) + Len(c)
      /\ \A i \in 1..Len(e4) : e5[i] = e4[i]
      /\ \A i \in 1..Len(c) : e5[Len(e4) + i] = c[i]
    <2>1. e5 = e4 \o c
        BY <1>4
    <2>2. e4 \in Seq(S) /\ c \in Seq(S)
        BY <1>3, <1>8
    <2> QED BY <2>1, <2>2, Joined
<1>10. /\ e6 \in Seq(S) /\ Len(e6) = Len(e5) + Len(c)
       /\ \A i \in 1..Len(e5) : e6[i] = e5[i]
       /\ \A i \in 1..Len(c) : e6[Len(e5) + i] = c[i]
    <2>1. e6 = e5 \o c
        BY <1>4
    <2>2. e5 \in Seq(S) /\ c \in Seq(S)
        BY <1>3, <1>9
    <2> QED BY <2>1, <2>2, Joined
<1>11. /\ text \in Seq(S) /\ Len(text) = Len(e6) + Len(body) /\ Len(body) \in Nat
       /\ \A i \in 1..Len(e6) : text[i] = e6[i]
       /\ \A i \in 1..Len(body) : text[Len(e6) + i] = body[i]
    <2>1. text = e6 \o body
        BY <1>4
    <2>2. e6 \in Seq(S)
        BY <1>10
    <2> QED BY <2>1, <2>2, Joined
<1>12. /\ Len(e1) = p + 2 /\ Len(e2) = p + 4 /\ Len(e3) = p + 6 /\ Len(e4) = p + q + 6
       /\ Len(e5) = p + q + 8 /\ Len(e6) = p + q + 10
    BY <1>2, <1>3, <1>5, <1>6, <1>7, <1>8, <1>9, <1>10
<1>13. ASSUME NEW i \in 1..(p + 6) PROVE text[i] = e3[i]
    <2>1. i \in 1..Len(e3) /\ i \in 1..Len(e4) /\ i \in 1..Len(e5) /\ i \in 1..Len(e6)
        BY <1>2, <1>12
    <2> QED BY <1>8, <1>9, <1>10, <1>11, <2>1
<1>14. ASSUME NEW i \in 1..(p + 2) PROVE text[i] = e1[i]
    <2>1. i \in 1..Len(e1) /\ i \in 1..Len(e2) /\ i \in 1..(p + 6)
        BY <1>2, <1>12
    <2> QED BY <1>6, <1>7, <1>13, <2>1
<1>15. text[1] = m /\ text[2] = Sp
    <2>1. 1 \in 1..(p + 2) /\ 2 \in 1..(p + 2) /\ 1 \in 1..Len(a) /\ 2 \in 1..Len(a)
        BY <1>3, <1>2, <1>12
    <2> QED BY <1>3, <1>5, <1>14, <2>1
<1>16. ASSUME NEW i \in 1..p PROVE text[2 + i] = target[i]
    <2>1. 2 + i \in 1..(p + 2)
        BY <1>2, <1>12
    <2>2. e1[2 + i] = target[i]
        BY <1>3, <1>5
    <2> QED BY <1>14, <2>1, <2>2
<1>17. text[p + 3] = Sp /\ text[p + 4] = "HTTP/1.1"
    <2>1. e2[p + 3] = Sp /\ e2[p + 4] = "HTTP/1.1"
        <3>1. 1 \in 1..Len(b) /\ 2 \in 1..Len(b) /\ Len(e1) + 1 = p + 3 /\ Len(e1) + 2 = p + 4
            BY <1>3, <1>2, <1>12
        <3>2. e2[Len(e1) + 1] = b[1] /\ e2[Len(e1) + 2] = b[2]
            BY <1>6, <3>1
        <3> QED BY <1>3, <3>1, <3>2
    <2>2. /\ p + 3 \in 1..(p + 6) /\ p + 4 \in 1..(p + 6)
          /\ p + 3 \in 1..Len(e2) /\ p + 4 \in 1..Len(e2)
        BY <1>2, <1>12
    <2> QED BY <1>7, <1>13, <2>1, <2>2
<1>18. text[p + 5] = Cr /\ text[p + 6] = Lf
    <2>1. 1 \in 1..Len(c) /\ 2 \in 1..Len(c) /\ Len(e2) + 1 = p + 5 /\ Len(e2) + 2 = p + 6
        BY <1>3, <1>2, <1>12
    <2>2. e3[Len(e2) + 1] = c[1] /\ e3[Len(e2) + 2] = c[2]
        BY <1>7, <2>1
    <2>3. p + 5 \in 1..(p + 6) /\ p + 6 \in 1..(p + 6)
        BY <1>2, <1>12
    <2>4. text[p + 5] = e3[p + 5] /\ text[p + 6] = e3[p + 6]
        BY <1>13, <2>3
    <2> QED BY <1>3, <2>1, <2>2, <2>4
<1>19. ASSUME NEW i \in 1..q PROVE text[p + 6 + i] = x[i]
    <2>1. PICK j : j = p + 6 + i
        OBVIOUS
    <2>2. j \in 1..Len(e4) /\ j \in 1..Len(e5) /\ j \in 1..Len(e6) /\ j = Len(e3) + i
        BY <1>2, <1>12, <2>1
    <2>3. e4[j] = x[i]
        BY <1>8, <2>2
    <2> QED BY <1>9, <1>10, <1>11, <2>1, <2>2, <2>3
<1>20. text[p + q + 7] = Cr /\ text[p + q + 8] = Lf
    <2>1. 1 \in 1..Len(c) /\ 2 \in 1..Len(c)
          /\ Len(e4) + 1 = p + q + 7 /\ Len(e4) + 2 = p + q + 8
        BY <1>3, <1>2, <1>12
    <2>2. e5[Len(e4) + 1] = c[1] /\ e5[Len(e4) + 2] = c[2]
        BY <1>9, <2>1
    <2>3. /\ p + q + 7 \in 1..Len(e5) /\ p + q + 8 \in 1..Len(e5)
          /\ p + q + 7 \in 1..Len(e6) /\ p + q + 8 \in 1..Len(e6)
        BY <1>2, <1>12
    <2> QED BY <1>3, <1>10, <1>11, <2>1, <2>2, <2>3
<1>21. text[p + q + 9] = Cr /\ text[p + q + 10] = Lf
    <2>1. 1 \in 1..Len(c) /\ 2 \in 1..Len(c)
          /\ Len(e5) + 1 = p + q + 9 /\ Len(e5) + 2 = p + q + 10
        BY <1>3, <1>2, <1>12
    <2>2. e6[Len(e5) + 1] = c[1] /\ e6[Len(e5) + 2] = c[2]
        BY <1>10, <2>1
    <2>3. p + q + 9 \in 1..Len(e6) /\ p + q + 10 \in 1..Len(e6)
        BY <1>2, <1>12
    <2> QED BY <1>3, <1>11, <2>1, <2>2, <2>3
<1>22. Len(text) = p + q + Len(body) + 10
    BY <1>11, <1>2, <1>12
<1>23. \A i \in 1..Len(body) : text[p + q + 10 + i] = body[i]
    BY ONLY <1>11, <1>12
<1> QED BY <1>1, <1>2, <1>11, <1>15, <1>16, <1>17, <1>18, <1>19, <1>20, <1>21, <1>22, <1>23
        DEF Formed

-----------------------------------------------------------------------------
(* Where the head of a request ends *)

Blank(t, i) == t[i] = Cr /\ t[i + 1] = Lf /\ t[i + 2] = Cr /\ t[i + 3] = Lf

\* A part is the blank line when its four symbols are.
LEMMA BlankIs ==
    ASSUME NEW t, NEW i \in Nat
    PROVE  SubSeq(t, i, i + 3) = Crlf \o Crlf <=> Blank(t, i)
<1> DEFINE n == i + 3
<1>1. PICK u, c : u = SubSeq(t, i, n) /\ c = Crlf \o Crlf
    OBVIOUS
<1>3. n \in Nat /\ i <= n /\ n - i + 1 = 4
    OBVIOUS
<1> HIDE DEF n
<1>4. IsText(u) /\ Len(u) = 4 /\ \A j \in 1..Len(u) : u[j] = t[i + j - 1]
    <2>1. u = SubSeq(t, i, n)
        BY <1>1
    <2>2. IsText(u)
        BY <1>3, <2>1, TextOfPart
    <2>4. \A j \in 1..Len(u) : u[j] = t[i + j - 1]
        BY <1>3, <2>1, TextOfPart
    <2>3. Len(u) = n - i + 1
        BY <1>3, <2>1, TextOfPart
    <2> QED BY <1>3, <2>2, <2>3, <2>4
<1>5. u[1] = t[i] /\ u[2] = t[i + 1] /\ u[3] = t[i + 2] /\ u[4] = t[i + 3]
    <2>1. i + 1 - 1 = i /\ i + 2 - 1 = i + 1 /\ i + 3 - 1 = i + 2 /\ i + 4 - 1 = i + 3
        OBVIOUS
    <2>2. u[1] = t[i + 1 - 1] /\ u[2] = t[i + 2 - 1] /\ u[3] = t[i + 3 - 1] /\ u[4] = t[i + 4 - 1]
        BY <1>4
    <2> QED BY <2>1, <2>2
<1>6. /\ c[1] = Cr /\ c[2] = Lf /\ c[3] = Cr /\ c[4] = Lf
      /\ Len(c) = 4 /\ c \in Seq({Cr, Lf})
    <2>1. PICK a : a = Crlf
        OBVIOUS
    <2>2. a \in Seq({Cr, Lf}) /\ Len(a) = 2 /\ a[1] = Cr /\ a[2] = Lf
        BY <2>1, SpacesAre
    <2>3. c = a \o a
        BY <1>1, <2>1
    <2>4. /\ c \in Seq({Cr, Lf}) /\ Len(c) = Len(a) + Len(a)
          /\ \A j \in 1..Len(a) : c[j] = a[j]
          /\ \A j \in 1..Len(a) : c[Len(a) + j] = a[j]
        <3> DEFINE S == {Cr, Lf}
        <3>1. a \in Seq(S)
            BY <2>2
        <3> HIDE DEF S
        <3>2. /\ c \in Seq(S) /\ Len(c) = Len(a) + Len(a)
              /\ \A j \in 1..Len(a) : c[j] = a[j]
              /\ \A j \in 1..Len(a) : c[Len(a) + j] = a[j]
            BY <2>3, <3>1, Joined
        <3> QED BY <3>2 DEF S
    <2>5. 1 \in 1..Len(a) /\ 2 \in 1..Len(a) /\ Len(a) + 1 = 3 /\ Len(a) + 2 = 4
        BY <2>2
    <2>6. c[1] = a[1] /\ c[2] = a[2] /\ c[Len(a) + 1] = a[1] /\ c[Len(a) + 2] = a[2]
        BY <2>4, <2>5
    <2> QED BY <2>2, <2>4, <2>5, <2>6
<1>7. u = c => Blank(t, i)
    BY <1>5, <1>6 DEF Blank
<1>8. ASSUME Blank(t, i) PROVE u = c
    <2>1. u[1] = c[1] /\ u[2] = c[2] /\ u[3] = c[3] /\ u[4] = c[4]
        BY <1>5, <1>6, <1>8 DEF Blank
    <2>2. PICK S : u \in Seq(S)
        BY <1>4 DEF IsText
    <2> DEFINE R == S \cup {Cr, Lf}
    <2>3. u \in Seq(R)
        BY <2>2
    <2>4. c \in Seq(R)
        BY <1>6, SeqMonotonic
    <2>5. \A j \in 1..4 : u[j] = c[j]
        <3>1. \A j \in 1..4 : j = 1 \/ j = 2 \/ j = 3 \/ j = 4
            OBVIOUS
        <3> QED BY <2>1, <3>1
    <2> HIDE DEF R
    <2> QED BY <1>4, <1>6, <2>3, <2>4, <2>5, SeqEqual
<1> QED BY <1>1, <1>7, <1>8 DEF n

\* What the first n symbols of a text are.
LEMMA PrefixIs ==
    ASSUME NEW S, NEW text \in Seq(S), NEW n \in 0..Len(text), NEW raw, raw = SubSeq(text, 1, n)
    PROVE  IsText(raw) /\ Len(raw) = n /\ \A i \in 1..n : raw[i] = text[i]
<1>1. n \in Nat
    OBVIOUS
<1> DEFINE one == 1
<1>2. one \in Nat /\ raw = SubSeq(text, one, n)
    OBVIOUS
<1>3. IsText(raw) /\ \A i \in 1..Len(raw) : raw[i] = text[one + i - 1]
    <2> HIDE DEF one
    <2>1. IsText(raw)
        BY <1>1, <1>2, TextOfPart
    <2>2. \A i \in 1..Len(raw) : raw[i] = text[one + i - 1]
        BY <1>1, <1>2, TextOfPart
    <2> QED BY <2>1, <2>2
<1>4. Len(raw) = n
    <2>1. CASE n = 0
        BY <2>1
    <2>2. CASE n # 0
        <3>1. one <= n /\ n - one + 1 = n
            BY <1>1, <2>2
        <3> HIDE DEF one
        <3>2. Len(raw) = n - one + 1
            BY <1>1, <1>2, <3>1, TextOfPart
        <3> QED BY <3>1, <3>2
    <2> QED BY <2>1, <2>2
<1>5. \A i \in 1..n : one + i - 1 = i
    OBVIOUS
<1> HIDE DEF one
<1> QED BY <1>3, <1>4, <1>5

\* A header line that is no end of a line itself.
Line(t) == \A i \in 1..Len(t) : t[i] # Cr

Cut(raw, text, n) == n \in 0..Len(text) /\ raw = SubSeq(text, 1, n)

\* h is the place of the blank line.
HeadIs(h, target, x) == h = Len(target) + Len(x) + 7

\* The head of a request ends where it was written to, once it has been read.
LEMMA HeadEnds ==
    ASSUME NEW S, NEW text, NEW m, NEW target, NEW x, NEW body,
           Formed(text, S, m, target, x, body), m # Cr, Line(target), Line(x), Len(x) # 0,
           NEW n, NEW raw, Cut(raw, text, n), NEW h, HeadIs(h, target, x)
    PROVE  HeaderEnd(raw) = IF n < h + 3 THEN 0 ELSE h
<1>1. PICK p, q : p = Len(target) /\ q = Len(x)
    OBVIOUS
<1>2. p \in Nat /\ q \in Nat /\ q # 0 /\ h = p + q + 7 /\ text \in Seq(S)
      /\ n \in 0..Len(text) /\ raw = SubSeq(text, 1, n)
    BY <1>1 DEF Formed, HeadIs, Cut
<1>3. /\ text[1] = m /\ text[2] = Sp
      /\ \A i \in 1..p : text[2 + i] = target[i]
      /\ text[p + 3] = Sp /\ text[p + 4] = "HTTP/1.1" /\ text[p + 5] = Cr /\ text[p + 6] = Lf
      /\ \A i \in 1..q : text[p + 6 + i] = x[i]
      /\ text[p + q + 7] = Cr /\ text[p + q + 8] = Lf
      /\ text[p + q + 9] = Cr /\ text[p + q + 10] = Lf
    BY <1>1 DEF Formed
<1>4. ASSUME NEW i \in 1..(h - 1), Blank(text, i) PROVE FALSE
    <2>1. text[i] = Cr /\ text[i + 2] = Cr
        BY <1>4 DEF Blank
    <2>2. CASE i = 1 \/ i = 2 \/ i = p + 3 \/ i = p + 4 \/ i = p + 6
        <3>1. Cr # "HTTP/1.1"
            BY Zenon DEF Cr
        <3> QED BY <1>3, <2>1, <2>2, <3>1, SpacesAre
    <2>3. CASE i \in 3..(p + 2)
        <3>1. PICK j : j = i - 2
            OBVIOUS
        <3>2. j \in 1..p /\ i = 2 + j
            BY <1>2, <2>3, <3>1
        <3> QED BY <1>1, <1>3, <2>1, <3>2 DEF Line
    <2>4. CASE i = p + 5
        <3>1. 1 \in 1..q /\ p + 6 + 1 = i + 2
            BY <1>2, <2>4
        <3>2. text[i + 2] = x[1]
            BY <1>3, <3>1
        <3> QED BY <1>1, <2>1, <3>1, <3>2 DEF Line
    <2>5. CASE i \in (p + 7)..(p + q + 6)
        <3>1. PICK j : j = i - p - 6
            OBVIOUS
        <3>2. j \in 1..q /\ i = p + 6 + j
            BY <1>2, <2>5, <3>1
        <3> QED BY <1>1, <1>3, <2>1, <3>2 DEF Line
    <2> QED BY <1>2, <2>2, <2>3, <2>4, <2>5
<1>5. Blank(text, h)
    <2>1. h = p + q + 7 /\ h + 1 = p + q + 8 /\ h + 2 = p + q + 9 /\ h + 3 = p + q + 10
        BY <1>2
    <2> QED BY <1>3, <2>1 DEF Blank
<1>6. Len(raw) = n /\ n \in Nat /\ \A i \in 1..n : raw[i] = text[i]
    <2>1. Len(raw) = n /\ \A i \in 1..n : raw[i] = text[i]
        BY <1>2, PrefixIs
    <2>2. n \in Nat
        BY <1>2
    <2> QED BY <2>1, <2>2
<1>7. ASSUME NEW i \in 1..(n - 3)
      PROVE  SubSeq(raw, i, i + 3) = Crlf \o Crlf <=> Blank(text, i)
    <2>1. i \in 1..n /\ i + 1 \in 1..n /\ i + 2 \in 1..n /\ i + 3 \in 1..n /\ i \in Nat
        BY <1>6
    <2>2. raw[i] = text[i] /\ raw[i + 1] = text[i + 1] /\ raw[i + 2] = text[i + 2]
          /\ raw[i + 3] = text[i + 3]
        BY <1>6, <2>1
    <2>3. Blank(raw, i) <=> Blank(text, i)
        BY <2>2 DEF Blank
    <2>4. SubSeq(raw, i, i + 3) = Crlf \o Crlf <=> Blank(raw, i)
        BY <2>1, BlankIs
    <2> QED BY <2>3, <2>4
<1>8. PICK k : k = HeaderEnd(raw)
    OBVIOUS
<1>9. /\ k \in Nat /\ (k # 0 => k \in 1..(n - 3))
      /\ k # 0 => SubSeq(raw, k, k + 3) = Crlf \o Crlf
      /\ \A i \in 1..(n - 3) : SubSeq(raw, i, i + 3) = Crlf \o Crlf => k # 0 /\ k <= i
    <2>1. Len(raw) \in Nat
        BY <1>6
    <2>2. /\ k \in Nat /\ (k # 0 => k \in 1..(Len(raw) - 3))
          /\ k # 0 => SubSeq(raw, k, k + 3) = Crlf \o Crlf
          /\ \A i \in 1..(Len(raw) - 3) :
                SubSeq(raw, i, i + 3) = Crlf \o Crlf => k # 0 /\ k <= i
        BY <1>8, <2>1, HeaderEndIs
    <2> QED BY <1>6, <2>2
<1>10. k # 0 => k \in 1..(n - 3) /\ Blank(text, k)
    BY <1>7, <1>9
<1>11. k # 0 => k >= h
    BY <1>2, <1>4, <1>9, <1>10
<1>12. CASE n < h + 3
    <2>1. k = 0
        BY <1>2, <1>6, <1>9, <1>11, <1>12
    <2> QED BY <1>8, <1>12, <2>1
<1>13. CASE ~(n < h + 3)
    <2>1. h \in 1..(n - 3)
        BY <1>2, <1>6, <1>13
    <2>2. SubSeq(raw, h, h + 3) = Crlf \o Crlf
        BY <1>5, <1>7, <2>1
    <2>3. k # 0 /\ k <= h
        BY <1>9, <2>1, <2>2
    <2>4. k = h
        BY <1>2, <1>9, <1>11, <2>3
    <2> QED BY <1>8, <1>13, <2>4
<1> QED BY <1>12, <1>13

-----------------------------------------------------------------------------
(* The length that a request declares *)

ContentLength == "Content-Length:"

\* The name of the header is no other symbol.
LEMMA ContentLengthApart ==
    ContentLength \notin Digits /\ ContentLength # Sp /\ ContentLength # Cr /\ ContentLength # Lf
    /\ ContentLength # "HTTP/1.1" /\ ContentLength # "Host: gateway"
<1>1. ContentLength \notin Digits
    BY Zenon DEF ContentLength, Digits
<1> QED BY <1>1, Zenon DEF ContentLength, Sp, Cr, Lf

\* Where header lines have a length.
Lengthy(headers) ==
    {i \in DOMAIN headers : headers[i] = ContentLength
                            /\ IsDigit(At(headers, SkipSpaces(headers, i + 1)))}

\* A length is read where the first line with one has its digits; one that
\* does not fit means 0 (http_server.cpp:65-76).
LEMMA LengthParsed ==
    ASSUME NEW headers, IsText(headers),
           NEW begin, begin = SkipSpaces(headers, Min(Lengthy(headers)) + 1)
    PROVE  /\ Lengthy(headers) = {} => ParseContentLength(headers) = 0
           /\ Lengthy(headers) # {} =>
                /\ Min(Lengthy(headers)) \in Lengthy(headers)
                /\ begin \in 1..Len(headers) /\ NumberOf(DigitsAt(headers, begin)) \in Nat
                /\ ParseContentLength(headers) =
                      LET n == NumberOf(DigitsAt(headers, begin)) IN IF n < Word THEN n ELSE 0
<1> DEFINE found == Lengthy(headers)
<1>1. ParseContentLength(headers) =
        IF found = {} THEN 0 ELSE ValueOr(ParseUnsigned(DigitsAt(headers, begin)), 0)
    BY DEF ParseContentLength, Lengthy, ContentLength
<1>2. Len(headers) \in Nat /\ DOMAIN headers = 1..Len(headers)
    BY TextLength
<1>3. found \in SUBSET Nat
    BY <1>2 DEF Lengthy
<1> HIDE DEF found
<1>4. ASSUME found # {}
      PROVE  /\ Min(found) \in found
             /\ begin \in 1..Len(headers) /\ NumberOf(DigitsAt(headers, begin)) \in Nat
    <2>1. Min(found) \in found /\ Min(found) \in Nat
        BY <1>3, <1>4, LeastIs
    <2>2. Min(found) + 1 \in Nat /\ begin = SkipSpaces(headers, Min(found) + 1)
        BY <2>1 DEF found
    <2>3. begin \in Nat
        BY <1>2, <2>2, SpacesEnd
    <2>4. IsDigit(At(headers, begin))
        BY <2>1, <2>2 DEF found, Lengthy
    <2> QED BY <2>1, <2>3, <2>4, NumberAt
<1>5. ASSUME found # {}
      PROVE  ParseContentLength(headers) =
                LET n == NumberOf(DigitsAt(headers, begin)) IN IF n < Word THEN n ELSE 0
    <2>1. PICK n : n = NumberOf(DigitsAt(headers, begin))
        OBVIOUS
    <2>2. n \in Nat
        BY <1>4, <1>5, <2>1
    <2>3. n # None
        BY <2>2, WordAssumption
    <2>4. ParseUnsigned(DigitsAt(headers, begin)) = IF n < Word THEN n ELSE None
        BY <2>1 DEF ParseUnsigned
    <2>5. ValueOr(ParseUnsigned(DigitsAt(headers, begin)), 0) = IF n < Word THEN n ELSE 0
        BY <2>3, <2>4 DEF ValueOr
    <2> QED BY <1>1, <1>5, <2>1, <2>5
<1>6. found = {} => ParseContentLength(headers) = 0
    BY <1>1
<1> QED BY <1>4, <1>5, <1>6 DEF found

\* So a length is always read,
LEMMA LengthNat ==
    ASSUME NEW headers, IsText(headers) PROVE ParseContentLength(headers) \in Nat
<1>1. PICK begin : begin = SkipSpaces(headers, Min(Lengthy(headers)) + 1)
    OBVIOUS
<1>2. CASE Lengthy(headers) = {}
    BY <1>1, <1>2, LengthParsed
<1>3. CASE Lengthy(headers) # {}
    <2>1. PICK n : n = NumberOf(DigitsAt(headers, begin))
        OBVIOUS
    <2>2. n \in Nat /\ ParseContentLength(headers) = IF n < Word THEN n ELSE 0
        BY <1>1, <1>3, <2>1, LengthParsed
    <2> QED BY <2>2
<1> QED BY <1>2, <1>3

\* and is 0 without the header.
LEMMA NoLength ==
    ASSUME NEW headers, IsText(headers), \A i \in 1..Len(headers) : headers[i] # ContentLength
    PROVE  ParseContentLength(headers) = 0
<1>1. Lengthy(headers) = {}
    BY TextLength DEF Lengthy
<1> QED BY <1>1, LengthParsed

\* The one line with a length is at k, and its digits d end the headers or the
\* line.
Tells(headers, k, d) ==
    /\ k + 1 + Len(d) <= Len(headers)
    /\ \A i \in 1..(k - 1) : headers[i] # ContentLength
    /\ headers[k] = ContentLength /\ headers[k + 1] = Sp
    /\ \A i \in 1..Len(d) : headers[k + 1 + i] = d[i]
    /\ \A i \in (k + 2 + Len(d))..Len(headers) : headers[i] # ContentLength
    /\ k + 1 + Len(d) < Len(headers) => headers[k + 2 + Len(d)] \notin Digits

\* A length that was written is read.
LEMMA LengthRead ==
    ASSUME NEW headers, IsText(headers), NEW l \in Nat, NEW d, d = Decimal[l],
           NEW k \in Nat \ {0}, Tells(headers, k, d)
    PROVE  ParseContentLength(headers) = IF l < Word THEN l ELSE 0
<1>1. d \in Seq(Digits) /\ Len(d) >= 1 /\ NumberOf(d) = l /\ Len(d) \in Nat
    BY DecimalIsRead
<1>2. Len(headers) \in Nat /\ DOMAIN headers = 1..Len(headers) /\ k + 1 + Len(d) <= Len(headers)
    BY TextLength DEF Tells
<1> DEFINE L == Len(headers)
           D == Len(d)
           E == k + 1 + D
<1>11. L \in Nat /\ D \in Nat /\ D >= 1 /\ k + 1 + D <= L
    BY <1>1, <1>2
<1>0. L \in Nat /\ D \in Nat /\ D >= 1 /\ E = k + 1 + D /\ E \in Nat /\ E <= L
    <2> HIDE DEF L, D
    <2> QED BY <1>11
<1>10. /\ \A i \in (E + 1)..L : headers[i] # ContentLength
       /\ E < L => headers[E + 1] \notin Digits
    <2>1. k + 2 + D = E + 1 /\ k + 1 + D = E
        <3> HIDE DEF D
        <3> QED BY <1>11
    <2>2. /\ \A i \in (k + 2 + D)..L : headers[i] # ContentLength
          /\ k + 1 + D < L => headers[k + 2 + D] \notin Digits
        BY DEF Tells
    <2> HIDE DEF L, D, E
    <2> QED BY <2>1, <2>2
<1> HIDE DEF L, D, E
<1>3. \A i \in (k + 2)..E : headers[i] \in Digits
    <2> TAKE i \in (k + 2)..E
    <2>1. PICK j : j = i - k - 1
        OBVIOUS
    <2>2. j \in 1..D /\ i = k + 1 + j
        BY <1>0, <2>1
    <2>3. headers[i] = d[j] /\ d[j] \in Digits
        BY <1>1, <2>2 DEF Tells, D
    <2> QED BY <2>3
<1>4. k + 2 \in 1..L /\ k + 1 \in 1..L /\ k \in 1..L /\ k + 2 \in (k + 2)..E
    BY <1>0
<1>5. SkipSpaces(headers, k + 1) = k + 2
    <2> DEFINE I == {i \in (k + 1)..L : ~(headers[i] \in Spaces)}
    <2>1. SkipSpaces(headers, k + 1) = LET i == IF I # {} THEN Min(I) ELSE 0
                                       IN  IF i = 0 THEN L + 1 ELSE i
        BY DEF SkipSpaces, PastAll, SelectInSubSeq, L
    <2>2. headers[k + 1] \in Spaces /\ headers[k + 2] \notin Spaces
        <3>1. headers[k + 2] \in Digits
            BY <1>3, <1>4
        <3> QED BY <3>1, SpacesAre DEF Tells
    <2>3. k + 2 \in I /\ I \in SUBSET Nat /\ k + 1 \notin I /\ \A i \in I : i >= k + 1
        BY <1>4, <2>2
    <2> HIDE DEF I
    <2>4. Min(I) \in I /\ \A i \in I : Min(I) <= i
        BY <2>3, LeastIs
    <2>5. Min(I) = k + 2
        <3>1. PICK i : i = Min(I)
            OBVIOUS
        <3>2. i \in Nat /\ i # k + 1 /\ i >= k + 1 /\ i <= k + 2
            BY <2>3, <2>4, <3>1
        <3> QED BY <3>1, <3>2
    <2>6. I # {} /\ Min(I) # 0
        BY <2>3, <2>5
    <2> QED BY <2>1, <2>5, <2>6
<1>6. Lengthy(headers) = {k}
    <2>1. At(headers, k + 2) = headers[k + 2]
        BY <1>2, <1>4 DEF At, L
    <2>2. IsDigit(headers[k + 2])
        <3>1. headers[k + 2] \in Digits
            BY <1>3, <1>4
        <3> QED BY <3>1, DigitValues
    <2>3. k \in Lengthy(headers)
        BY <1>2, <1>4, <1>5, <2>1, <2>2 DEF Lengthy, Tells, L
    <2>4. ASSUME NEW i \in Lengthy(headers) PROVE i = k
        <3>1. i \in 1..L /\ headers[i] = ContentLength
            BY <1>2 DEF Lengthy, L
        <3>2. i \notin (k + 2)..E /\ i \notin (E + 1)..L
            BY <1>3, <1>10, <3>1, ContentLengthApart
        <3>3. i # k + 1
            BY <3>1, ContentLengthApart DEF Tells
        <3>4. i \notin 1..(k - 1)
            BY <3>1 DEF Tells
        <3> QED BY <1>0, <3>1, <3>2, <3>3, <3>4
    <2> QED BY <2>3, <2>4
<1> DEFINE begin == k + 2
<1>7. begin = SkipSpaces(headers, Min(Lengthy(headers)) + 1)
    <2>1. Min(Lengthy(headers)) \in Lengthy(headers)
        <3>1. Lengthy(headers) \in SUBSET Nat /\ Lengthy(headers) # {}
            BY <1>6
        <3> QED BY <3>1, LeastIs
    <2>2. Min(Lengthy(headers)) = k
        BY <1>6, <2>1
    <2> QED BY <1>5, <2>2
<1>8. DigitsAt(headers, begin) = d
    <2>1. PICK e, n : e = PastAll(headers, begin, IsDigit) /\ n = e - 1
        OBVIOUS
    <2>2. e = E + 1
        <3> DEFINE I == {i \in begin..L : ~IsDigit(headers[i])}
        <3>1. e = LET i == IF I # {} THEN Min(I) ELSE 0 IN IF i = 0 THEN L + 1 ELSE i
            BY <2>1 DEF PastAll, SelectInSubSeq, L
        <3>2. I \in SUBSET Nat /\ I \subseteq (E + 1)..L
            BY <1>0, <1>3, DigitValues
        <3>3. CASE E = L
            <4>1. I = {}
                BY <1>0, <3>2, <3>3
            <4> HIDE DEF I
            <4> QED BY <3>1, <3>3, <4>1
        <3>4. CASE E # L
            <4>1. E + 1 \in I
                BY <1>0, <1>4, <1>10, <3>4, DigitValues
            <4> HIDE DEF I
            <4>2. Min(I) \in I /\ Min(I) <= E + 1
                BY <3>2, <4>1, LeastIs
            <4>3. Min(I) = E + 1 /\ Min(I) # 0
                <5>1. PICK i : i = Min(I)
                    OBVIOUS
                <5>2. i \in (E + 1)..L /\ i <= E + 1
                    BY <3>2, <4>2, <5>1
                <5>3. i = E + 1 /\ i # 0
                    BY <1>0, <5>2
                <5> QED BY <5>1, <5>3
            <4> QED BY <3>1, <4>1, <4>3
        <3> HIDE DEF I
        <3> QED BY <3>3, <3>4
    <2>3. n \in Nat /\ begin \in Nat /\ begin <= n /\ n - begin + 1 = D
        BY <1>0, <2>1, <2>2
    <2> HIDE DEF begin
    <2>4. PICK u : u = SubSeq(headers, begin, n)
        OBVIOUS
    <2>5. IsText(u)
        BY <2>3, <2>4, TextOfPart
    <2>6. Len(u) = n - begin + 1
        BY <2>3, <2>4, TextOfPart
    <2>7. \A i \in 1..Len(u) : u[i] = headers[begin + i - 1]
        BY <2>3, <2>4, TextOfPart
    <2>8. \A i \in 1..D : u[i] = d[i]
        <3> TAKE i \in 1..D
        <3>1. begin + i - 1 = k + 1 + i /\ i \in 1..Len(u)
            BY <2>3, <2>6 DEF begin
        <3> QED BY <2>7, <3>1 DEF Tells, D
    <2>9. PICK S : u \in Seq(S)
        BY <2>5 DEF IsText
    <2> DEFINE R == S \cup Digits
    <2>10. u \in Seq(R) /\ d \in Seq(R)
        BY <1>1, <2>9, SeqMonotonic
    <2> HIDE DEF R
    <2>11. u = d
        BY <2>3, <2>6, <2>8, <2>10, SeqEqual DEF D
    <2> QED BY <2>1, <2>4, <2>11 DEF DigitsAt
<1> HIDE DEF begin
<1>9. ParseContentLength(headers) =
        LET n == NumberOf(DigitsAt(headers, begin)) IN IF n < Word THEN n ELSE 0
    BY <1>6, <1>7, LengthParsed
<1> QED BY <1>1, <1>8, <1>9

Host == "Host: gateway"

HeaderLine(length, body) ==
    IF length = None THEN <<Host>>
    ELSE <<ContentLength, Sp>> \o Decimal[Len(body) + length]

\* RequestText writes a head of one header line.
LEMMA RequestWritten ==
    ASSUME NEW m, NEW target, NEW length, NEW body
    PROVE  Written(RequestText(m, target, length, body), m, target, HeaderLine(length, body), body)
BY Zenon DEF Written, RequestText, HeaderLine, Host, Sp, ContentLength

\* The first line of the other requests is one line.
LEMMA AskedAre ==
    ASSUME NEW a \in Asked
    PROVE  /\ a.target \in Seq(STRING) /\ a.method # Cr /\ a.method # ContentLength
           /\ \A s \in ToSet(a.target) : s # Cr /\ s # ContentLength
<1>1. a.target \in Seq(STRING) /\ {Cr, ContentLength} \cap ({a.method} \cup ToSet(a.target)) = {}
    BY AskedAssumption, Zenon DEF Cr, ContentLength
<1>2. /\ a.method # Cr /\ a.method # ContentLength
      /\ \A s \in ToSet(a.target) : s # Cr /\ s # ContentLength
    BY <1>1
<1> QED BY <1>1, <1>2

\* What requests are written with are symbols.
LEMMA SymbolsAre ==
    /\ {Sp, "HTTP/1.1", Cr, Lf} \subseteq Symbols /\ Sp \in Symbols
    /\ ContentLength \in Symbols /\ Host \in Symbols
    /\ "POST" \in Symbols /\ "/api/v1/ingest" \in Symbols
    /\ Digits \subseteq Symbols /\ STRING \subseteq Symbols
    /\ \A a \in Asked : a.method \in Symbols
<1>1. Sp \in Symbols /\ Cr \in Symbols /\ Lf \in Symbols
    BY Zenon DEF Symbols, Sp, Cr, Lf
<1>2. ContentLength \in Symbols /\ "HTTP/1.1" \in Symbols /\ Host \in Symbols
      /\ "POST" \in Symbols /\ "/api/v1/ingest" \in Symbols
    BY Zenon DEF Symbols, ContentLength, Host
<1>3. Digits \subseteq Symbols /\ STRING \subseteq Symbols /\ \A a \in Asked : a.method \in Symbols
    BY Zenon DEF Symbols
<1> QED BY <1>1, <1>2, <1>3

\* A header line names the length or nothing that is like it.
LEMMA HeaderLineIs ==
    ASSUME NEW length, NEW body, length # None => Len(body) + length \in Nat,
           NEW x, x = HeaderLine(length, body), NEW d, d = Decimal[Len(body) + length]
    PROVE  /\ x \in Seq(Symbols) /\ Line(x) /\ Len(x) # 0
           /\ length = None => Len(x) = 1 /\ x[1] = Host
           /\ length # None => /\ Len(x) = 2 + Len(d) /\ x[1] = ContentLength /\ x[2] = Sp
                               /\ \A i \in 1..Len(d) : x[2 + i] = d[i]
<1>1. CASE length = None
    <2>1. PICK s : s = Host
        OBVIOUS
    <2>2. s # Cr
        BY <2>1, Zenon DEF Cr, Host
    <2>3. x = <<s>> /\ s \in Symbols
        BY <1>1, <2>1, SymbolsAre DEF HeaderLine
    <2>4. x \in Seq(Symbols) /\ Len(x) = 1 /\ x[1] = s
        BY <2>3
    <2>5. Line(x)
        BY <2>2, <2>4 DEF Line
    <2>6. Len(x) # 0 /\ x[1] = Host
        BY <2>1, <2>4
    <2> QED BY <1>1, <2>4, <2>5, <2>6
<1>2. CASE length # None
    <2>1. PICK a : a = <<ContentLength, Sp>>
        OBVIOUS
    <2>2. d \in Seq(Digits) /\ Len(d) \in Nat
        BY <1>2, <2>1, DecimalIsRead
    <2>3. /\ a \in Seq(Symbols) /\ Len(a) = 2 /\ a[1] = ContentLength /\ a[2] = Sp
          /\ d \in Seq(Symbols)
        <3>1. ContentLength \in Symbols /\ Sp \in Symbols /\ Digits \subseteq Symbols
            BY SymbolsAre
        <3>2. Seq(Digits) \subseteq Seq(Symbols)
            BY <3>1, SeqMonotonic
        <3>3. d \in Seq(Symbols)
            BY <2>2, <3>2
        <3>4. PICK b, c : b = ContentLength /\ c = Sp
            OBVIOUS
        <3>5. a = <<b, c>> /\ b \in Symbols /\ c \in Symbols
            BY <2>1, <3>1, <3>4
        <3>6. a \in Seq(Symbols) /\ Len(a) = 2 /\ a[1] = b /\ a[2] = c
            BY <3>5
        <3> QED BY <3>3, <3>4, <3>6
    <2>4. x = a \o d
        BY <1>2, <2>1 DEF HeaderLine
    <2>5. a \in Seq(Symbols) /\ d \in Seq(Symbols)
        BY <2>3
    <2>6. /\ x \in Seq(Symbols) /\ Len(x) = Len(a) + Len(d)
          /\ \A i \in 1..Len(a) : x[i] = a[i]
          /\ \A i \in 1..Len(d) : x[Len(a) + i] = d[i]
        BY <2>4, <2>5, Joined
    <2>7. Len(x) = 2 + Len(d) /\ \A i \in 1..Len(d) : x[2 + i] = d[i]
        BY <2>3, <2>6
    <2>8. x[1] = ContentLength /\ x[2] = Sp
        <3>1. 1 \in 1..Len(a) /\ 2 \in 1..Len(a)
            BY <2>3
        <3> QED BY <2>3, <2>6, <3>1
    <2>9. Line(x)
        <3> SUFFICES ASSUME NEW i \in 1..Len(x) PROVE x[i] # Cr
            BY DEF Line
        <3>1. CASE i = 1 \/ i = 2
            BY <2>8, <3>1, ContentLengthApart, SpacesAre
        <3>2. CASE i # 1 /\ i # 2
            <4>1. PICK j : j = i - 2
                OBVIOUS
            <4>2. j \in 1..Len(d) /\ i = 2 + j
                BY <2>2, <2>7, <3>2, <4>1
            <4>3. x[i] \in Digits
                BY <2>2, <2>7, <4>2
            <4> QED BY <4>3, SpacesAre
        <3> QED BY <3>1, <3>2
    <2>10. Len(x) # 0
        BY <2>2, <2>7
    <2> QED BY <1>2, <2>1, <2>6, <2>7, <2>8, <2>9, <2>10
<1> QED BY <1>1, <1>2

\* The headers before h in the first n symbols.
Headers(text, n, h) == SubSeq(SubSeq(text, 1, n), 1, h - 1)

\* They are those of the text.
LEMMA HeadersAre ==
    ASSUME NEW S, NEW text \in Seq(S), NEW n \in 0..Len(text), NEW h \in 1..(n + 1),
           NEW headers, headers = Headers(text, n, h)
    PROVE  IsText(headers) /\ Len(headers) = h - 1 /\ \A i \in 1..(h - 1) : headers[i] = text[i]
<1>1. PICK raw, k : raw = SubSeq(text, 1, n) /\ k = h - 1
    OBVIOUS
<1>2. IsText(raw) /\ Len(raw) = n /\ \A i \in 1..n : raw[i] = text[i]
    BY <1>1, PrefixIs
<1>3. PICK R : raw \in Seq(R)
    BY <1>2 DEF IsText
<1>4. headers = SubSeq(raw, 1, k) /\ k \in 0..Len(raw)
    BY <1>1, <1>2 DEF Headers
<1>5. IsText(headers) /\ Len(headers) = k /\ \A i \in 1..k : headers[i] = raw[i]
    BY <1>3, <1>4, PrefixIs
<1>6. \A i \in 1..k : i \in 1..n
    BY <1>1
<1> QED BY <1>1, <1>2, <1>5, <1>6

-----------------------------------------------------------------------------
(* Requests are read as they were written *)

\* The head of a request ends at h, and what is behind it is as long as it says.
Reads(text, h, l) ==
    /\ h \in Nat \ {0} /\ l \in Nat /\ IsText(text) /\ Len(text) = h + 3 + l
    /\ \A n \in 0..Len(text) : HeaderEnd(SubSeq(text, 1, n)) = IF n < h + 3 THEN 0 ELSE h
    /\ \A n \in (h + 3)..Len(text) : ParseContentLength(Headers(text, n, h)) = l

Readably(text) == \E h, l : Reads(text, h, l)

\* No symbol of the first line is the name of a header.
LEMMA FirstLine ==
    ASSUME NEW S, NEW text, NEW m, NEW target, NEW x, NEW body,
           Formed(text, S, m, target, x, body), m # ContentLength,
           \A i \in 1..Len(target) : target[i] # ContentLength,
           NEW i \in 1..(Len(target) + 6)
    PROVE  text[i] # ContentLength
<1>1. PICK p : p = Len(target)
    OBVIOUS
<1>2. p \in Nat /\ i \in 1..(p + 6)
    BY <1>1 DEF Formed
<1>3. /\ text[1] = m /\ text[2] = Sp
      /\ \A j \in 1..p : text[2 + j] = target[j]
      /\ text[p + 3] = Sp /\ text[p + 4] = "HTTP/1.1" /\ text[p + 5] = Cr /\ text[p + 6] = Lf
    BY <1>1 DEF Formed
<1>4. CASE i = 1 \/ i = 2 \/ i = p + 3 \/ i = p + 4 \/ i = p + 5 \/ i = p + 6
    BY <1>3, <1>4, ContentLengthApart
<1>5. CASE i \in 3..(p + 2)
    <2>1. PICK j : j = i - 2
        OBVIOUS
    <2>2. j \in 1..p /\ i = 2 + j
        BY <1>2, <1>5, <2>1
    <2> QED BY <1>1, <1>3, <2>2
<1> QED BY <1>2, <1>4, <1>5

\* A request is a text of the symbols.
LEMMA WrittenIs ==
    ASSUME NEW m \in Symbols, NEW target \in Seq(Symbols), NEW length, NEW body \in Seq(Symbols),
           NEW text, Written(text, m, target, HeaderLine(length, body), body),
           length # None => Len(body) + length \in Nat
    PROVE  text \in Seq(Symbols)
<1>1. PICK x, d : x = HeaderLine(length, body) /\ d = Decimal[Len(body) + length]
    OBVIOUS
<1>2. x \in Seq(Symbols)
    BY <1>1, HeaderLineIs
<1>3. Formed(text, Symbols, m, target, x, body)
    BY <1>1, <1>2, SymbolsAre, RequestFormed
<1> QED BY <1>3 DEF Formed

\* A request of no length or of its own is read as it was written.
LEMMA WrittenReads ==
    ASSUME NEW m \in Symbols, NEW target \in Seq(Symbols), NEW length, NEW body \in Seq(Symbols),
           NEW text, Written(text, m, target, HeaderLine(length, body), body),
           m # Cr, m # ContentLength, Line(target),
           \A i \in 1..Len(target) : target[i] # ContentLength,
           length # None => length = 0, length = None => body = <<>>,
           Len(text) \in Nat => Len(text) < Word
    PROVE  Readably(text)
<1>1. PICK x, d : x = HeaderLine(length, body) /\ d = Decimal[Len(body) + length]
    OBVIOUS
<1>2. length # None => Len(body) + length \in Nat
    OBVIOUS
<1>3. x \in Seq(Symbols) /\ Line(x) /\ Len(x) # 0
    BY <1>1, <1>2, HeaderLineIs
<1>4. length = None => Len(x) = 1 /\ x[1] = Host
    BY <1>1, <1>2, HeaderLineIs
<1>5. length # None => /\ Len(x) = 2 + Len(d) /\ x[1] = ContentLength /\ x[2] = Sp
                       /\ \A i \in 1..Len(d) : x[2 + i] = d[i]
    BY <1>1, <1>2, HeaderLineIs
<1>6. Formed(text, Symbols, m, target, x, body)
    BY <1>1, <1>3, SymbolsAre, RequestFormed
<1>7. PICK p, q, l, h : p = Len(target) /\ q = Len(x) /\ l = Len(body) /\ h = p + q + 7
    OBVIOUS
<1>8. p \in Nat /\ q \in Nat /\ q # 0 /\ l \in Nat /\ h \in Nat \ {0} /\ WordAssumption
    BY <1>3, <1>7, WordAssumption
<1>9. text \in Seq(Symbols) /\ Len(text) = h + 3 + l /\ \A i \in 1..q : text[p + 6 + i] = x[i]
    BY <1>6, <1>7, <1>8 DEF Formed
<1>10. \A n \in 0..Len(text) : HeaderEnd(SubSeq(text, 1, n)) = IF n < h + 3 THEN 0 ELSE h
    <2> TAKE n \in 0..Len(text)
    <2>1. PICK raw : raw = SubSeq(text, 1, n)
        OBVIOUS
    <2>2. HeadIs(h, target, x) /\ Cut(raw, text, n)
        BY <1>7, <2>1 DEF HeadIs, Cut
    <2>3. HeaderEnd(raw) = IF n < h + 3 THEN 0 ELSE h
        <3>1. Line(target) /\ Line(x) /\ Len(x) # 0 /\ m # Cr
            BY <1>3
        <3> HIDE DEF Symbols
        <3> QED BY <1>6, <2>1, <2>2, <3>1, HeadEnds
    <2> QED BY <2>1, <2>3
<1>11. ASSUME NEW n \in (h + 3)..Len(text) PROVE ParseContentLength(Headers(text, n, h)) = l
    <2>1. PICK headers : headers = Headers(text, n, h)
        OBVIOUS
    <2>2. n \in 0..Len(text) /\ h \in 1..(n + 1)
        BY <1>8, <1>9
    <2>3. IsText(headers) /\ Len(headers) = h - 1 /\ \A i \in 1..(h - 1) : headers[i] = text[i]
        BY <1>9, <2>1, <2>2, HeadersAre
    <2>4. \A i \in 1..(p + 6) : headers[i] # ContentLength
        <3> TAKE i \in 1..(p + 6)
        <3>1. text[i] # ContentLength
            BY <1>6, <1>7, FirstLine
        <3>2. i \in 1..(h - 1)
            BY <1>7, <1>8
        <3> QED BY <2>3, <3>1, <3>2
    <2>5. \A i \in 1..q : p + 6 + i \in 1..(h - 1)
        BY <1>7, <1>8
    <2>6. \A i \in 1..q : headers[p + 6 + i] = x[i]
        BY <1>9, <2>3, <2>5
    <2>7. CASE length = None
        <3>1. q = 1 /\ x[1] = Host /\ l = 0
            BY <1>4, <1>7, <2>7
        <3>2. \A i \in 1..Len(headers) : headers[i] # ContentLength
            <4> TAKE i \in 1..Len(headers)
            <4>1. CASE i \in 1..(p + 6)
                BY <2>4, <4>1
            <4>2. CASE i = p + 7
                <5>1. 1 \in 1..q /\ p + 6 + 1 = i
                    BY <1>8, <3>1, <4>2
                <5>2. headers[i] = Host
                    BY <2>6, <3>1, <5>1
                <5> QED BY <5>2, ContentLengthApart DEF Host
            <4> QED BY <1>7, <1>8, <2>3, <3>1, <4>1, <4>2
        <3> QED BY <2>1, <2>3, <3>1, <3>2, NoLength
    <2>8. CASE length # None
        <3>1. PICK k : k = p + 7
            OBVIOUS
        <3>2. length = 0 /\ d = Decimal[l] /\ l < Word
            BY <1>1, <1>7, <1>8, <1>9, <2>8
        <3>3. PICK D : D = Len(d)
            OBVIOUS
        <3>4. D \in Nat /\ q = 2 + D
            BY <1>5, <1>7, <1>8, <2>8, <3>2, <3>3, DecimalIsRead
        <3>5. Len(headers) = k + 1 + D /\ k \in Nat \ {0}
            BY <1>7, <1>8, <2>3, <3>1, <3>4
        <3>6. \A i \in 1..(k - 1) : headers[i] # ContentLength
            <4>1. k - 1 = p + 6
                BY <1>8, <3>1
            <4> QED BY <2>4, <4>1
        <3>7. headers[k] = ContentLength /\ headers[k + 1] = Sp
            <4>1. 1 \in 1..q /\ 2 \in 1..q /\ p + 6 + 1 = k /\ p + 6 + 2 = k + 1
                BY <1>8, <3>1, <3>4
            <4>2. headers[p + 6 + 1] = x[1] /\ headers[p + 6 + 2] = x[2]
                BY <2>6, <4>1
            <4> QED BY <1>5, <2>8, <4>1, <4>2
        <3>8. \A i \in 1..D : headers[k + 1 + i] = d[i]
            <4> TAKE i \in 1..D
            <4>1. PICK j : j = 2 + i
                OBVIOUS
            <4>2. j \in 1..q /\ p + 6 + j = k + 1 + i
                BY <1>8, <3>1, <3>4, <4>1
            <4>3. x[j] = d[i]
                BY <1>5, <2>8, <3>3, <4>1
            <4> QED BY <2>6, <4>2, <4>3
        <3>9. Tells(headers, k, d)
            <4>1. k + 1 + D <= Len(headers) /\ ~(k + 1 + D < Len(headers))
                  /\ (k + 2 + D)..Len(headers) = {}
                BY <3>4, <3>5
            <4> QED BY <3>3, <3>6, <3>7, <3>8, <4>1 DEF Tells
        <3>10. ParseContentLength(headers) = IF l < Word THEN l ELSE 0
            BY <1>8, <2>3, <3>2, <3>5, <3>9, LengthRead
        <3> QED BY <2>1, <3>2, <3>10
    <2> QED BY <2>7, <2>8
<1>12. IsText(text)
    BY <1>9 DEF IsText
<1>13. Reads(text, h, l)
    BY <1>8, <1>9, <1>10, <1>11, <1>12 DEF Reads
<1> QED BY <1>13 DEF Readably

\* What devices send; a request is whole if its length is not wrong.
LEMMA PostIs ==
    ASSUME NEW s \in Posts
    PROVE  \E p \in Packets, order \in Orders, length \in Lengths :
              /\ s.text = RequestText("POST", <<"/api/v1/ingest">>, length, Body(p, order))
              /\ s.whole => length = 0
              /\ s.packet = p /\ s.order = order
              /\ s.wants = [op |-> "ingest", param |-> <<>>]
<1> DEFINE Post(text, whole, p, order) ==
        [text |-> text, whole |-> whole, wants |-> [op |-> "ingest", param |-> <<>>],
         packet |-> p, order |-> order]
<1>1. PICK p \in Packets, order \in Orders, length \in Lengths :
        s = Post(RequestText("POST", <<"/api/v1/ingest">>, length, Body(p, order)), length = 0,
                 p, order)
    <2>1. Posts = {Post(RequestText("POST", <<"/api/v1/ingest">>, length, Body(p, order)),
                        length = 0, p, order) :
                      p \in Packets, order \in Orders, length \in Lengths}
        BY DEF Posts
    <2> HIDE DEF Post
    <2> QED BY <2>1
<1>2. PICK text, whole : /\ text = RequestText("POST", <<"/api/v1/ingest">>, length, Body(p, order))
                         /\ whole = (length = 0)
    OBVIOUS
<1>3. s = Post(text, whole, p, order)
    BY <1>1, <1>2, Zenon
<1>4. /\ s.text = text /\ s.whole = whole /\ s.packet = p /\ s.order = order
      /\ s.wants = [op |-> "ingest", param |-> <<>>]
    BY <1>3
<1>5. s.whole => length = 0
    BY <1>2, <1>4, Zenon
<1> QED BY <1>2, <1>4, <1>5

\* What clients send, and how it is read.
LEMMA SentReads ==
    ASSUME NEW s \in Posts \cup Others
    PROVE  /\ s.text \in Seq(Symbols)
           /\ s.whole /\ Len(s.text) <= MaxRequestBytes => Readably(s.text)
<1>1. Len(s.text) \in Nat /\ Len(s.text) <= MaxRequestBytes => Len(s.text) < Word
    BY SizesAssumption, WordAssumption
<1>2. CASE s \in Posts
    <2>1. PICK p \in Packets, order \in Orders, length \in Lengths :
            /\ s.text = RequestText("POST", <<"/api/v1/ingest">>, length, Body(p, order))
            /\ s.whole => length = 0
        BY <1>2, PostIs
    <2>2. PICK m, t, target, body : /\ m = "POST" /\ t = "/api/v1/ingest"
                                    /\ target = <<t>> /\ body = Body(p, order)
        OBVIOUS
    <2>3. m \in Symbols /\ t \in Symbols
        BY <2>2, SymbolsAre
    <2>4. m # Cr /\ m # ContentLength /\ t # Cr /\ t # ContentLength
        BY <2>2, Zenon DEF Cr, ContentLength
    <2>5. target \in Seq(Symbols) /\ Len(target) = 1 /\ target[1] = t
        BY <2>2, <2>3
    <2>6. Line(target) /\ \A i \in 1..Len(target) : target[i] # ContentLength
        BY <2>4, <2>5 DEF Line
    <2>7. body \in Seq(Symbols)
        BY <2>2, BodyIs
    <2>8. Written(s.text, m, target, HeaderLine(length, body), body)
        <3>1. s.text = RequestText(m, target, length, body)
            BY <2>1, <2>2
        <3> QED BY <3>1, RequestWritten
    <2>9. length # None => Len(body) + length \in Nat
        BY <2>2, LengthsAssumption
    <2>10. s.text \in Seq(Symbols)
        BY <2>3, <2>5, <2>7, <2>8, <2>9, WrittenIs
    <2>11. ASSUME s.whole, Len(s.text) <= MaxRequestBytes PROVE Readably(s.text)
        <3>1. length = 0 /\ length # None
            BY <2>1, <2>11, WordAssumption
        <3>2. Len(s.text) < Word
            BY <1>1, <2>10, <2>11
        <3> QED BY <2>3, <2>4, <2>5, <2>6, <2>7, <2>8, <3>1, <3>2, WrittenReads
    <2> QED BY <2>10, <2>11
<1>3. CASE s \in Others
    <2>1. PICK a \in Asked : s.text = RequestText(a.method, a.target, None, <<>>)
        BY <1>3 DEF Others
    <2>2. PICK m, target, body, length : /\ m = a.method /\ target = a.target /\ body = <<>>
                                         /\ length = None
        OBVIOUS
    <2>3. m \in Symbols
        BY <2>2, SymbolsAre
    <2>4. /\ target \in Seq(STRING) /\ m # Cr /\ m # ContentLength
          /\ \A x \in ToSet(target) : x # Cr /\ x # ContentLength
        BY <2>2, AskedAre
    <2>5. \A i \in 1..Len(target) : target[i] \in ToSet(target)
        BY <2>4 DEF ToSet
    <2>6. Line(target) /\ \A i \in 1..Len(target) : target[i] # ContentLength
        BY <2>4, <2>5 DEF Line
    <2>7. target \in Seq(Symbols) /\ body \in Seq(Symbols)
        <3>1. Seq(STRING) \subseteq Seq(Symbols)
            BY SymbolsAre, SeqMonotonic
        <3> QED BY <2>2, <2>4, <3>1
    <2>8. Written(s.text, m, target, HeaderLine(length, body), body)
        <3>1. s.text = RequestText(m, target, length, body)
            BY <2>1, <2>2
        <3> QED BY <3>1, RequestWritten
    <2>9. s.text \in Seq(Symbols)
        BY <2>2, <2>3, <2>7, <2>8, WrittenIs
    <2>10. ASSUME Len(s.text) <= MaxRequestBytes PROVE Readably(s.text)
        <3>1. Len(s.text) < Word
            BY <1>1, <2>9, <2>10
        <3> QED BY <2>2, <2>3, <2>4, <2>6, <2>7, <2>8, <3>1, WrittenReads
    <2> QED BY <2>9, <2>10
<1> QED BY <1>2, <1>3

-----------------------------------------------------------------------------
(* What was read *)

\* What has been read so far: as long as more is read it is less than the
\* largest request, and what is expected fits in a size_t.
ReadInv ==
    /\ sent \in Posts \cup Others
    /\ got \in Nat /\ got <= Len(sent.text) /\ got < MaxRequestBytes + BufferSize
    /\ expected \in 0 .. (Word - 1) \cup {None}
    /\ pc \in {"recv", "handle", "closed"}
    /\ pc = "recv" => got < MaxRequestBytes

\* What a recv does to a request of which this much has been read.
LEMMA RawIs ==
    ASSUME NEW s \in Posts \cup Others, NEW n \in 0..Len(s.text),
           NEW raw, raw = SubSeq(s.text, 1, n)
    PROVE  Len(raw) = n /\ HeaderEnd(raw) \in Nat
           /\ (HeaderEnd(raw) # 0 => ExpectedTotalSize(raw) \in 0 .. (Word - 1))
<1>1. s.text \in Seq(Symbols)
    BY SentReads
<1>2. IsText(raw) /\ Len(raw) = n /\ n \in Nat
    <2>1. IsText(raw) /\ Len(raw) = n
        BY <1>1, PrefixIs
    <2> QED BY <1>1, <2>1
<1>3. PICK k : k = HeaderEnd(raw)
    OBVIOUS
<1>4. k \in Nat /\ (k # 0 => k \in 1..(Len(raw) - 3))
    BY <1>2, <1>3, HeaderEndIs
<1>5. ASSUME k # 0 PROVE ExpectedTotalSize(raw) \in 0 .. (Word - 1)
    <2>1. PICK j, headers : j = k - 1 /\ headers = SubSeq(raw, 1, j)
        OBVIOUS
    <2>2. j \in 0..Len(raw)
        BY <1>2, <1>4, <1>5, <2>1
    <2>3. PICK S : raw \in Seq(S)
        BY <1>2 DEF IsText
    <2>4. IsText(headers)
        BY <2>1, <2>2, <2>3, PrefixIs
    <2>5. PICK l : l = ParseContentLength(headers) /\ l \in Nat
        BY <2>4, LengthNat
    <2>6. ExpectedTotalSize(raw) = (k + 3 + l) % Word
        BY <1>3, <2>1, <2>5 DEF ExpectedTotalSize
    <2>7. (k + 3 + l) % Word \in 0 .. (Word - 1)
        BY <1>4, <2>5, WordAssumption
    <2> QED BY <2>6, <2>7
<1> QED BY <1>2, <1>3, <1>4, <1>5

\* ReadInv is inductive: a recv that starts below the limit adds at most a
\* buffer, and the width of a size_t bounds the sum of header and length.
LEMMA ReadInvariant == Spec => []ReadInv
<1>1. Init => ReadInv
    <2> SUFFICES ASSUME Init PROVE ReadInv
        OBVIOUS
    <2>1. sent.text \in Seq(Symbols)
        BY SentReads DEF Init
    <2>2. Len(sent.text) \in Nat
        BY <2>1
    <2> QED BY <2>2, SizesAssumption DEF Init, ReadInv
<1>2. ReadInv /\ [Next]_vars => ReadInv'
    <2> SUFFICES ASSUME ReadInv, [Next]_vars PROVE ReadInv'
        OBVIOUS
    <2>1. CASE UNCHANGED vars
        BY <2>1 DEF ReadInv, vars
    <2>2. ASSUME NEW n \in 1..BufferSize, Recv(n) PROVE ReadInv'
        <3>1. sent' = sent /\ sent \in Posts \cup Others /\ pc = "recv"
              /\ got' = got + n /\ got' <= Len(sent.text)
            BY <2>2 DEF Recv, ReadInv
        <3>2. got' \in Nat /\ got' < MaxRequestBytes + BufferSize
            BY <3>1, SizesAssumption DEF ReadInv
        <3>3. Len(sent.text) \in Nat
            BY <3>1, SentReads
        <3>4. PICK raw : raw = SubSeq(sent.text, 1, got')
            OBVIOUS
        <3>5. got' \in 0..Len(sent.text)
            BY <3>1, <3>2, <3>3
        <3>6. /\ Len(raw) = got'
              /\ HeaderEnd(raw) # 0 => ExpectedTotalSize(raw) \in 0 .. (Word - 1)
            BY <3>1, <3>4, <3>5, RawIs
        <3>7. /\ expected' = IF expected = None /\ HeaderEnd(raw) # 0
                             THEN ExpectedTotalSize(raw) ELSE expected
              /\ pc' = IF Enough(raw) THEN "handle" ELSE "recv"
            BY <2>2, <3>4 DEF Recv
        <3>8. expected' \in 0 .. (Word - 1) \cup {None}
            BY <3>6, <3>7 DEF ReadInv
        <3>9. pc' = "recv" => got' < MaxRequestBytes
            <4> SUFFICES ASSUME pc' = "recv" PROVE got' < MaxRequestBytes
                OBVIOUS
            <4>1. ~Enough(raw)
                BY <3>7
            <4>2. ~(Len(raw) >= MaxRequestBytes)
                BY <4>1 DEF Enough
            <4> QED BY <3>2, <3>6, <4>2, SizesAssumption
        <3>10. pc' \in {"recv", "handle", "closed"}
            BY <3>7
        <3> QED BY <3>1, <3>2, <3>8, <3>9, <3>10 DEF ReadInv
    <2>3. CASE RecvEnds
        BY <2>3 DEF RecvEnds, ReadInv
    <2>4. CASE HandleClient
        BY <2>4 DEF HandleClient, ReadInv
    <2> QED BY <2>1, <2>2, <2>3, <2>4 DEF Next
<1> QED BY <1>1, <1>2, PTL DEF Spec

\* TypeOK: what is read fits in the buffer behind the largest request, and
\* neither the expected size nor a timestamp exceeds its width.
THEOREM TypeCorrect == Spec => []TypeOK
<1>1. ReadInv /\ ParsedInv => TypeOK
    <2> SUFFICES ASSUME ReadInv, ParsedInv PROVE TypeOK
        OBVIOUS
    <2>1. Len(sent.text) \in Nat
        BY SentReads DEF ReadInv
    <2>2. got \in 0..Len(sent.text) /\ got < MaxRequestBytes + BufferSize
        BY <2>1 DEF ReadInv
    <2> QED BY <2>2 DEF ReadInv, ParsedInv, TypeOK
<1> QED BY <1>1, ReadInvariant, ParsedInvariant, PTL

-----------------------------------------------------------------------------
(* How far a whole request has been read *)

\* How far a whole request of this head and body has been read.
Progress(h, l) ==
    /\ Reads(sent.text, h, l)
    /\ expected = None <=> got < h + 3
    /\ expected # None => expected = Len(sent.text)
    /\ ~hungUp => (pc = "recv" <=> got < Len(sent.text))

\* Of a request that declares its own length the size is known once its head
\* has been read, and is its own.
WholeInv ==
    sent.whole /\ Len(sent.text) <= MaxRequestBytes => \E h, l : Progress(h, l)

\* One recv of a whole request.
LEMMA RecvProgress ==
    ASSUME ReadInv, Len(sent.text) <= MaxRequestBytes, NEW h, NEW l, Progress(h, l),
           NEW n \in 1..BufferSize, Recv(n)
    PROVE  Progress(h, l)'
<1>1. PICK text, L : text = sent.text /\ L = Len(text)
    OBVIOUS
<1>2. /\ h \in Nat \ {0} /\ l \in Nat /\ L \in Nat /\ L = h + 3 + l
      /\ L <= MaxRequestBytes /\ L < Word
    BY <1>1, SizesAssumption, WordAssumption DEF Progress, Reads
<1>3. sent' = sent /\ got' = got + n /\ got' \in Nat /\ got' <= L /\ pc = "recv" /\ got < got'
    BY <1>1, SizesAssumption DEF Recv, ReadInv
<1>4. PICK raw : raw = SubSeq(text, 1, got')
    OBVIOUS
<1>5. /\ expected' = IF expected = None /\ HeaderEnd(raw) # 0
                     THEN ExpectedTotalSize(raw) ELSE expected
      /\ pc' = IF Enough(raw) THEN "handle" ELSE "recv"
    BY <1>1, <1>4 DEF Recv
<1>6. Len(raw) = got'
    BY <1>1, <1>2, <1>3, <1>4, RawIs DEF ReadInv
<1>7. HeaderEnd(raw) = IF got' < h + 3 THEN 0 ELSE h
    <2>1. got' \in 0..Len(text)
        BY <1>1, <1>2, <1>3
    <2>2. \A i \in 0..Len(text) : HeaderEnd(SubSeq(text, 1, i)) = IF i < h + 3 THEN 0 ELSE h
        BY <1>1 DEF Progress, Reads
    <2> QED BY <1>4, <2>1, <2>2
<1>8. ASSUME got' >= h + 3
      PROVE  ParseContentLength(SubSeq(raw, 1, h - 1)) = l /\ HeaderEnd(raw) = h
    <2>1. got' \in (h + 3)..Len(text)
        BY <1>1, <1>2, <1>3, <1>8
    <2>2. \A i \in (h + 3)..Len(text) : ParseContentLength(SubSeq(SubSeq(text, 1, i), 1, h - 1)) = l
        BY <1>1 DEF Progress, Reads, Headers
    <2>3. ParseContentLength(SubSeq(raw, 1, h - 1)) = l
        BY <1>4, <2>1, <2>2
    <2> QED BY <1>2, <1>3, <1>7, <1>8, <2>3
<1>9. expected' = None <=> got' < h + 3
    <2>1. CASE got' < h + 3
        <3>1. HeaderEnd(raw) = 0 /\ expected = None
            BY <1>2, <1>3, <1>7, <2>1 DEF Progress, ReadInv
        <3> QED BY <1>5, <2>1, <3>1
    <2>2. CASE got' >= h + 3
        <3>1. PICK r : r = (h + 3 + l) % Word
            OBVIOUS
        <3>2. r \in Nat /\ r # None
            BY <1>2, <3>1, WordAssumption
        <3>3. ExpectedTotalSize(raw) = r
            BY <1>8, <2>2, <3>1 DEF ExpectedTotalSize
        <3>4. expected' # None
            BY <1>2, <1>5, <1>8, <2>2, <3>2, <3>3
        <3> QED BY <1>2, <1>3, <2>2, <3>4
    <2> QED BY <1>2, <1>3, <2>1, <2>2
<1>10. expected' # None => expected' = L
    <2> SUFFICES ASSUME expected' # None PROVE expected' = L
        OBVIOUS
    <2>1. got' >= h + 3
        BY <1>2, <1>3, <1>9
    <2>2. ExpectedTotalSize(raw) = (h + 3 + l) % Word
        BY <1>8, <2>1 DEF ExpectedTotalSize
    <2>3. (h + 3 + l) % Word = L
        <3>1. L % Word = L
            BY <1>2, WordAssumption
        <3> QED BY <1>2, <3>1
    <2>4. expected # None => expected = L
        BY <1>1 DEF Progress
    <2> QED BY <1>5, <2>2, <2>3, <2>4
<1>11. pc' = "recv" <=> got' < L
    <2>1. CASE got' = L
        <3>1. got' >= h + 3 /\ ~(got' < h + 3)
            BY <1>2, <2>1
        <3>2. HeaderEnd(raw) # 0 /\ Len(raw) >= expected'
            BY <1>2, <1>6, <1>8, <1>9, <1>10, <2>1, <3>1
        <3>3. Enough(raw)
            BY <3>2 DEF Enough
        <3>4. ~(got' < L)
            BY <1>2, <2>1
        <3> QED BY <1>5, <3>3, <3>4
    <2>2. CASE got' < L
        <3>1. ~(Len(raw) >= MaxRequestBytes)
            BY <1>2, <1>3, <1>6, <2>2, SizesAssumption
        <3>2. ASSUME HeaderEnd(raw) # 0 PROVE l # 0 /\ ~(Len(raw) >= expected')
            <4>1. got' >= h + 3 /\ ~(got' < h + 3)
                BY <1>2, <1>3, <1>7, <3>2
            <4>2. expected' = L
                BY <1>9, <1>10, <4>1
            <4> QED BY <1>2, <1>3, <1>6, <2>2, <4>1, <4>2
        <3>3. HeaderEnd(raw) # 0 => ParseContentLength(SubSeq(raw, 1, HeaderEnd(raw) - 1)) = l
            <4> SUFFICES ASSUME HeaderEnd(raw) # 0
                         PROVE  ParseContentLength(SubSeq(raw, 1, HeaderEnd(raw) - 1)) = l
                OBVIOUS
            <4>1. got' >= h + 3
                BY <1>2, <1>3, <1>7
            <4> QED BY <1>8, <4>1
        <3>4. ~Enough(raw)
            BY <3>1, <3>2, <3>3 DEF Enough
        <3> QED BY <1>5, <2>2, <3>4
    <2> QED BY <1>2, <1>3, <2>1, <2>2
<1>12. Reads(sent'.text, h, l)
    BY <1>3 DEF Progress
<1> QED BY <1>1, <1>3, <1>9, <1>10, <1>11, <1>12 DEF Progress

\* WholeInv is inductive.
LEMMA WholeInvariant == Spec => []WholeInv
<1>1. Init => WholeInv
    <2> SUFFICES ASSUME Init, sent.whole, Len(sent.text) <= MaxRequestBytes
                 PROVE  \E h, l : Progress(h, l)
        BY DEF WholeInv
    <2>1. PICK h, l : Reads(sent.text, h, l)
        BY SentReads DEF Init, Readably
    <2>2. 0 < h + 3 /\ 0 < Len(sent.text)
        BY <2>1 DEF Reads
    <2>3. Progress(h, l)
        BY <2>1, <2>2 DEF Init, Progress
    <2> QED BY <2>3
<1>2. ReadInv /\ WholeInv /\ [Next]_vars => WholeInv'
    <2> SUFFICES ASSUME ReadInv, WholeInv, [Next]_vars PROVE WholeInv'
        OBVIOUS
    <2>0. sent' = sent
        BY DEF Next, Recv, RecvEnds, HandleClient, vars
    <2> SUFFICES ASSUME sent.whole, Len(sent.text) <= MaxRequestBytes
                 PROVE  \E h, l : Progress(h, l)'
        BY <2>0 DEF WholeInv
    <2>1. PICK h, l : Progress(h, l)
        BY DEF WholeInv
    <2>2. CASE UNCHANGED vars
        BY <2>1, <2>2 DEF Progress, vars
    <2>3. ASSUME NEW n \in 1..BufferSize, Recv(n) PROVE Progress(h, l)'
        BY <2>1, <2>3, RecvProgress
    <2>4. CASE RecvEnds
        <3>1. Progress(h, l)'
            BY <2>1, <2>4 DEF RecvEnds, Progress
        <3> QED BY <3>1
    <2>5. CASE HandleClient
        <3>1. Progress(h, l)'
            BY <2>1, <2>5 DEF HandleClient, Progress
        <3> QED BY <3>1
    <2> QED BY <2>2, <2>3, <2>4, <2>5 DEF Next
<1> QED BY <1>1, <1>2, ReadInvariant, PTL DEF Spec

\* WholeIsRouted: wherever a request is cut into pieces, reading it ends with
\* its last symbol.
THEOREM WholeRequestsRouted == Spec => []WholeIsRouted
<1>1. ReadInv /\ WholeInv => WholeIsRouted
    <2> SUFFICES ASSUME ReadInv, WholeInv, sent.whole, Len(sent.text) <= MaxRequestBytes, ~hungUp
                 PROVE  pc # "recv" <=> got = Len(sent.text)
        BY DEF WholeIsRouted
    <2>1. PICK h, l : Progress(h, l)
        BY DEF WholeInv
    <2>2. pc = "recv" <=> got < Len(sent.text)
        BY <2>1 DEF Progress
    <2>3. got \in Nat /\ Len(sent.text) \in Nat /\ got <= Len(sent.text)
        BY <2>1 DEF Progress, Reads, ReadInv
    <2> QED BY <2>2, <2>3
<1> QED BY <1>1, ReadInvariant, WholeInvariant, PTL

-----------------------------------------------------------------------------
(* Frames *)

\* The size without its low bytes, one after another.
Shifts(s, size) ==
    /\ s[0] = size /\ \A k \in 0..8 : s[k] \in Nat /\ s[k] = Shifted(size, k)
    /\ \A k \in 1..8 : s[k] = s[k - 1] \div 256

\* Each byte is taken off the rest (http_server.cpp:614).
LEMMA ShiftsExist ==
    ASSUME NEW size \in Nat PROVE \E s : Shifts(s, size)
<1> DEFINE s == CHOOSE f : f = [n \in 0..8 |-> IF n = 0 THEN size ELSE f[n - 1] \div 256]
<1>1. \A n \in Nat : n \div 256 \in Nat
    OBVIOUS
<1>2. PICK a1, a2, a3, a4 : /\ a1 = size \div 256 /\ a2 = a1 \div 256 /\ a3 = a2 \div 256
                            /\ a4 = a3 \div 256
    OBVIOUS
<1>3. PICK a5, a6, a7, a8 : /\ a5 = a4 \div 256 /\ a6 = a5 \div 256 /\ a7 = a6 \div 256
                            /\ a8 = a7 \div 256
    OBVIOUS
<1> DEFINE all == <<size, a1, a2, a3, a4, a5, a6, a7, a8>>
           g == [n \in 0..8 |-> all[n + 1]]
<1>4. /\ g[0] = size /\ g[1] = a1 /\ g[2] = a2 /\ g[3] = a3 /\ g[4] = a4 /\ g[5] = a5
      /\ g[6] = a6 /\ g[7] = a7 /\ g[8] = a8
    OBVIOUS
<1> DEFINE rhs(n) == IF n = 0 THEN size ELSE g[n - 1] \div 256
<1>5. ASSUME NEW n \in 0..8 PROVE g[n] = rhs(n)
    <2> HIDE DEF g
    <2>1. CASE n \in {0, 1, 2, 3, 4}
        BY <1>2, <1>4, <2>1
    <2>2. CASE n \in {5, 6, 7, 8}
        BY <1>3, <1>4, <2>2
    <2> QED BY <2>1, <2>2
<1>6. g = [n \in 0..8 |-> rhs(n)]
    <2> HIDE DEF all, rhs
    <2> QED BY <1>5
<1>7. s = [n \in 0..8 |-> IF n = 0 THEN size ELSE s[n - 1] \div 256]
    <2> HIDE DEF g
    <2> QED BY <1>6
<1>8. \A k \in 0..8 : s[k] = Shifted(size, k)
    BY DEF Shifted
<1> HIDE DEF s
<1>9. s[0] = size /\ \A k \in 1..8 : s[k] = s[k - 1] \div 256
    BY <1>7
<1>10. \A k \in 0..8 : s[k] \in Nat
    <2>1. s[0] \in Nat /\ s[1] \in Nat /\ s[2] \in Nat /\ s[3] \in Nat /\ s[4] \in Nat
        BY <1>1, <1>9
    <2>2. s[5] \in Nat /\ s[6] \in Nat /\ s[7] \in Nat /\ s[8] \in Nat
        BY <1>1, <1>9, <2>1
    <2>3. \A k \in 0..8 : k \in {0, 1, 2, 3, 4, 5, 6, 7, 8}
        OBVIOUS
    <2> QED BY <2>1, <2>2, <2>3
<1> QED BY <1>8, <1>9, <1>10 DEF Shifts

\* The head of a frame in the longest form.
LongHeader(head, size) == head = <<129, 127>> \o [i \in 1..8 |-> Shifted(size, 8 - i) % 256]

\* The eight bytes of a size make it up again.
LEMMA BytesRead ==
    ASSUME NEW size \in Nat, Shifted(size, 8) = 0, NEW head, LongHeader(head, size)
    PROVE  Len(head) = 10 /\ head[2] = 127 /\ SizeRead(head) = size
<1>1. PICK s : Shifts(s, size)
    BY ShiftsExist
<1>0. PICK bytes, mark : /\ bytes = [i \in 1..8 |-> Shifted(size, 8 - i) % 256]
                         /\ mark = <<129, 127>> /\ head = mark \o bytes
    BY DEF LongHeader
<1>2. \A i \in 1..8 : bytes[i] = s[8 - i] % 256 /\ bytes[i] \in Int
    <2> TAKE i \in 1..8
    <2>1. 8 - i \in 0..8
        OBVIOUS
    <2>2. s[8 - i] \in Nat /\ s[8 - i] = Shifted(size, 8 - i)
        BY <1>1, <2>1 DEF Shifts
    <2> QED BY <1>0, <2>2
<1>3. bytes \in Seq(Int) /\ Len(bytes) = 8
    <2>1. bytes \in [1..8 -> Int]
        BY <1>0, <1>2
    <2>2. PICK n \in Nat : n = 8
        OBVIOUS
    <2>3. bytes \in [1..n -> Int]
        BY <2>1, <2>2
    <2>4. bytes \in Seq(Int)
        BY <2>3, SeqDef
    <2>5. DOMAIN bytes = 1..Len(bytes) /\ Len(bytes) \in Nat /\ DOMAIN bytes = 1..n
        BY <2>3, <2>4
    <2>6. PICK l \in Nat : l = Len(bytes) /\ 1..l = 1..n
        BY <2>5
    <2>7. \A i \in Nat \ {0} : i <= l <=> i <= n
        BY <2>6
    <2>8. ~(l < n)
        <3>1. n # 0 => (n <= l <=> n <= n)
            BY <2>7
        <3> QED BY <3>1
    <2>9. ~(n < l)
        <3>1. l # 0 => (l <= l <=> l <= n)
            BY <2>7
        <3> QED BY <3>1
    <2> QED BY <2>2, <2>4, <2>6, <2>8, <2>9
<1>4. mark \in Seq(Int) /\ Len(mark) = 2 /\ mark[1] = 129 /\ mark[2] = 127
    BY <1>0
<1>6. /\ Len(head) = Len(mark) + Len(bytes)
      /\ \A i \in 1..Len(mark) : head[i] = mark[i]
      /\ \A i \in 1..Len(bytes) : head[Len(mark) + i] = bytes[i]
    <2> DEFINE S == Int
    <2>1. mark \in Seq(S) /\ bytes \in Seq(S)
        BY <1>3, <1>4
    <2> HIDE DEF S
    <2>2. head = mark \o bytes
        BY <1>0
    <2> QED BY <2>1, <2>2, Joined
<1>7. Len(head) = 10 /\ head[2] = 127
    BY <1>3, <1>4, <1>6
<1>8. \A i \in 3..10 : head[i] = s[10 - i] % 256
    <2> TAKE i \in 3..10
    <2>1. PICK j : j = i - 2
        OBVIOUS
    <2>2. j \in 1..8 /\ Len(mark) + j = i /\ 8 - j = 10 - i
        BY <1>4, <2>1
    <2>3. head[i] = bytes[j]
        BY <1>3, <1>6, <2>2
    <2>4. bytes[j] = s[8 - j] % 256
        BY <1>2, <2>2
    <2> QED BY <2>2, <2>3, <2>4
<1> DEFINE read == CHOOSE f : f = [i \in 2..Len(head) |->
                                      IF i = 2 THEN 0 ELSE f[i - 1] * 256 + head[i]]
<1>9. SizeRead(head) = read[Len(head)]
    BY <1>7 DEF SizeRead
<1> DEFINE g == [i \in 2..10 |-> s[10 - i]]
           rhs(i) == IF i = 2 THEN 0 ELSE g[i - 1] * 256 + head[i]
<1>10. ASSUME NEW i \in 2..10 PROVE g[i] = rhs(i)
    <2>1. CASE i = 2
        <3>1. s[8] = 0
            BY <1>1 DEF Shifts
        <3> QED BY <2>1, <3>1
    <2>2. CASE i # 2
        <3>1. PICK k : k = 10 - i
            OBVIOUS
        <3>2. k \in 0..8 /\ k + 1 \in 1..8 /\ (k + 1) - 1 = k /\ i - 1 \in 2..10
              /\ 10 - (i - 1) = k + 1 /\ i \in 3..10
            BY <2>2, <3>1
        <3>3. PICK n \in Nat : n = s[k] /\ s[k + 1] = n \div 256
            BY <1>1, <3>2 DEF Shifts
        <3>4. PICK a, b : a = n % 256 /\ b = n \div 256
            OBVIOUS
        <3>5. g[i - 1] = b /\ g[i] = n /\ head[i] = a
            BY <1>8, <3>1, <3>2, <3>3, <3>4
        <3>6. n = b * 256 + a
            <4>1. n % 256 = n - 256 * (n \div 256)
                OBVIOUS
            <4>2. a \in Int /\ b \in Int /\ a = n - 256 * b
                BY <3>4, <4>1
            <4> QED BY <4>2
        <3> HIDE DEF g
        <3>7. g[i] = g[i - 1] * 256 + head[i]
            BY <3>5, <3>6
        <3> QED BY <2>2, <3>7
    <2> QED BY <2>1, <2>2
<1>11. g = [i \in 2..10 |-> rhs(i)]
    <2> HIDE DEF rhs
    <2> QED BY <1>10
<1>12. read = [i \in 2..10 |-> IF i = 2 THEN 0 ELSE read[i - 1] * 256 + head[i]]
    <2>1. read = CHOOSE f : f = [i \in 2..10 |-> IF i = 2 THEN 0 ELSE f[i - 1] * 256 + head[i]]
        BY <1>7
    <2> HIDE DEF g, read
    <2> QED BY <1>11, <2>1
<1> HIDE DEF read
<1>13. read[2] = 0 /\ \A i \in 3..10 : read[i] = read[i - 1] * 256 + head[i]
    BY <1>12
<1>14. g[2] = 0 /\ \A i \in 3..10 : g[i] = g[i - 1] * 256 + head[i]
    <2>1. \A i \in 3..10 : i \in 2..10 /\ i # 2
        OBVIOUS
    <2> HIDE DEF g
    <2> QED BY <1>10, <2>1
<1>15. g[10] = size
    BY <1>1 DEF Shifts
<1> HIDE DEF g
<1>16. read[3] = g[3] /\ read[4] = g[4] /\ read[5] = g[5] /\ read[6] = g[6]
    BY <1>13, <1>14
<1>17. read[7] = g[7] /\ read[8] = g[8] /\ read[9] = g[9] /\ read[10] = g[10]
    BY <1>13, <1>14, <1>16
<1> QED BY <1>7, <1>9, <1>15, <1>17

\* The frame is that of the event.
FrameInv == frame # None => eventSize \in EventSizes /\ frame = FrameHeader(eventSize)

\* FrameInv is inductive: only Ingest broadcasts.
LEMMA FrameInvariant == Spec => []FrameInv
<1>1. Init => FrameInv
    BY DEF Init, FrameInv
<1>2. FrameInv /\ [Next]_vars => FrameInv'
    <2> SUFFICES ASSUME FrameInv, [Next]_vars PROVE FrameInv'
        OBVIOUS
    <2>1. CASE UNCHANGED <<frame, eventSize>>
        BY <2>1 DEF FrameInv
    <2>2. ASSUME NEW request, Ingest(request) PROVE FrameInv'
        <3>1. CASE UNCHANGED <<eventSize, frame>>
            BY <3>1 DEF FrameInv
        <3>2. CASE eventSize' \in EventSizes /\ frame' = FrameHeader(eventSize')
            BY <3>2 DEF FrameInv
        <3> QED BY <2>2, <3>1, <3>2 DEF Ingest
    <2>3. UNCHANGED <<frame, eventSize>> \/ \E request : Ingest(request)
        BY DEF Next, Recv, RecvEnds, HandleClient, NoRequest, InvalidRequest, RouteOther, vars
    <2> QED BY <2>1, <2>2, <2>3
<1> QED BY <1>1, <1>2, PTL DEF Spec

\* FrameIsRead: a client reads the size of every event from the head of its
\* frame, in whichever of the three forms it is.
THEOREM FramesAreRead == Spec => []FrameIsRead
<1>1. FrameInv => FrameIsRead
    <2> DEFINE read == /\ Len(frame) = CASE frame[2] < 126 -> 2 [] frame[2] = 126 -> 4
                                         [] frame[2] = 127 -> 10
                       /\ SizeRead(frame) = eventSize
    <2>0. FrameIsRead = (frame # None => read)
        BY DEF FrameIsRead
    <2> HIDE DEF read
    <2> SUFFICES ASSUME FrameInv, frame # None PROVE read
        BY <2>0
    <2>1. PICK size, head : size = eventSize /\ head = frame
        OBVIOUS
    <2>2. size \in Nat /\ Shifted(size, 8) = 0 /\ head = FrameHeader(size)
        BY <2>1, EventsAssumption DEF FrameInv
    <2>3. CASE size <= 125
        <3>1. head = <<129, size>>
            BY <2>2, <2>3 DEF FrameHeader
        <3>2. Len(head) = 2 /\ head[2] = size /\ head[2] < 126
            BY <2>2, <2>3, <3>1
        <3>3. SizeRead(head) = size
            BY <2>2, <3>2 DEF SizeRead
        <3> QED BY <2>1, <2>2, <3>2, <3>3 DEF read
    <2>4. CASE size > 125 /\ size <= 65535
        <3>1. PICK a, b : a = size \div 256 /\ b = size % 256
            OBVIOUS
        <3>2. a \in Nat /\ b \in Nat /\ a * 256 + b = size
            BY <2>2, <3>1
        <3>3. head = <<129, 126, a, b>>
            BY <2>2, <2>4, <3>1 DEF FrameHeader
        <3>4. Len(head) = 4 /\ head[2] = 126 /\ head[3] = a /\ head[4] = b
            BY <3>3
        <3>5. SizeRead(head) = size
            BY <3>2, <3>4 DEF SizeRead
        <3> QED BY <2>1, <3>4, <3>5 DEF read
    <2>5. CASE size > 65535
        <3>1. LongHeader(head, size)
            BY <2>2, <2>5 DEF FrameHeader, LongHeader
        <3>2. Len(head) = 10 /\ head[2] = 127 /\ SizeRead(head) = size
            BY <2>2, <3>1, BytesRead
        <3> QED BY <2>1, <3>2 DEF read
    <2> QED BY <2>2, <2>3, <2>4, <2>5
<1> QED BY <1>1, FrameInvariant, PTL

-----------------------------------------------------------------------------
(* What is accepted *)

\* Nothing is found in an empty text.
LEMMA NothingFound ==
    ASSUME NEW text, IsText(text), Len(text) = 0, NEW key
    PROVE  ExtractStringValue(text, key) = None
<1> DEFINE Form(v) == At(text, v) = Quote /\ ClosingQuote(text, v + 1) # 0
           found == {i \in DOMAIN text : text[i] = key /\ Form(ValueAt(text, i))}
           begin == IF found = {} THEN 0 ELSE ValueAt(text, Min(found))
<1>1. ExtractStringValue(text, key) =
        IF begin = 0 THEN None ELSE SubSeq(text, begin + 1, ClosingQuote(text, begin + 1) - 1)
    BY DEF ExtractStringValue, SearchValue
<1>2. DOMAIN text = {}
    BY TextLength
<1>3. found = {}
    BY <1>2
<1> HIDE DEF found
<1> QED BY <1>1, <1>3

\* A request without a body has none, however much of it was read.
LEMMA OthersEnd ==
    ASSUME NEW s \in Others, NEW n \in 0..Len(s.text), NEW raw, raw = SubSeq(s.text, 1, n)
    PROVE  HeaderEnd(raw) = 0 \/ HeaderEnd(raw) + 3 = Len(raw)
<1>1. PICK a \in Asked : s.text = RequestText(a.method, a.target, None, <<>>)
    BY DEF Others
<1>2. PICK m, target, body, length, text :
        /\ m = a.method /\ target = a.target /\ body = <<>> /\ length = None /\ text = s.text
    OBVIOUS
<1>3. m \in Symbols
    BY <1>2, SymbolsAre
<1>4. target \in Seq(STRING) /\ m # Cr /\ \A x \in ToSet(target) : x # Cr
    BY <1>2, AskedAre
<1>5. \A i \in 1..Len(target) : target[i] \in ToSet(target)
    BY <1>4 DEF ToSet
<1>6. Line(target)
    BY <1>4, <1>5 DEF Line
<1>7. target \in Seq(Symbols) /\ body \in Seq(Symbols)
    <2>1. Seq(STRING) \subseteq Seq(Symbols)
        BY SymbolsAre, SeqMonotonic
    <2> QED BY <1>2, <1>4, <2>1
<1>8. PICK x, d : x = HeaderLine(length, body) /\ d = Decimal[Len(body) + length]
    OBVIOUS
<1>9. x \in Seq(Symbols) /\ Line(x) /\ Len(x) # 0
    BY <1>2, <1>8, HeaderLineIs
<1>10. Written(text, m, target, x, body)
    BY <1>1, <1>2, <1>8, RequestWritten
<1>11. Formed(text, Symbols, m, target, x, body)
    BY <1>3, <1>7, <1>9, <1>10, SymbolsAre, RequestFormed
<1>12. PICK h : h = Len(target) + Len(x) + 7
    OBVIOUS
<1>13. HeadIs(h, target, x) /\ Cut(raw, text, n)
    BY <1>2, <1>12 DEF HeadIs, Cut
<1>14. HeaderEnd(raw) = IF n < h + 3 THEN 0 ELSE h
    BY <1>4, <1>6, <1>9, <1>11, <1>13, HeadEnds
<1>15. text \in Seq(Symbols) /\ Len(text) = h + 3 /\ h \in Nat
    BY <1>2, <1>7, <1>9, <1>11, <1>12 DEF Formed
<1>16. Len(raw) = n /\ n \in Nat /\ n <= Len(text)
    <2>1. n \in 0..Len(text) /\ raw = SubSeq(text, 1, n)
        BY <1>2
    <2>2. Len(raw) = n
        BY <1>15, <2>1, PrefixIs
    <2> QED BY <1>15, <2>1, <2>2
<1> QED BY <1>14, <1>15, <1>16

\* So no packet is found in it.
LEMMA OthersUnparsed ==
    ASSUME NEW s \in Others, NEW n \in 0..Len(s.text), NEW raw, raw = SubSeq(s.text, 1, n),
           NEW request, request = ParseHttpRequest(raw), request # None,
           NEW json, json = ParseTelemetryPacketJson(request.body)
    PROVE  ~json.ok
<1>1. SUFFICES ASSUME json.ok PROVE FALSE
    OBVIOUS
<1>2. Len(raw) = n /\ n \in Nat /\ HeaderEnd(raw) \in Nat
    <2>1. s \in Posts \cup Others
        OBVIOUS
    <2>2. Len(s.text) \in Nat
        BY <2>1, SentReads
    <2>3. Len(raw) = n /\ HeaderEnd(raw) \in Nat
        BY <2>1, RawIs
    <2> QED BY <2>2, <2>3
<1>3. PICK k, b : k = HeaderEnd(raw) + 4 /\ b = Len(raw)
    OBVIOUS
<1>4. request.body = SubSeq(raw, k, b) /\ HeaderEnd(raw) # 0
    BY <1>3 DEF ParseHttpRequest
<1>5. k \in Nat /\ b \in Nat /\ k = b + 1
    <2>1. HeaderEnd(raw) = 0 \/ HeaderEnd(raw) + 3 = Len(raw)
        BY OthersEnd
    <2> QED BY <1>2, <1>3, <1>4, <2>1
<1>6. PICK t : t = request.body
    OBVIOUS
<1>7. t = SubSeq(raw, k, b)
    BY <1>4, <1>6
<1>8. IsText(t)
    BY <1>5, <1>7, TextOfPart
<1>9. Len(t) \in Nat /\ \A i \in 1..Len(t) : k + i - 1 \in k..b
    BY <1>5, <1>7, TextOfPart
<1>10. Len(t) = 0
    <2>1. \A i \in 1..Len(t) : FALSE
        BY <1>5, <1>9
    <2>2. Len(t) # 0 => 1 \in 1..Len(t)
        BY <1>9
    <2> QED BY <2>1, <2>2
<1>11. ExtractStringValue(t, "deviceId") = None
    BY <1>8, <1>10, NothingFound
<1>12. ExtractStringValue(t, "deviceId") # None
    BY <1>1, <1>6, <1>8, PacketIsReadable
<1> QED BY <1>11, <1>12

\* What is accepted came with the digest of what the device hashed.
SignedInv ==
    result # None /\ result.accepted =>
        /\ sent \in Posts
        /\ Readable(parsed) /\ HashedText(parsed) = HashedText(sent.packet)

\* SignedInv is inductive: a body without a packet is not ingested, and the
\* guards of Ingest compare digests (ingest_service.cpp:54-62).
LEMMA SignedInvariant == Spec => []SignedInv
<1>1. Init => SignedInv
    BY DEF Init, SignedInv
<1>2. ReadInv /\ SignedInv /\ [Next]_vars => SignedInv'
    <2> SUFFICES ASSUME ReadInv, SignedInv, [Next]_vars PROVE SignedInv'
        OBVIOUS
    <2>0. sent' = sent
        BY DEF Next, Recv, RecvEnds, HandleClient, vars
    <2>1. CASE UNCHANGED <<result, parsed>>
        BY <2>0, <2>1 DEF SignedInv
    <2>2. CASE ~UNCHANGED <<result, parsed>>
        <3>1. PICK request : request = ParseHttpRequest(Raw) /\ Ingest(request)
            BY <2>2 DEF Next, Recv, RecvEnds, HandleClient, NoRequest, InvalidRequest,
                        RouteOther, vars
        <3>2. PICK json : /\ json = ParseTelemetryPacketJson(request.body) /\ json.ok
                          /\ parsed' = json.packet /\ result' = IngestResult(parsed')
            BY <2>2, <3>1 DEF Ingest
        <3>3. request # None
            BY <3>1 DEF Ingest
        <3>4. got \in 0..Len(sent.text) /\ Raw = SubSeq(sent.text, 1, got) /\ Len(Raw) \in Nat
            <4>1. sent.text \in Seq(Symbols)
                BY SentReads DEF ReadInv
            <4>2. Len(sent.text) \in Nat
                BY <4>1
            <4> QED BY <4>2 DEF ReadInv, Raw
        <3>5. sent \in Posts
            <4>1. CASE sent \in Others
                <5>1. ~json.ok
                    BY <3>1, <3>2, <3>3, <3>4, <4>1, OthersUnparsed
                <5> QED BY <3>2, <5>1
            <4> QED BY <4>1 DEF ReadInv
        <3>6. IsText(request.body)
            BY <3>1, <3>3, <3>4, BodyIsText
        <3>7. Readable(parsed')
            BY <3>2, <3>6, PacketIsReadable
        <3>8. ASSUME result'.accepted PROVE HashedText(parsed') = HashedText(sent.packet)
            <4>1. CASE Valid(parsed')
                BY <4>1 DEF Valid
            <4>2. CASE ~Valid(parsed')
                <5>1. result'.accepted = FALSE
                    BY <3>2, <4>2 DEF IngestResult
                <5> QED BY <3>8, <5>1
            <4> QED BY <4>1, <4>2
        <3> QED BY <2>0, <3>5, <3>7, <3>8 DEF SignedInv
    <2> QED BY <2>1, <2>2
<1> QED BY <1>1, <1>2, ReadInvariant, PTL DEF Spec

\* AcceptedIsSigned: whatever is cut, mistaken or declared wrongly, a packet is
\* accepted only as its device signed it.
THEOREM AcceptedAsSigned == Spec => []AcceptedIsSigned
<1>1. SignedInv => AcceptedIsSigned
    <2> SUFFICES ASSUME SignedInv, result # None, result.accepted
                 PROVE  \A f \in SignedFields : parsed[f] = sent.packet[f]
        BY DEF AcceptedIsSigned
    <2>1. sent \in Posts /\ Readable(parsed) /\ HashedText(parsed) = HashedText(sent.packet)
        BY DEF SignedInv
    <2>2. PICK p \in Packets : sent.packet = p
        BY <2>1, PostIs
    <2>3. Readable(p)
        BY PacketsReadable
    <2>4. /\ p.deviceId = parsed.deviceId /\ p.timestamp = parsed.timestamp
          /\ p.telemetryJson = parsed.telemetryJson
        BY <2>1, <2>2, <2>3, HashedTexts
    <2> QED BY <2>2, <2>4 DEF SignedFields
<1> QED BY <1>1, SignedInvariant, PTL
================================================================================
