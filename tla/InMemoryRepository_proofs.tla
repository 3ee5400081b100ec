---------------------- MODULE InMemoryRepository_proofs ----------------------
(***************************************************************************)
(* The indexes of InMemoryTelemetryRepository are what a scan of its       *)
(* records would give, and the repository, read as a table, is the one     *)
(* that SQLiteTelemetryRepository keeps.                                   *)
(***************************************************************************)
EXTENDS InMemoryRepository, FiniteSetTheorems, SequenceTheorems,
        WellFoundedInduction, TLAPS

(***************************************************************************)
(* Rising lists of record ids                                              *)
(***************************************************************************)

\* s is the rising list of these ids, each of them once.
Lists(s, ids) ==
    /\ s \in Seq(Nat)
    /\ \A i, j \in 1..Len(s) : i < j => s[i] < s[j]
    /\ \A n : n \in ids <=> \E i \in 1..Len(s) : s[i] = n

\* Two different lists of ids differ first somewhere, so some ids have a least
\* element.
LEMMA LeastNatural ==
    ASSUME NEW T \in SUBSET Nat, T # {}
    PROVE  \E m \in T : \A k \in T : m <= k
<1> DEFINE R == {p \in Nat \X Nat : p[1] < p[2]}
<1>1. IsWellFoundedOn(R, Nat)
    BY NatLessThanWellFounded DEF OpToRel
<1>2. PICK m \in T : \A k \in T : <<k, m>> \notin R
    <2> HIDE DEF R
    <2> QED BY <1>1, WFMin
<1>3. \A k \in T : ~(k < m)
    BY <1>2
<1> QED BY <1>3

\* Keep leaves a rising list rising, and no element out.
LEMMA KeepLists ==
    ASSUME NEW s \in Seq(Nat), \A i, j \in 1..Len(s) : i < j => s[i] < s[j],
           NEW P \in SUBSET (1..Len(s))
    PROVE  Lists(Keep(s, P), {s[i] : i \in P})
<1> DEFINE upto(i) == {j \in P : j <= i}
           rank    == [i \in P |-> Cardinality(upto(i))]
           c       == Cardinality(P)
           nth(k)  == CHOOSE i \in P : Cardinality(upto(i)) = k
<1>1. Len(s) \in Nat /\ P \subseteq Int /\ \A i \in P : s[i] \in Nat
    OBVIOUS
<1>2. IsFiniteSet(P) /\ c \in Nat
    <2>1. IsFiniteSet(1..Len(s))
        BY <1>1, FS_Interval
    <2> QED BY <2>1, FS_Subset, FS_CardinalityType
<1>3. ASSUME NEW i \in P
      PROVE  /\ IsFiniteSet(upto(i)) /\ Cardinality(upto(i)) \in 1..c
    <2>1. IsFiniteSet(upto(i)) /\ Cardinality(upto(i)) <= c /\ Cardinality(upto(i)) \in Nat
        BY <1>2, FS_Subset, FS_CardinalityType
    <2>2. i \in upto(i)
        BY <1>1
    <2>3. Cardinality(upto(i)) # 0
        BY <2>1, <2>2, FS_EmptySet
    <2> QED BY <1>2, <2>1, <2>3
<1>4. ASSUME NEW i \in P, NEW j \in P, i < j
      PROVE  Cardinality(upto(i)) < Cardinality(upto(j))
    <2>1. i \in Int /\ j \in Int /\ \A k \in P : k \in Int
        BY <1>1
    <2>2. \A k \in P : k <= i => k <= j
        BY <1>4, <2>1
    <2>3. upto(i) \in SUBSET upto(j)
        BY <2>2
    <2>4. j \in upto(j) /\ j \notin upto(i)
        BY <1>4, <2>1
    <2> HIDE DEF upto
    <2>5. /\ IsFiniteSet(upto(j))
          /\ Cardinality(upto(i)) \in Int /\ Cardinality(upto(j)) \in Int
        BY <1>2, <1>3
    <2>6. /\ Cardinality(upto(i)) <= Cardinality(upto(j))
          /\ Cardinality(upto(j)) = Cardinality(upto(i)) => upto(j) = upto(i)
        BY <2>3, <2>5, FS_Subset
    <2> QED BY <2>4, <2>5, <2>6
<1>5. \A i, j \in P : Cardinality(upto(i)) = Cardinality(upto(j)) => i = j
    <2> HIDE DEF upto
    <2>1. \A i \in P : i \in Int /\ Cardinality(upto(i)) \in Int
        BY <1>1, <1>3
    <2>2. \A i, j \in P : i = j \/ i < j \/ j < i
        BY <2>1
    <2> QED BY <1>4, <2>1, <2>2
<1>6. rank \in Injection(P, 1..c)
    BY <1>3, <1>5 DEF Injection, IsInjective
<1>7. rank \in Surjection(P, 1..c)
    <2> HIDE DEF rank
    <2>1. IsFiniteSet(1..c) /\ Cardinality(1..c) = c
        BY <1>2, FS_Interval
    <2> QED BY <1>2, <1>6, <2>1, FS_Injection
<1>8. \A k \in 1..c : \E i \in P : Cardinality(upto(i)) = k
    BY <1>7 DEF Surjection
<1>9. \A k \in 1..c : nth(k) \in P /\ Cardinality(upto(nth(k))) = k
    BY <1>8
<1>10. Keep(s, P) = [k \in 1..c |-> s[nth(k)]]
    BY DEF Keep
<1> HIDE DEF nth, c, upto, rank
<1>11. Keep(s, P) \in Seq(Nat) /\ Len(Keep(s, P)) = c
    <2>1. \A k \in 1..c : s[nth(k)] \in Nat
        BY <1>1, <1>9
    <2> QED BY <1>2, <1>10, <2>1
<1>12. \A k, l \in 1..c : k < l => Keep(s, P)[k] < Keep(s, P)[l]
    <2> SUFFICES ASSUME NEW k \in 1..c, NEW l \in 1..c, k < l
                 PROVE  s[nth(k)] < s[nth(l)]
        BY <1>10
    <2>0. nth(k) \in P /\ nth(l) \in P
        BY <1>9
    <2>1. nth(k) \in Int /\ nth(l) \in Int /\ k \in Int /\ l \in Int
        <3>1. nth(k) \in Int /\ nth(l) \in Int
            BY <1>1, <2>0
        <3>2. k \in Int /\ l \in Int
            BY <1>2
        <3> QED BY <3>1, <3>2
    <2>2. ~(nth(l) < nth(k))
        BY <1>4, <1>9, <2>0, <2>1
    <2>3. nth(k) # nth(l)
        BY <1>9, <2>1
    <2>4. nth(k) < nth(l)
        BY <2>1, <2>2, <2>3
    <2> QED BY <2>0, <2>4
<1>13. \A n : n \in {s[i] : i \in P} <=> \E k \in 1..c : Keep(s, P)[k] = n
    <2>1. \A k \in 1..c : Keep(s, P)[k] \in {s[i] : i \in P}
        BY <1>9, <1>10
    <2>2. ASSUME NEW i \in P
          PROVE  \E k \in 1..c : Keep(s, P)[k] = s[i]
        <3>1. nth(Cardinality(upto(i))) = i
            BY <1>3, <1>5, <1>9
        <3> QED BY <1>3, <1>10, <3>1
    <2> QED BY <2>1, <2>2
<1> QED BY <1>11, <1>12, <1>13 DEF Lists

\* There is one rising list of a set of ids.
LEMMA SameList ==
    ASSUME NEW s, NEW t, NEW ids, Lists(s, ids), Lists(t, ids)
    PROVE  s = t
<1> DEFINE D == {i \in Nat \ {0} : \/ i \in 1..Len(s) /\ i \notin 1..Len(t)
                                   \/ i \in 1..Len(t) /\ i \notin 1..Len(s)
                                   \/ i \in 1..Len(s) /\ i \in 1..Len(t) /\ s[i] # t[i]}
<1>1. /\ s \in Seq(Nat) /\ Len(s) \in Nat /\ \A i \in 1..Len(s) : s[i] \in Nat
      /\ t \in Seq(Nat) /\ Len(t) \in Nat /\ \A i \in 1..Len(t) : t[i] \in Nat
    BY DEF Lists
<1>2. ASSUME NEW a, NEW b, Lists(a, ids), Lists(b, ids), NEW m \in 1..Len(a),
             \A i \in 1..(m - 1) : i \in 1..Len(b) /\ a[i] = b[i]
      PROVE  m \in 1..Len(b) /\ b[m] <= a[m]
    <2>1. /\ a \in Seq(Nat) /\ Len(a) \in Nat /\ \A i \in 1..Len(a) : a[i] \in Nat
          /\ b \in Seq(Nat) /\ Len(b) \in Nat /\ \A i \in 1..Len(b) : b[i] \in Nat
        BY <1>2 DEF Lists
    <2>2. PICK j \in 1..Len(b) : b[j] = a[m]
        BY <1>2 DEF Lists
    <2>3. ~(j < m)
        <3> SUFFICES ASSUME j < m PROVE FALSE
            OBVIOUS
        <3>1. j \in 1..(m - 1) /\ j \in 1..Len(a) /\ a[j] = b[j]
            BY <1>2, <2>1
        <3>2. a[j] < a[m]
            BY <1>2, <3>1 DEF Lists
        <3> QED BY <2>1, <2>2, <3>1, <3>2
    <2>4. m \in 1..Len(b)
        BY <2>1, <2>3
    <2>5. m = j \/ b[m] < b[j]
        BY <1>2, <2>1, <2>3, <2>4 DEF Lists
    <2> QED BY <2>1, <2>2, <2>4, <2>5
<1>3. D = {}
    <2> SUFFICES ASSUME D # {} PROVE FALSE
        OBVIOUS
    <2>1. PICK m \in D : \A k \in D : m <= k
        <3>1. D \in SUBSET Nat
            OBVIOUS
        <3> HIDE DEF D
        <3> QED BY <3>1, LeastNatural
    <2>2. \A i \in 1..(m - 1) : i \notin D
        BY <2>1
    <2>3. CASE m \in 1..Len(s)
        <3>1. \A i \in 1..(m - 1) : i \in 1..Len(t) /\ s[i] = t[i]
            BY <1>1, <2>2, <2>3
        <3>2. m \in 1..Len(t) /\ t[m] <= s[m]
            BY <1>2, <2>3, <3>1
        <3>3. \A i \in 1..(m - 1) : i \in 1..Len(s) /\ t[i] = s[i]
            BY <1>1, <2>3, <3>1
        <3>4. s[m] <= t[m]
            BY <1>2, <3>2, <3>3
        <3>5. s[m] = t[m]
            BY <1>1, <2>3, <3>2, <3>4
        <3> QED BY <2>1, <2>3, <3>2, <3>5
    <2>4. CASE m \in 1..Len(t)
        <3>1. \A i \in 1..(m - 1) : i \in 1..Len(s) /\ t[i] = s[i]
            BY <1>1, <2>2, <2>4
        <3>2. m \in 1..Len(s) /\ s[m] <= t[m]
            BY <1>2, <2>4, <3>1
        <3> QED BY <2>3, <3>2
    <2> QED BY <2>1, <2>3, <2>4
<1>4. Len(s) = Len(t)
    <2>1. Len(s) \in D \/ Len(s) = 0 \/ Len(s) <= Len(t)
        BY <1>1
    <2>2. Len(t) \in D \/ Len(t) = 0 \/ Len(t) <= Len(s)
        BY <1>1
    <2> QED BY <1>1, <1>3, <2>1, <2>2
<1>5. ASSUME NEW i \in 1..Len(s)
      PROVE  s[i] = t[i]
    <2>1. i \in Nat \ {0} /\ i \in 1..Len(t)
        BY <1>1, <1>4
    <2> QED BY <1>3, <2>1
<1> QED BY <1>1, <1>4, <1>5, SeqEqual

\* push_back of an id greater than all that are there.
LEMMA AppendLists ==
    ASSUME NEW s, NEW ids, Lists(s, ids), NEW n \in Nat, \A m \in ids : m < n
    PROVE  Lists(Append(s, n), ids \cup {n})
<1> DEFINE t == Append(s, n)
<1>1. s \in Seq(Nat) /\ Len(s) \in Nat /\ \A i \in 1..Len(s) : s[i] \in Nat /\ s[i] \in ids
    BY DEF Lists
<1>2. /\ t \in Seq(Nat) /\ Len(t) = Len(s) + 1
      /\ \A i \in 1..Len(s) : t[i] = s[i]
      /\ t[Len(s) + 1] = n
    BY <1>1
<1> HIDE DEF t
<1>3. ASSUME NEW i \in 1..Len(t), NEW j \in 1..Len(t), i < j
      PROVE  t[i] < t[j]
    <2>1. i \in 1..Len(s)
        BY <1>1, <1>2, <1>3
    <2>2. CASE j \in 1..Len(s)
        BY <1>2, <1>3, <2>1, <2>2 DEF Lists
    <2>3. CASE j = Len(s) + 1
        BY <1>1, <1>2, <2>1, <2>3
    <2> QED BY <1>1, <1>2, <2>2, <2>3
<1>4. ASSUME NEW m
      PROVE  m \in ids \cup {n} <=> \E i \in 1..Len(t) : t[i] = m
    <2>1. ASSUME m \in ids PROVE \E i \in 1..Len(t) : t[i] = m
        <3>1. PICK i \in 1..Len(s) : s[i] = m
            BY <2>1 DEF Lists
        <3> QED BY <1>1, <1>2, <3>1
    <2>2. Len(s) + 1 \in 1..Len(t)
        BY <1>1, <1>2
    <2>3. ASSUME NEW i \in 1..Len(t) PROVE t[i] \in ids \cup {n}
        <3>1. i \in 1..Len(s) \/ i = Len(s) + 1
            BY <1>1, <1>2
        <3> QED BY <1>1, <1>2, <3>1
    <2> QED BY <1>2, <2>1, <2>2, <2>3
<1> QED BY <1>2, <1>3, <1>4 DEF Lists, t

(***************************************************************************)
(* The indexes by device and by batch                                      *)
(***************************************************************************)

\* f maps every key but those in none to the rising list of its ids, and holds
\* no key without ids; key gives each id's key.
IdLists(f, key, none) ==
    /\ DOMAIN f = {key[id] : id \in DOMAIN key} \ none
    /\ \A k \in DOMAIN f : Lists(f[k], {id \in DOMAIN key : key[id] = k})

\* Save: the new id under its key, at the end.
LEMMA IdListsAfterSave ==
    ASSUME NEW f, NEW key, NEW none, IdLists(f, key, none), DOMAIN key \subseteq Nat,
           NEW id \in Nat, \A m \in DOMAIN key : m < id,
           NEW key2, DOMAIN key2 = DOMAIN key \cup {id},
           \A m \in DOMAIN key : key2[m] = key[m]
    PROVE  /\ key2[id] \notin none => IdLists(Append1(f, key2[id], id), key2, none)
           /\ key2[id] \in none => IdLists(f, key2, none)
<1> DEFINE idsOf(k)  == {m \in DOMAIN key : key[m] = k}
           idsOf2(k) == {m \in DOMAIN key2 : key2[m] = k}
<1>1. id \notin DOMAIN key
    OBVIOUS
<1>2. idsOf2(key2[id]) = idsOf(key2[id]) \cup {id}
    BY <1>1
<1>3. \A k : k # key2[id] => idsOf2(k) = idsOf(k)
    BY <1>1
<1>4. {key2[m] : m \in DOMAIN key2} = {key[m] : m \in DOMAIN key} \cup {key2[id]}
    BY <1>1
<1>5. ASSUME key2[id] \notin none
      PROVE  IdLists(Append1(f, key2[id], id), key2, none)
    <2> DEFINE g == Append1(f, key2[id], id)
    <2>1. DOMAIN g = DOMAIN f \cup {key2[id]}
        BY DEF Append1, Put
    <2>2. \A k \in DOMAIN f : k # key2[id] => g[k] = f[k]
        BY DEF Append1, Put
    <2>3. Lists(g[key2[id]], idsOf2(key2[id]))
        <3>1. CASE key2[id] \in DOMAIN f
            <4>1. g[key2[id]] = Append(f[key2[id]], id)
                BY <3>1 DEF Append1, Put
            <4>2. Lists(f[key2[id]], idsOf(key2[id]))
                BY <3>1 DEF IdLists
            <4>3. \A m \in idsOf(key2[id]) : m < id
                OBVIOUS
            <4> HIDE DEF g, idsOf, idsOf2
            <4> QED BY <1>2, <4>1, <4>2, <4>3, AppendLists
        <3>2. CASE key2[id] \notin DOMAIN f
            <4>1. g[key2[id]] = <<id>>
                BY <3>2 DEF Append1, Put
            <4>2. idsOf(key2[id]) = {}
                BY <1>5, <3>2 DEF IdLists
            <4> HIDE DEF g, idsOf, idsOf2
            <4>3. Lists(<<id>>, {id})
                BY DEF Lists
            <4> QED BY <1>2, <4>1, <4>2, <4>3
        <3> QED BY <3>1, <3>2
    <2> HIDE DEF g
    <2>4. DOMAIN g = {key2[m] : m \in DOMAIN key2} \ none
        BY <1>4, <1>5, <2>1 DEF IdLists
    <2>5. ASSUME NEW k \in DOMAIN g
          PROVE  Lists(g[k], idsOf2(k))
        <3>1. CASE k = key2[id]
            BY <2>3, <3>1
        <3>2. CASE k # key2[id]
            <4>1. k \in DOMAIN f /\ g[k] = f[k] /\ idsOf2(k) = idsOf(k)
                BY <1>3, <2>1, <2>2, <3>2
            <4> QED BY <4>1 DEF IdLists
        <3> QED BY <3>1, <3>2
    <2> QED BY <2>4, <2>5 DEF IdLists, g
<1>6. ASSUME key2[id] \in none
      PROVE  IdLists(f, key2, none)
    <2>1. DOMAIN f = {key2[m] : m \in DOMAIN key2} \ none
        BY <1>4, <1>6 DEF IdLists
    <2>2. ASSUME NEW k \in DOMAIN f
          PROVE  Lists(f[k], idsOf2(k))
        <3>1. k # key2[id]
            BY <1>6 DEF IdLists
        <3>2. Lists(f[k], idsOf(k))
            BY DEF IdLists
        <3> QED BY <1>3, <3>1, <3>2
    <2> QED BY <2>1, <2>2 DEF IdLists
<1> QED BY <1>5, <1>6

\* eraseRecordId: the id leaves its list, the key leaves with its last id.
LEMMA IdListsAfterDelete ==
    ASSUME NEW f, NEW key, NEW none, IdLists(f, key, none), DOMAIN key \subseteq Nat,
           NEW id \in DOMAIN key,
           NEW key2, DOMAIN key2 = DOMAIN key \ {id},
           \A m \in DOMAIN key2 : key2[m] = key[m]
    PROVE  /\ key[id] \notin none => IdLists(Erase(f, key[id], id), key2, none)
           /\ key[id] \in none => IdLists(f, key2, none)
<1> DEFINE idsOf(k)  == {m \in DOMAIN key : key[m] = k}
           idsOf2(k) == {m \in DOMAIN key2 : key2[m] = k}
<1>1. idsOf2(key[id]) = idsOf(key[id]) \ {id}
    OBVIOUS
<1>2. \A k : k # key[id] => idsOf2(k) = idsOf(k)
    OBVIOUS
<1>3. \A k : k \in {key2[m] : m \in DOMAIN key2} <=> idsOf2(k) # {}
    OBVIOUS
<1>4. \A k : k \in {key[m] : m \in DOMAIN key} <=> idsOf(k) # {}
    OBVIOUS
<1>5. ASSUME key[id] \notin none
      PROVE  IdLists(Erase(f, key[id], id), key2, none)
    <2> DEFINE s    == f[key[id]]
               P    == {i \in DOMAIN s : s[i] # id}
               left == Keep(s, P)
               g    == Erase(f, key[id], id)
    <2>1. key[id] \in DOMAIN f
        BY <1>5 DEF IdLists
    <2>2. Lists(s, idsOf(key[id]))
        BY <2>1 DEF IdLists
    <2>3. Lists(left, idsOf2(key[id]))
        <3>1. s \in Seq(Nat) /\ DOMAIN s = 1..Len(s)
              /\ \A i, j \in 1..Len(s) : i < j => s[i] < s[j]
            BY <2>2 DEF Lists
        <3>2. P \in SUBSET (1..Len(s))
            BY <3>1
        <3>3. {s[i] : i \in P} = idsOf2(key[id])
            <4>1. \A n : n \in idsOf(key[id]) <=> \E i \in DOMAIN s : s[i] = n
                BY <2>2, <3>1 DEF Lists
            <4> HIDE DEF s, idsOf, idsOf2
            <4> QED BY <1>1, <4>1
        <3> HIDE DEF s, P, idsOf2
        <3> QED BY <3>1, <3>2, <3>3, KeepLists
    <2>4. left = <<>> <=> idsOf2(key[id]) = {}
        <3> HIDE DEF left, idsOf2
        <3>1. left \in Seq(Nat) /\ Len(left) \in Nat
            BY <2>3 DEF Lists
        <3>2. left = <<>> <=> Len(left) = 0
            BY <3>1
        <3>3. idsOf2(key[id]) = {} <=> 1..Len(left) = {}
            BY <2>3 DEF Lists
        <3> QED BY <3>1, <3>2, <3>3
    <2>5. g = IF left = <<>> THEN Without(f, key[id]) ELSE Put(f, key[id], left)
        BY <2>1 DEF Erase
    <2>6. \A k : k # key[id] => /\ k \in DOMAIN g <=> k \in DOMAIN f
                                /\ k \in DOMAIN f => g[k] = f[k]
        BY <2>5 DEF Without, Put
    <2>7. /\ key[id] \in DOMAIN g <=> idsOf2(key[id]) # {}
          /\ key[id] \in DOMAIN g => g[key[id]] = left
        BY <2>4, <2>5 DEF Without, Put
    <2> HIDE DEF g, left, idsOf, idsOf2
    <2>8. ASSUME NEW k
          PROVE  k \in DOMAIN g <=> k \in {key2[m] : m \in DOMAIN key2} \ none
        BY <1>2, <1>3, <1>4, <1>5, <2>6, <2>7 DEF IdLists
    <2>9. ASSUME NEW k \in DOMAIN g
          PROVE  Lists(g[k], idsOf2(k))
        <3>1. CASE k = key[id]
            BY <2>3, <2>7, <3>1
        <3>2. CASE k # key[id]
            <4>1. k \in DOMAIN f /\ g[k] = f[k] /\ idsOf2(k) = idsOf(k)
                BY <1>2, <2>6, <3>2
            <4>2. Lists(f[k], idsOf(k))
                BY <4>1 DEF IdLists, idsOf
            <4> QED BY <4>1, <4>2
        <3> QED BY <3>1, <3>2
    <2>10. DOMAIN g = {key2[m] : m \in DOMAIN key2} \ none
        BY <2>8
    <2> QED BY <2>9, <2>10 DEF IdLists, g, idsOf2
<1>6. ASSUME key[id] \in none
      PROVE  IdLists(f, key2, none)
    <2> HIDE DEF idsOf, idsOf2
    <2>1. \A k \in DOMAIN f : k # key[id]
        BY <1>6 DEF IdLists
    <2>2. ASSUME NEW k
          PROVE  k \in DOMAIN f <=> k \in {key2[m] : m \in DOMAIN key2} \ none
        BY <1>2, <1>3, <1>4, <1>6 DEF IdLists
    <2>3. ASSUME NEW k \in DOMAIN f
          PROVE  Lists(f[k], idsOf2(k))
        <3>1. Lists(f[k], idsOf(k))
            BY DEF IdLists, idsOf
        <3> QED BY <1>2, <2>1, <3>1
    <2>4. DOMAIN f = {key2[m] : m \in DOMAIN key2} \ none
        BY <2>2
    <2> QED BY <2>3, <2>4 DEF IdLists, idsOf2
<1> QED BY <1>5, <1>6

(***************************************************************************)
(* The inductive invariant                                                 *)
(***************************************************************************)

Record == [recordId : Nat, packet : Packets, receipt : Receipts \cup {NoReceipt}]

\* Ids rise along records_: push_back gives the next one, erase keeps the order.
ByNumber(r) == \A i, j \in 1..Len(r) : i < j => r[i].recordId < r[j].recordId

Numbered ==
    /\ nextRecordId \in 1..(MaxRows + 1)
    /\ records \in Seq(Record)
    /\ ByNumber(records)
    /\ \A i \in 1..Len(records) : records[i].recordId \in 1..(nextRecordId - 1)

Placed ==
    /\ DOMAIN positionById = Ids(records)
    /\ \A i \in 1..Len(records) : positionById[records[i].recordId] = i

\* A transaction is indexed while a record holds it, and under that record.
TxIndexed ==
    /\ \A i \in 1..Len(records) :
          LET receipt == records[i].receipt
          IN receipt # NoReceipt =>
                /\ receipt.txHash \in DOMAIN recordIdByTxHash
                /\ recordIdByTxHash[receipt.txHash] = records[i].recordId
    /\ \A t \in DOMAIN recordIdByTxHash :
          \E i \in 1..Len(records) : /\ records[i].receipt # NoReceipt
                                     /\ records[i].receipt.txHash = t

DeviceOf(r) == [id \in DOMAIN r |-> r[id].packet.deviceId]
BatchOf(r)  == [id \in DOMAIN r |-> r[id].packet.batchCode]

DevicesIndexed == IdLists(recordIdsByDevice, DeviceOf(AsRows), {})
BatchesIndexed == IdLists(recordIdsByBatch, BatchOf(AsRows), {""})

IndexInv == Numbered /\ Placed /\ TxIndexed /\ DevicesIndexed /\ BatchesIndexed

(***************************************************************************)
(* The records read as a table                                             *)
(***************************************************************************)

RowsOf(r) ==
    [id \in Ids(r) |->
        LET record == r[CHOOSE i \in DOMAIN r : r[i].recordId = id]
        IN [packet |-> record.packet, receipt |-> record.receipt]]

\* The row under an id is that of the one record with this id.
LEMMA RowsRead ==
    ASSUME NEW r \in Seq(Record), ByNumber(r)
    PROVE  /\ \A i, j \in 1..Len(r) : r[i].recordId = r[j].recordId => i = j
           /\ \A id : id \in DOMAIN RowsOf(r) <=> \E i \in 1..Len(r) : r[i].recordId = id
           /\ \A i \in 1..Len(r) : RowsOf(r)[r[i].recordId]
                                      = [packet |-> r[i].packet, receipt |-> r[i].receipt]
<1>1. DOMAIN r = 1..Len(r) /\ Len(r) \in Nat /\ \A i \in 1..Len(r) : r[i] \in Record
    OBVIOUS
<1>2. ASSUME NEW i \in 1..Len(r), NEW j \in 1..Len(r), r[i].recordId = r[j].recordId
      PROVE  i = j
    <2>1. i \in Int /\ j \in Int /\ r[i].recordId \in Int /\ r[j].recordId \in Int
        BY <1>1 DEF Record
    <2>2. ~(i < j) /\ ~(j < i)
        BY <1>2, <2>1 DEF ByNumber
    <2> QED BY <2>1, <2>2
<1>3. \A id : id \in Ids(r) <=> \E i \in 1..Len(r) : r[i].recordId = id
    BY <1>1 DEF Ids
<1>4. ASSUME NEW i \in 1..Len(r)
      PROVE  RowsOf(r)[r[i].recordId] = [packet |-> r[i].packet, receipt |-> r[i].receipt]
    <2> DEFINE n == CHOOSE j \in DOMAIN r : r[j].recordId = r[i].recordId
    <2>1. n \in 1..Len(r) /\ r[n].recordId = r[i].recordId
        BY <1>1
    <2>2. n = i
        BY <1>2, <2>1
    <2>3. RowsOf(r)[r[i].recordId] = [packet |-> r[n].packet, receipt |-> r[n].receipt]
        BY <1>3 DEF RowsOf
    <2> QED BY <2>2, <2>3
<1> QED BY <1>2, <1>3, <1>4 DEF RowsOf

\* A table with the record's row under each id, and no other id, is the rows.
LEMMA RowsAre ==
    ASSUME NEW r \in Seq(Record), ByNumber(r),
           NEW f, f = [id \in DOMAIN f |-> f[id]],
           \A id : id \in DOMAIN f <=> \E i \in 1..Len(r) : r[i].recordId = id,
           \A i \in 1..Len(r) :
               f[r[i].recordId] = [packet |-> r[i].packet, receipt |-> r[i].receipt]
    PROVE  RowsOf(r) = f
<1>0. \A i \in 1..Len(r) : RowsOf(r)[r[i].recordId]
                              = [packet |-> r[i].packet, receipt |-> r[i].receipt]
    BY RowsRead
<1>1. DOMAIN RowsOf(r) = DOMAIN f
    BY RowsRead
<1>2. ASSUME NEW id \in DOMAIN f
      PROVE  RowsOf(r)[id] = f[id]
    <2>1. PICK i \in 1..Len(r) : r[i].recordId = id
        OBVIOUS
    <2>2. RowsOf(r)[r[i].recordId] = [packet |-> r[i].packet, receipt |-> r[i].receipt]
        BY <1>0
    <2>3. f[r[i].recordId] = [packet |-> r[i].packet, receipt |-> r[i].receipt]
        OBVIOUS
    <2>4. RowsOf(r)[r[i].recordId] = f[r[i].recordId]
        BY <2>2, <2>3
    <2> QED BY <2>1, <2>4
<1>3. RowsOf(r) = [id \in DOMAIN RowsOf(r) |-> RowsOf(r)[id]]
    BY DEF RowsOf
<1> QED BY <1>1, <1>2, <1>3

\* The vector, read as a table, is the same function of ids.
LEMMA AsRowsAre == AsRows = RowsOf(records)
BY DEF AsRows, RowsOf

\* erase(begin() + position): those behind it move one place forward.
LEMMA Removed ==
    ASSUME NEW S, NEW s \in Seq(S), NEW p \in 1..Len(s)
    PROVE  /\ RemoveAt(s, p) \in Seq(S)
           /\ Len(RemoveAt(s, p)) = Len(s) - 1
           /\ \A i \in 1..(Len(s) - 1) :
                 RemoveAt(s, p)[i] = IF i < p THEN s[i] ELSE s[i + 1]
<1> DEFINE a == SubSeq(s, 1, p - 1)
           b == SubSeq(s, p + 1, Len(s))
<1>1. Len(s) \in Nat /\ p \in Nat /\ 1 <= p /\ p <= Len(s)
    OBVIOUS
<1>2. a \in Seq(S) /\ Len(a) = p - 1 /\ \A i \in 1..(p - 1) : a[i] = s[i]
    BY <1>1
<1>3. b \in Seq(S) /\ Len(b) = Len(s) - p /\ \A i \in 1..(Len(s) - p) : b[i] = s[p + i]
    BY <1>1
<1> HIDE DEF a, b
<1>4. /\ a \o b \in Seq(S)
      /\ Len(a \o b) = Len(a) + Len(b)
      /\ \A i \in 1..(Len(a) + Len(b)) :
            (a \o b)[i] = IF i <= Len(a) THEN a[i] ELSE b[i - Len(a)]
    BY <1>2, <1>3, ConcatProperties
<1>5. RemoveAt(s, p) = a \o b
    BY DEF RemoveAt, a, b
<1>6. ASSUME NEW i \in 1..(Len(s) - 1)
      PROVE  (a \o b)[i] = IF i < p THEN s[i] ELSE s[i + 1]
    <2>1. CASE i < p
        BY <1>1, <1>2, <1>3, <1>4, <2>1
    <2>2. CASE ~(i < p)
        <3>1. i - Len(a) \in 1..(Len(s) - p) /\ p + (i - Len(a)) = i + 1
            BY <1>1, <1>2, <2>2
        <3>2. (a \o b)[i] = b[i - Len(a)]
            BY <1>1, <1>2, <1>3, <1>4, <2>2
        <3> QED BY <1>3, <2>2, <3>1, <3>2
    <2> QED BY <2>1, <2>2
<1>7. Len(a) + Len(b) = Len(s) - 1
    BY <1>1, <1>2, <1>3
<1> QED BY <1>4, <1>5, <1>6, <1>7

(***************************************************************************)
(* The first state and the three operations that change the repository     *)
(***************************************************************************)

LEMMA InitIndexed == Init => IndexInv /\ Db!Init
<1> SUFFICES ASSUME Init PROVE IndexInv /\ Db!Init
    OBVIOUS
<1>1. records = <<>> /\ Len(records) = 0 /\ Ids(records) = {} /\ AsRows = [id \in {} |-> NoReceipt]
    BY DEF Init, Ids, AsRows
<1>2. DOMAIN <<>> = {}
    OBVIOUS
<1>3. Numbered
    BY <1>1, MaxRowsAssumption DEF Init, Numbered, ByNumber
<1>4. Placed /\ TxIndexed
    BY <1>1, <1>2 DEF Init, Placed, TxIndexed
<1>5. IdLists(<<>>, DeviceOf(AsRows), {}) /\ IdLists(<<>>, BatchOf(AsRows), {""})
    BY <1>1, <1>2 DEF IdLists, DeviceOf, BatchOf
<1>6. DevicesIndexed /\ BatchesIndexed
    BY <1>5 DEF Init, DevicesIndexed, BatchesIndexed
<1>7. Db!Init
    BY <1>1 DEF Init, Db!Init
<1> QED BY <1>3, <1>4, <1>6, <1>7 DEF IndexInv

\* Save is the INSERT: the row comes under the next id.
LEMMA SaveKeeps ==
    ASSUME IndexInv, nextRecordId <= MaxRows, NEW packet \in Packets, Save(packet)
    PROVE  /\ IndexInv'
           /\ AsRows' = [id \in DOMAIN AsRows \cup {nextRecordId} |->
                            IF id = nextRecordId
                            THEN [packet |-> packet, receipt |-> NoReceipt]
                            ELSE AsRows[id]]
<1> DEFINE r    == records
           n    == nextRecordId
           new  == [recordId |-> n, packet |-> packet, receipt |-> NoReceipt]
           r2   == Append(r, new)
           rows == RowsOf(r)
           rows2 == [id \in DOMAIN rows \cup {n} |->
                        IF id = n THEN [packet |-> packet, receipt |-> NoReceipt]
                        ELSE rows[id]]
<1>1. /\ n \in Nat /\ 1 <= n /\ n <= MaxRows /\ MaxRows \in Nat
      /\ r \in Seq(Record) /\ Len(r) \in Nat /\ new \in Record
      /\ \A i \in 1..Len(r) : r[i] \in Record /\ r[i].recordId \in 1..(n - 1)
    <2>1. n \in Nat /\ 1 <= n /\ n <= MaxRows /\ MaxRows \in Nat
        BY MaxRowsAssumption DEF IndexInv, Numbered
    <2>2. /\ r \in Seq(Record)
          /\ \A i \in 1..Len(r) : r[i].recordId \in 1..(n - 1)
        BY DEF IndexInv, Numbered
    <2>3. Len(r) \in Nat /\ \A i \in 1..Len(r) : r[i] \in Record
        BY <2>2
    <2>4. new \in Record
        BY <2>1 DEF Record
    <2> QED BY <2>1, <2>2, <2>3, <2>4
<1>2. /\ r2 \in Seq(Record) /\ Len(r2) = Len(r) + 1
      /\ \A i \in 1..Len(r) : r2[i] = r[i]
      /\ r2[Len(r) + 1] = new
    BY <1>1
<1>3. records' = r2 /\ nextRecordId' = n + 1
    BY DEF Save
<1> HIDE DEF new, r2
<1>4. ByNumber(r2)
    <2> SUFFICES ASSUME NEW i \in 1..Len(r2), NEW j \in 1..Len(r2), i < j
                 PROVE  r2[i].recordId < r2[j].recordId
        BY DEF ByNumber
    <2>1. i \in 1..Len(r)
        BY <1>1, <1>2
    <2>2. CASE j \in 1..Len(r)
        BY <1>2, <2>1, <2>2 DEF IndexInv, Numbered, ByNumber
    <2>3. CASE j = Len(r) + 1
        BY <1>1, <1>2, <2>1, <2>3 DEF new
    <2> QED BY <1>1, <1>2, <2>2, <2>3
<1>5. \A i \in 1..Len(r2) : r2[i].recordId \in 1..((n + 1) - 1)
    <2> SUFFICES ASSUME NEW i \in 1..Len(r2) PROVE r2[i].recordId \in 1..((n + 1) - 1)
        OBVIOUS
    <2>1. CASE i \in 1..Len(r)
        BY <1>1, <1>2, <2>1
    <2>2. CASE i = Len(r) + 1
        BY <1>1, <1>2, <2>2 DEF new
    <2> QED BY <1>1, <1>2, <2>1, <2>2
<1>6. Numbered'
    BY <1>1, <1>2, <1>3, <1>4, <1>5 DEF Numbered
<1>7. \A id : id \in Ids(r) <=> \E i \in 1..Len(r) : r[i].recordId = id
    BY <1>1 DEF Ids
<1>8. \A id : id \in Ids(r2) <=> id \in Ids(r) \cup {n}
    <2>1. DOMAIN r2 = 1..(Len(r) + 1) /\ Len(r) + 1 \in DOMAIN r2 /\ DOMAIN r = 1..Len(r)
        BY <1>1, <1>2
    <2>2. \A i \in DOMAIN r2 : i \in DOMAIN r \/ i = Len(r) + 1
        BY <1>1, <2>1
    <2>3. \A i \in DOMAIN r : i \in DOMAIN r2
        BY <1>1, <2>1
    <2> QED BY <1>2, <2>1, <2>2, <2>3 DEF Ids, new
<1>9. ByNumber(r)
    BY DEF IndexInv, Numbered
<1>10. /\ \A id : id \in DOMAIN rows <=> id \in Ids(r)
       /\ \A i \in 1..Len(r) : rows[r[i].recordId] = [packet |-> r[i].packet, receipt |-> r[i].receipt]
    BY <1>1, <1>7, <1>9, RowsRead
<1> HIDE DEF rows
<1>11. n \notin Ids(r)
    BY <1>1, <1>7
<1>12. RowsOf(r2) = rows2
    <2>1. \A id : id \in DOMAIN rows2 <=> \E i \in 1..Len(r2) : r2[i].recordId = id
        <3>1. \A id : id \in Ids(r2) <=> \E i \in 1..Len(r2) : r2[i].recordId = id
            BY <1>2 DEF Ids
        <3> QED BY <1>8, <1>10, <3>1
    <2>2. ASSUME NEW i \in 1..Len(r2)
          PROVE  rows2[r2[i].recordId] = [packet |-> r2[i].packet, receipt |-> r2[i].receipt]
        <3>1. CASE i \in 1..Len(r)
            <4>1. r2[i] = r[i] /\ r[i].recordId # n /\ r[i].recordId \in DOMAIN rows
                BY <1>2, <1>7, <1>10, <1>11, <3>1
            <4> QED BY <1>10, <3>1, <4>1
        <3>2. CASE i = Len(r) + 1
            BY <1>2, <3>2 DEF new
        <3> QED BY <1>1, <1>2, <3>1, <3>2
    <2>3. rows2 = [id \in DOMAIN rows2 |-> rows2[id]]
        OBVIOUS
    <2> HIDE DEF rows2
    <2> QED BY <1>2, <1>4, <2>1, <2>2, <2>3, RowsAre
<1>13. AsRows = rows /\ AsRows' = rows2
    BY <1>3, <1>12 DEF AsRows, RowsOf, rows
<1>14. Placed'
    <2>1. positionById' = Put(positionById, n, Len(r2))
        BY <1>3 DEF Save
    <2>2. DOMAIN positionById' = Ids(r2)
        BY <1>8, <2>1 DEF IndexInv, Placed, Put
    <2>3. ASSUME NEW i \in 1..Len(r2)
          PROVE  positionById'[r2[i].recordId] = i
        <3>1. CASE i \in 1..Len(r)
            <4>1. r2[i] = r[i] /\ r[i].recordId # n /\ r[i].recordId \in Ids(r)
                BY <1>2, <1>7, <1>11, <3>1
            <4> QED BY <2>1, <3>1, <4>1 DEF IndexInv, Placed, Put
        <3>2. CASE i = Len(r) + 1
            BY <1>2, <2>1, <3>2 DEF new, Put
        <3> QED BY <1>1, <1>2, <3>1, <3>2
    <2> QED BY <1>3, <2>2, <2>3 DEF Placed
<1>15. TxIndexed'
    <2>1. recordIdByTxHash' = recordIdByTxHash
        BY DEF Save
    <2>2. \A i \in 1..Len(r2) : r2[i].receipt # NoReceipt => i \in 1..Len(r) /\ r2[i] = r[i]
        <3>1. \A i \in 1..Len(r2) : i \in 1..Len(r) \/ i = Len(r) + 1
            BY <1>1, <1>2
        <3> QED BY <1>2, <3>1 DEF new
    <2>3. \A i \in 1..Len(r) : i \in 1..Len(r2) /\ r2[i] = r[i]
        BY <1>1, <1>2
    <2> QED BY <1>3, <2>1, <2>2, <2>3 DEF IndexInv, TxIndexed
<1>16. /\ DOMAIN rows \subseteq Nat
       /\ \A m \in DOMAIN rows : m < n
    BY <1>1, <1>7, <1>10
<1>17. DevicesIndexed'
    <2> DEFINE key == DeviceOf(rows)  key2 == DeviceOf(rows2)
    <2>1. DOMAIN key = DOMAIN rows /\ DOMAIN key2 = DOMAIN key \cup {n}
          /\ key2[n] = packet.deviceId
        BY DEF DeviceOf
    <2>2. \A m \in DOMAIN key : key2[m] = key[m]
        BY <1>16 DEF DeviceOf
    <2>3. IdLists(recordIdsByDevice, key, {})
        BY <1>13 DEF IndexInv, DevicesIndexed
    <2> HIDE DEF key, key2
    <2>4. IdLists(Append1(recordIdsByDevice, key2[n], n), key2, {})
        BY <1>1, <1>16, <2>1, <2>2, <2>3, IdListsAfterSave
    <2>5. recordIdsByDevice' = Append1(recordIdsByDevice, key2[n], n)
        BY <2>1 DEF Save
    <2>6. IdLists(recordIdsByDevice', DeviceOf(AsRows'), {})
        BY <1>13, <2>4, <2>5 DEF key2
    <2> QED BY <2>6 DEF DevicesIndexed
<1>18. BatchesIndexed'
    <2> DEFINE key == BatchOf(rows)  key2 == BatchOf(rows2)
    <2>1. DOMAIN key = DOMAIN rows /\ DOMAIN key2 = DOMAIN key \cup {n}
          /\ key2[n] = packet.batchCode
        BY DEF BatchOf
    <2>2. \A m \in DOMAIN key : key2[m] = key[m]
        BY <1>16 DEF BatchOf
    <2>3. IdLists(recordIdsByBatch, key, {""})
        BY <1>13 DEF IndexInv, BatchesIndexed
    <2> HIDE DEF key, key2
    <2>4. /\ key2[n] \notin {""} => IdLists(Append1(recordIdsByBatch, key2[n], n), key2, {""})
          /\ key2[n] \in {""} => IdLists(recordIdsByBatch, key2, {""})
        BY <1>1, <1>16, <2>1, <2>2, <2>3, IdListsAfterSave
    <2>5. recordIdsByBatch' = IF key2[n] = "" THEN recordIdsByBatch
                              ELSE Append1(recordIdsByBatch, key2[n], n)
        BY <2>1 DEF Save
    <2>6. IdLists(recordIdsByBatch', BatchOf(AsRows'), {""})
        BY <1>13, <2>4, <2>5 DEF key2
    <2> QED BY <2>6 DEF BatchesIndexed
<1>19. IndexInv'
    BY <1>6, <1>14, <1>15, <1>17, <1>18 DEF IndexInv
<1> QED BY <1>13, <1>19

\* What the operations on a known id use of the invariant.
LEMMA KnownId ==
    ASSUME IndexInv
    PROVE  /\ records \in Seq(Record) /\ Len(records) \in Nat /\ ByNumber(records)
           /\ \A i \in 1..Len(records) : /\ records[i] \in Record
                                         /\ records[i].recordId \in Nat
                                         /\ records[i].recordId \in DOMAIN positionById
                                         /\ positionById[records[i].recordId] = i
           /\ \A id \in DOMAIN positionById :
                 /\ positionById[id] \in 1..Len(records)
                 /\ records[positionById[id]].recordId = id
           /\ DOMAIN AsRows = DOMAIN positionById
           /\ \A i \in 1..Len(records) :
                 AsRows[records[i].recordId]
                     = [packet |-> records[i].packet, receipt |-> records[i].receipt]
           /\ \A i, j \in 1..Len(records) : records[i].recordId = records[j].recordId => i = j
<1>1. /\ records \in Seq(Record) /\ Len(records) \in Nat /\ ByNumber(records)
      /\ \A i \in 1..Len(records) : records[i] \in Record /\ records[i].recordId \in Nat
    <2>1. records \in Seq(Record) /\ ByNumber(records)
        BY DEF IndexInv, Numbered
    <2>2. Len(records) \in Nat /\ \A i \in 1..Len(records) : records[i] \in Record
        BY <2>1
    <2> QED BY <2>1, <2>2 DEF Record
<1>2. \A id : id \in Ids(records) <=> \E i \in 1..Len(records) : records[i].recordId = id
    BY <1>1 DEF Ids
<1>3. DOMAIN positionById = Ids(records)
      /\ \A i \in 1..Len(records) : positionById[records[i].recordId] = i
    BY DEF IndexInv, Placed
<1>4. /\ \A i, j \in 1..Len(records) : records[i].recordId = records[j].recordId => i = j
      /\ \A id : id \in DOMAIN AsRows <=> \E i \in 1..Len(records) : records[i].recordId = id
      /\ \A i \in 1..Len(records) : AsRows[records[i].recordId]
                                      = [packet |-> records[i].packet, receipt |-> records[i].receipt]
    BY <1>1, RowsRead, AsRowsAre
<1>5. DOMAIN AsRows = DOMAIN positionById
    BY <1>2, <1>3, <1>4
<1>6. \A id \in DOMAIN positionById :
          positionById[id] \in 1..Len(records) /\ records[positionById[id]].recordId = id
    BY <1>2, <1>3
<1>7. \A i \in 1..Len(records) : records[i].recordId \in DOMAIN positionById
    BY <1>2, <1>3
<1> QED BY <1>1, <1>3, <1>4, <1>5, <1>6, <1>7

\* AttachReceipt is the UPDATE, and the UNIQUE index would have let it pass.
LEMMA AttachReceiptKeeps ==
    ASSUME IndexInv, NEW id \in DOMAIN positionById, NEW receipt \in Receipts,
           records[positionById[id]].receipt = NoReceipt,
           receipt.txHash \notin DOMAIN recordIdByTxHash,
           AttachReceipt(id, receipt)
    PROVE  /\ IndexInv'
           /\ id \in DOMAIN AsRows
           /\ \A other \in DOMAIN AsRows :
                 ~(/\ AsRows[other].receipt # NoReceipt
                   /\ AsRows[other].receipt.txHash = receipt.txHash)
           /\ AsRows' = [AsRows EXCEPT ![id].receipt = receipt]
<1> DEFINE r  == records
           p  == positionById[id]
           r2 == [r EXCEPT ![p].receipt = receipt]
           rows2 == [AsRows EXCEPT ![id].receipt = receipt]
<1>1. /\ r \in Seq(Record) /\ Len(r) \in Nat /\ ByNumber(r)
      /\ \A i \in 1..Len(r) : /\ r[i] \in Record
                              /\ r[i].recordId \in Nat
                              /\ r[i].recordId \in DOMAIN positionById
                              /\ positionById[r[i].recordId] = i
      /\ DOMAIN AsRows = DOMAIN positionById
      /\ \A i \in 1..Len(r) :
            AsRows[r[i].recordId] = [packet |-> r[i].packet, receipt |-> r[i].receipt]
      /\ \A i, j \in 1..Len(r) : r[i].recordId = r[j].recordId => i = j
    BY KnownId
<1>2. p \in 1..Len(r) /\ r[p].recordId = id
    BY KnownId
<1>3. \A other \in DOMAIN positionById :
          positionById[other] \in 1..Len(r) /\ r[positionById[other]].recordId = other
    BY KnownId
<1> HIDE DEF p
<1>4. receipt # NoReceipt
    BY ReceiptsAssumption
<1>5. records' = r2
    BY DEF AttachReceipt, p
<1>6. /\ r2 \in Seq(Record) /\ Len(r2) = Len(r)
      /\ \A i \in 1..Len(r) : /\ r2[i].recordId = r[i].recordId
                              /\ r2[i].packet = r[i].packet
                              /\ r2[i].receipt = IF i = p THEN receipt ELSE r[i].receipt
    <2>1. \A i \in 1..Len(r) : r2[i] = IF i = p THEN [r[p] EXCEPT !.receipt = receipt] ELSE r[i]
        BY <1>1, <1>2
    <2>2. [r[p] EXCEPT !.receipt = receipt] \in Record
        BY <1>1, <1>2 DEF Record
    <2>3. r2 \in Seq(Record) /\ Len(r2) = Len(r)
        BY <1>1, <1>2, <2>2
    <2>4. r[p] \in Record
        BY <1>1, <1>2
    <2>5. [r[p] EXCEPT !.receipt = receipt]
             = [recordId |-> r[p].recordId, packet |-> r[p].packet, receipt |-> receipt]
        BY <2>4 DEF Record
    <2> HIDE DEF r2
    <2> QED BY <2>1, <2>3, <2>5
<1> HIDE DEF r2
<1>7. ByNumber(r2)
    BY <1>1, <1>6 DEF ByNumber
<1>8. Numbered'
    <2>1. nextRecordId' = nextRecordId
        BY DEF AttachReceipt
    <2>2. \A i \in 1..Len(r2) : r2[i].recordId \in 1..(nextRecordId - 1)
        BY <1>6 DEF IndexInv, Numbered
    <2>3. nextRecordId \in 1..(MaxRows + 1)
        BY DEF IndexInv, Numbered
    <2> QED BY <1>5, <1>6, <1>7, <2>1, <2>2, <2>3 DEF Numbered
<1>9. Ids(r2) = Ids(r)
    <2>1. DOMAIN r2 = 1..Len(r) /\ DOMAIN r = 1..Len(r)
        BY <1>1, <1>6
    <2> QED BY <1>6, <2>1 DEF Ids
<1>10. Placed'
    <2>1. positionById' = positionById
        BY DEF AttachReceipt
    <2> QED BY <1>5, <1>6, <1>9, <2>1 DEF IndexInv, Placed
<1>11. \A other \in DOMAIN AsRows :
          ~(/\ AsRows[other].receipt # NoReceipt
            /\ AsRows[other].receipt.txHash = receipt.txHash)
    <2> SUFFICES ASSUME NEW other \in DOMAIN AsRows, AsRows[other].receipt # NoReceipt
                 PROVE  AsRows[other].receipt.txHash # receipt.txHash
        OBVIOUS
    <2>1. PICK i \in 1..Len(r) : r[i].recordId = other
        BY <1>1, <1>3
    <2>2. AsRows[r[i].recordId] = [packet |-> r[i].packet, receipt |-> r[i].receipt]
        BY <1>1
    <2>3. AsRows[other].receipt = r[i].receipt
        BY <2>1, <2>2
    <2>4. r[i].receipt.txHash \in DOMAIN recordIdByTxHash
        BY <2>3 DEF IndexInv, TxIndexed
    <2> QED BY <2>3, <2>4
<1>12. /\ DOMAIN rows2 = DOMAIN AsRows
       /\ rows2[id] = [packet |-> r[p].packet, receipt |-> receipt]
       /\ \A other \in DOMAIN AsRows : other # id => rows2[other] = AsRows[other]
       /\ rows2 = [other \in DOMAIN rows2 |-> rows2[other]]
    <2>1. AsRows[id] = [packet |-> r[p].packet, receipt |-> r[p].receipt]
        BY <1>1, <1>2
    <2>2. id \in DOMAIN AsRows
        BY <1>1
    <2> QED BY <2>1, <2>2
<1> HIDE DEF rows2
<1>13. AsRows' = rows2
    <2>1. \A other : other \in DOMAIN rows2 <=> \E i \in 1..Len(r2) : r2[i].recordId = other
        BY <1>1, <1>3, <1>6, <1>12
    <2>2. ASSUME NEW i \in 1..Len(r2)
          PROVE  rows2[r2[i].recordId] = [packet |-> r2[i].packet, receipt |-> r2[i].receipt]
        <3>1. CASE i = p
            BY <1>2, <1>6, <1>12, <3>1
        <3>2. CASE i # p
            <4>1. r[i].recordId # id /\ r[i].recordId \in DOMAIN AsRows
                BY <1>1, <1>2, <1>6, <3>2
            <4>2. rows2[r[i].recordId] = [packet |-> r[i].packet, receipt |-> r[i].receipt]
                BY <1>1, <1>6, <1>12, <4>1
            <4> QED BY <1>6, <3>2, <4>2
        <3> QED BY <3>1, <3>2
    <2>3. RowsOf(r2) = rows2
        BY <1>6, <1>7, <1>12, <2>1, <2>2, RowsAre
    <2> QED BY <1>5, <2>3 DEF AsRows, RowsOf
<1>14. TxIndexed'
    <2> DEFINE index  == recordIdByTxHash
               index2 == Put(recordIdByTxHash, receipt.txHash, id)
    <2>1. recordIdByTxHash' = index2
        BY DEF AttachReceipt
    <2>2. /\ DOMAIN index2 = DOMAIN index \cup {receipt.txHash}
          /\ index2[receipt.txHash] = id
          /\ \A t \in DOMAIN index : index2[t] = index[t]
        BY DEF Put
    <2> HIDE DEF index2
    <2>3. ASSUME NEW i \in 1..Len(r2), r2[i].receipt # NoReceipt
          PROVE  /\ r2[i].receipt.txHash \in DOMAIN index2
                 /\ index2[r2[i].receipt.txHash] = r2[i].recordId
        <3>1. CASE i = p
            BY <1>2, <1>6, <2>2, <3>1
        <3>2. CASE i # p
            <4>1. r2[i].receipt = r[i].receipt /\ i \in 1..Len(r)
                BY <1>6, <3>2
            <4>2. /\ r[i].receipt.txHash \in DOMAIN index
                  /\ index[r[i].receipt.txHash] = r[i].recordId
                BY <2>3, <4>1 DEF IndexInv, TxIndexed
            <4> QED BY <1>6, <2>2, <4>1, <4>2
        <3> QED BY <3>1, <3>2
    <2>4. ASSUME NEW t \in DOMAIN index2
          PROVE  \E i \in 1..Len(r2) : r2[i].receipt # NoReceipt /\ r2[i].receipt.txHash = t
        <3>1. CASE t = receipt.txHash
            BY <1>2, <1>4, <1>6, <3>1
        <3>2. CASE t \in DOMAIN index
            <4>1. PICK i \in 1..Len(r) : r[i].receipt # NoReceipt /\ r[i].receipt.txHash = t
                BY <3>2 DEF IndexInv, TxIndexed
            <4>2. i # p
                BY <4>1 DEF p
            <4> QED BY <1>6, <4>1, <4>2
        <3> QED BY <2>2, <3>1, <3>2
    <2> QED BY <1>5, <2>1, <2>3, <2>4 DEF TxIndexed
<1>15. \A other \in DOMAIN AsRows : rows2[other].packet = AsRows[other].packet
    <2>1. AsRows[r[p].recordId] = [packet |-> r[p].packet, receipt |-> r[p].receipt]
        BY <1>1, <1>2
    <2>2. rows2[id].packet = AsRows[id].packet
        BY <1>2, <1>12, <2>1
    <2> QED BY <1>12, <2>2
<1>16. DevicesIndexed'
    <2>1. DeviceOf(rows2) = DeviceOf(AsRows)
        BY <1>12, <1>15 DEF DeviceOf
    <2>2. IdLists(recordIdsByDevice', DeviceOf(AsRows'), {})
        BY <1>13, <2>1 DEF AttachReceipt, IndexInv, DevicesIndexed
    <2> QED BY <2>2 DEF DevicesIndexed
<1>17. BatchesIndexed'
    <2>1. BatchOf(rows2) = BatchOf(AsRows)
        BY <1>12, <1>15 DEF BatchOf
    <2>2. IdLists(recordIdsByBatch', BatchOf(AsRows'), {""})
        BY <1>13, <2>1 DEF AttachReceipt, IndexInv, BatchesIndexed
    <2> QED BY <2>2 DEF BatchesIndexed
<1> QED BY <1>1, <1>8, <1>10, <1>11, <1>13, <1>14, <1>16, <1>17 DEF IndexInv, rows2

\* Delete is the DELETE, and every index is written again as a scan would give it.
LEMMA DeleteKeeps ==
    ASSUME IndexInv, NEW id \in DOMAIN positionById, Delete(id)
    PROVE  /\ IndexInv'
           /\ id \in DOMAIN AsRows
           /\ AsRows' = [other \in DOMAIN AsRows \ {id} |-> AsRows[other]]
<1> DEFINE r  == records
           p  == positionById[id]
           r2 == RemoveAt(r, p)
           rows2 == [other \in DOMAIN AsRows \ {id} |-> AsRows[other]]
<1>1. /\ r \in Seq(Record) /\ Len(r) \in Nat /\ ByNumber(r)
      /\ \A i \in 1..Len(r) : /\ r[i] \in Record
                              /\ r[i].recordId \in Nat
                              /\ r[i].recordId \in DOMAIN positionById
                              /\ positionById[r[i].recordId] = i
      /\ DOMAIN AsRows = DOMAIN positionById
      /\ \A i \in 1..Len(r) :
            AsRows[r[i].recordId] = [packet |-> r[i].packet, receipt |-> r[i].receipt]
      /\ \A i, j \in 1..Len(r) : r[i].recordId = r[j].recordId => i = j
    BY KnownId
<1>2. p \in 1..Len(r) /\ r[p].recordId = id /\ p \in Int
    BY <1>1, KnownId
<1>3. \A other \in DOMAIN positionById :
          positionById[other] \in 1..Len(r) /\ r[positionById[other]].recordId = other
    BY KnownId
<1>4. records' = r2 /\ nextRecordId' = nextRecordId
    BY DEF Delete, Forget
<1>5. /\ r2 \in Seq(Record) /\ Len(r2) = Len(r) - 1
      /\ \A i \in 1..Len(r2) : r2[i] = IF i < p THEN r[i] ELSE r[i + 1]
    <2> HIDE DEF p, r2
    <2>1. /\ RemoveAt(r, p) \in Seq(Record)
          /\ Len(RemoveAt(r, p)) = Len(r) - 1
          /\ \A i \in 1..(Len(r) - 1) :
                RemoveAt(r, p)[i] = IF i < p THEN r[i] ELSE r[i + 1]
        BY <1>1, <1>2, Removed
    <2> QED BY <2>1 DEF r2
<1> HIDE DEF r2, p
\* The records left are those of another id.
<1>6. \A j \in 1..Len(r2) : \E i \in 1..Len(r) : i # p /\ r[i] = r2[j]
    <2> SUFFICES ASSUME NEW j \in 1..Len(r2)
                 PROVE  \E i \in 1..Len(r) : i # p /\ r[i] = r2[j]
        OBVIOUS
    <2>1. CASE j < p
        <3>1. j \in 1..Len(r) /\ j # p
            BY <1>1, <1>2, <1>5, <2>1
        <3> QED BY <1>5, <2>1, <3>1
    <2>2. CASE ~(j < p)
        <3>1. j + 1 \in 1..Len(r) /\ j + 1 # p
            BY <1>1, <1>2, <1>5, <2>2
        <3> QED BY <1>5, <2>2, <3>1
    <2> QED BY <2>1, <2>2
<1>7. \A i \in 1..Len(r) : i # p => \E j \in 1..Len(r2) : r2[j] = r[i]
    <2> SUFFICES ASSUME NEW i \in 1..Len(r), i # p
                 PROVE  \E j \in 1..Len(r2) : r2[j] = r[i]
        OBVIOUS
    <2>1. CASE i < p
        <3>1. i \in 1..Len(r2)
            BY <1>1, <1>2, <1>5, <2>1
        <3> QED BY <1>5, <2>1, <3>1
    <2>2. CASE ~(i < p)
        <3>1. i - 1 \in 1..Len(r2) /\ ~(i - 1 < p) /\ (i - 1) + 1 = i
            BY <1>1, <1>2, <1>5, <2>2
        <3> QED BY <1>5, <3>1
    <2> QED BY <2>1, <2>2
<1>8. ByNumber(r2)
    <2> SUFFICES ASSUME NEW i \in 1..Len(r2), NEW j \in 1..Len(r2), i < j
                 PROVE  r2[i].recordId < r2[j].recordId
        BY DEF ByNumber
    <2>1. /\ i \in 1..Len(r) /\ i + 1 \in 1..Len(r) /\ j \in 1..Len(r) /\ j + 1 \in 1..Len(r)
          /\ i < j /\ i < j + 1 /\ i + 1 < j + 1
        BY <1>1, <1>5
    <2>2. \A k, l \in 1..Len(r) : k < l => r[k].recordId < r[l].recordId
        BY <1>1 DEF ByNumber
    <2>3. j < p => i < p
        BY <1>2, <2>1
    <2>4. r2[i] = (IF i < p THEN r[i] ELSE r[i + 1]) /\ r2[j] = (IF j < p THEN r[j] ELSE r[j + 1])
        BY <1>5
    <2> QED BY <2>1, <2>2, <2>3, <2>4
<1>9. Numbered'
    <2>1. nextRecordId \in 1..(MaxRows + 1)
          /\ \A i \in 1..Len(r) : r[i].recordId \in 1..(nextRecordId - 1)
        BY DEF IndexInv, Numbered
    <2>2. \A j \in 1..Len(r2) : r2[j].recordId \in 1..(nextRecordId - 1)
        BY <1>6, <2>1
    <2> QED BY <1>4, <1>5, <1>8, <2>1, <2>2 DEF Numbered
<1>10. \A other : other \in DOMAIN AsRows \ {id} <=> \E j \in 1..Len(r2) : r2[j].recordId = other
    <2>1. ASSUME NEW other \in DOMAIN AsRows \ {id}
          PROVE  \E j \in 1..Len(r2) : r2[j].recordId = other
        <3>1. PICK i \in 1..Len(r) : r[i].recordId = other
            BY <1>1, <1>3
        <3>2. i # p
            BY <1>2, <3>1
        <3> QED BY <1>7, <3>1, <3>2
    <2>2. ASSUME NEW j \in 1..Len(r2)
          PROVE  r2[j].recordId \in DOMAIN AsRows \ {id}
        <3>1. PICK i \in 1..Len(r) : i # p /\ r[i] = r2[j]
            BY <1>6
        <3> QED BY <1>1, <1>2, <3>1
    <2> QED BY <2>1, <2>2
<1>11. Ids(r2) = DOMAIN positionById \ {id}
    <2>1. DOMAIN r2 = 1..Len(r2)
        BY <1>5
    <2> QED BY <1>1, <1>10, <2>1 DEF Ids
<1>12. AsRows' = rows2
    <2>1. ASSUME NEW j \in 1..Len(r2)
          PROVE  rows2[r2[j].recordId] = [packet |-> r2[j].packet, receipt |-> r2[j].receipt]
        <3>1. PICK i \in 1..Len(r) : i # p /\ r[i] = r2[j]
            BY <1>6
        <3>2. rows2[r2[j].recordId] = AsRows[r2[j].recordId]
            BY <1>10
        <3>3. AsRows[r[i].recordId] = [packet |-> r[i].packet, receipt |-> r[i].receipt]
            BY <1>1
        <3> QED BY <3>1, <3>2, <3>3
    <2>2. \A other : other \in DOMAIN rows2 <=> \E j \in 1..Len(r2) : r2[j].recordId = other
        BY <1>10
    <2>3. rows2 = [other \in DOMAIN rows2 |-> rows2[other]]
        OBVIOUS
    <2> HIDE DEF rows2
    <2>4. RowsOf(r2) = rows2
        BY <1>5, <1>8, <2>1, <2>2, <2>3, RowsAre
    <2> QED BY <1>4, <2>4 DEF AsRows, RowsOf
<1>13. Placed'
    <2> DEFINE moved(other) == \E i \in p..Len(r2) : r2[i].recordId = other
               place(other) == IF moved(other)
                               THEN CHOOSE i \in p..Len(r2) : r2[i].recordId = other
                               ELSE positionById[other]
    <2>1. positionById' = [other \in DOMAIN positionById \ {id} |-> place(other)]
        BY <1>4 DEF Delete, p
    <2>2. DOMAIN positionById' = Ids(r2)
        BY <1>11, <2>1
    <2>3. \A i, j \in 1..Len(r2) : r2[i].recordId = r2[j].recordId => i = j
        BY <1>5, <1>8, RowsRead
    <2>4. ASSUME NEW j \in 1..Len(r2)
          PROVE  positionById'[r2[j].recordId] = j
        <3>1. positionById'[r2[j].recordId] = place(r2[j].recordId)
            BY <1>1, <1>10, <2>1
        <3>2. \A i \in p..Len(r2) : i \in 1..Len(r2)
            BY <1>2
        <3>3. CASE j \in p..Len(r2)
            <4>1. moved(r2[j].recordId)
                BY <3>3
            <4>2. \A i \in p..Len(r2) : r2[i].recordId = r2[j].recordId => i = j
                BY <2>3, <3>2
            <4> DEFINE q == CHOOSE i \in p..Len(r2) : r2[i].recordId = r2[j].recordId
            <4>3. q \in p..Len(r2) /\ r2[q].recordId = r2[j].recordId
                BY <3>3
            <4>4. place(r2[j].recordId) = q
                BY <4>1
            <4> HIDE DEF q, place
            <4> QED BY <3>1, <4>2, <4>3, <4>4
        <3>4. CASE j \notin p..Len(r2)
            <4>1. ~moved(r2[j].recordId)
                BY <2>3, <3>2, <3>4
            <4>2. j < p /\ j \in 1..Len(r)
                BY <1>1, <1>2, <1>5, <3>4
            <4>3. r2[j] = r[j]
                BY <1>5, <4>2
            <4> QED BY <1>1, <3>1, <4>1, <4>2, <4>3
        <3> QED BY <3>3, <3>4
    <2> QED BY <1>4, <2>2, <2>4 DEF Placed
<1>14. TxIndexed'
    <2> DEFINE index  == recordIdByTxHash
               gone   == r[p].receipt
               index2 == IF gone = NoReceipt THEN index ELSE Without(index, gone.txHash)
    <2>1. recordIdByTxHash' = index2
        BY DEF Delete, Forget, p
    <2>2. \A i \in 1..Len(r) : r[i].receipt # NoReceipt =>
              /\ r[i].receipt.txHash \in DOMAIN index
              /\ index[r[i].receipt.txHash] = r[i].recordId
        BY DEF IndexInv, TxIndexed
    <2>3. \A t \in DOMAIN index : \E i \in 1..Len(r) : r[i].receipt # NoReceipt
                                                      /\ r[i].receipt.txHash = t
        BY DEF IndexInv, TxIndexed
    <2>4. ASSUME NEW i \in 1..Len(r), i # p, r[i].receipt # NoReceipt, gone # NoReceipt
          PROVE  r[i].receipt.txHash # gone.txHash
        <3>1. r[i].recordId # r[p].recordId
            BY <1>1, <1>2, <2>4
        <3> QED BY <1>2, <2>2, <2>4, <3>1
    <2>5. /\ DOMAIN index2 = DOMAIN index \ (IF gone = NoReceipt THEN {} ELSE {gone.txHash})
          /\ \A t \in DOMAIN index2 : index2[t] = index[t]
        BY DEF Without
    <2> HIDE DEF index2
    <2>6. ASSUME NEW j \in 1..Len(r2), r2[j].receipt # NoReceipt
          PROVE  /\ r2[j].receipt.txHash \in DOMAIN index2
                 /\ index2[r2[j].receipt.txHash] = r2[j].recordId
        <3>1. PICK i \in 1..Len(r) : i # p /\ r[i] = r2[j]
            BY <1>6
        <3>2. /\ r[i].receipt.txHash \in DOMAIN index
              /\ index[r[i].receipt.txHash] = r[i].recordId
            BY <2>2, <2>6, <3>1
        <3>3. gone # NoReceipt => r[i].receipt.txHash # gone.txHash
            BY <2>4, <2>6, <3>1
        <3>4. r[i].receipt.txHash \in DOMAIN index2
            BY <2>5, <3>2, <3>3
        <3> QED BY <2>5, <3>1, <3>2, <3>4
    <2>7. ASSUME NEW t \in DOMAIN index2
          PROVE  \E j \in 1..Len(r2) : r2[j].receipt # NoReceipt /\ r2[j].receipt.txHash = t
        <3>1. t \in DOMAIN index /\ (gone # NoReceipt => t # gone.txHash)
            BY <2>5
        <3>2. PICK i \in 1..Len(r) : r[i].receipt # NoReceipt /\ r[i].receipt.txHash = t
            BY <2>3, <3>1
        <3>3. i # p
            BY <3>1, <3>2
        <3> QED BY <1>7, <3>2, <3>3
    <2> QED BY <1>4, <2>1, <2>6, <2>7 DEF TxIndexed
<1>15. id \in DOMAIN AsRows /\ AsRows[id] = [packet |-> r[p].packet, receipt |-> r[p].receipt]
    BY <1>1, <1>2
<1>16. DOMAIN AsRows \subseteq Nat
    BY <1>1, <1>3
<1>17. DevicesIndexed'
    <2> DEFINE key == DeviceOf(AsRows)  key2 == DeviceOf(rows2)
    <2>1. DOMAIN key = DOMAIN AsRows /\ DOMAIN key2 = DOMAIN key \ {id}
          /\ key[id] = r[p].packet.deviceId
        BY <1>15 DEF DeviceOf
    <2>2. \A m \in DOMAIN key2 : key2[m] = key[m]
        BY DEF DeviceOf
    <2>3. IdLists(recordIdsByDevice, key, {})
        BY DEF IndexInv, DevicesIndexed
    <2> HIDE DEF key, key2
    <2>4. IdLists(Erase(recordIdsByDevice, key[id], id), key2, {})
        BY <1>15, <1>16, <2>1, <2>2, <2>3, IdListsAfterDelete
    <2>5. recordIdsByDevice' = Erase(recordIdsByDevice, key[id], id)
        BY <1>2, <2>1 DEF Delete, Forget, p
    <2>6. IdLists(recordIdsByDevice', DeviceOf(AsRows'), {})
        BY <1>12, <2>4, <2>5 DEF key2
    <2> QED BY <2>6 DEF DevicesIndexed
<1>18. BatchesIndexed'
    <2> DEFINE key == BatchOf(AsRows)  key2 == BatchOf(rows2)
    <2>1. DOMAIN key = DOMAIN AsRows /\ DOMAIN key2 = DOMAIN key \ {id}
          /\ key[id] = r[p].packet.batchCode
        BY <1>15 DEF BatchOf
    <2>2. \A m \in DOMAIN key2 : key2[m] = key[m]
        BY DEF BatchOf
    <2>3. IdLists(recordIdsByBatch, key, {""})
        BY DEF IndexInv, BatchesIndexed
    <2> HIDE DEF key, key2
    <2>4. /\ key[id] \notin {""} => IdLists(Erase(recordIdsByBatch, key[id], id), key2, {""})
          /\ key[id] \in {""} => IdLists(recordIdsByBatch, key2, {""})
        BY <1>15, <1>16, <2>1, <2>2, <2>3, IdListsAfterDelete
    <2>5. recordIdsByBatch' = IF key[id] = "" THEN recordIdsByBatch
                              ELSE Erase(recordIdsByBatch, key[id], id)
        BY <1>2, <2>1 DEF Delete, Forget, p
    <2>6. IdLists(recordIdsByBatch', BatchOf(AsRows'), {""})
        BY <1>12, <2>4, <2>5 DEF key2
    <2> QED BY <2>6 DEF BatchesIndexed
<1> QED BY <1>9, <1>12, <1>13, <1>14, <1>15, <1>17, <1>18 DEF IndexInv

(***************************************************************************)
(* Every step, and the theorems                                            *)
(***************************************************************************)

LEMMA NextKeeps == IndexInv /\ [Next]_vars => IndexInv' /\ [Db!Next]_(Db!repository)
<1> SUFFICES ASSUME IndexInv, [Next]_vars
             PROVE  IndexInv' /\ [Db!Next]_(Db!repository)
    OBVIOUS
<1> USE DEF Db!repository
<1>0. /\ nextRecordId \in 1..(MaxRows + 1) /\ MaxRows \in Nat
      /\ DOMAIN AsRows \subseteq 1..MaxRows
    <2>1. /\ nextRecordId \in 1..(MaxRows + 1) /\ MaxRows \in Nat
          /\ \A i \in 1..Len(records) : records[i].recordId \in 1..(nextRecordId - 1)
        BY MaxRowsAssumption DEF IndexInv, Numbered
    <2>2. ASSUME NEW id \in DOMAIN AsRows PROVE id \in 1..MaxRows
        <3>1. PICK i \in 1..Len(records) : records[i].recordId = id
            BY KnownId
        <3> QED BY <2>1, <3>1
    <2> QED BY <2>1, <2>2
<1>1. ASSUME NEW packet \in Packets, nextRecordId <= MaxRows, Save(packet)
      PROVE  IndexInv' /\ Db!Next
    <2>1. IndexInv' /\ AsRows' = [id \in DOMAIN AsRows \cup {nextRecordId} |->
                                    IF id = nextRecordId
                                    THEN [packet |-> packet, receipt |-> NoReceipt]
                                    ELSE AsRows[id]]
        BY <1>1, SaveKeeps
    <2>2. /\ (nextRecordId - 1)' = nextRecordId - 1 + 1
          /\ (nextRecordId - 1)' = nextRecordId
          /\ nextRecordId - 1 < MaxRows
        <3>1. nextRecordId \in Int /\ nextRecordId' = nextRecordId + 1
            <4>1. nextRecordId' = nextRecordId + 1
                BY <1>1 DEF Save
            <4> QED BY <1>0, <4>1
        <3> QED BY <1>0, <1>1, <3>1
    <2>3. Db!Save(packet)
        BY <2>1, <2>2 DEF Db!Save
    <2> QED BY <2>1, <2>2, <2>3 DEF Db!Next
<1>2. ASSUME NEW id \in DOMAIN positionById, NEW receipt \in Receipts,
             records[positionById[id]].receipt = NoReceipt,
             receipt.txHash \notin DOMAIN recordIdByTxHash,
             AttachReceipt(id, receipt)
      PROVE  IndexInv' /\ Db!Next
    <2>1. /\ IndexInv'
          /\ id \in DOMAIN AsRows
          /\ \A other \in DOMAIN AsRows :
                ~(/\ AsRows[other].receipt # NoReceipt
                  /\ AsRows[other].receipt.txHash = receipt.txHash)
          /\ AsRows' = [AsRows EXCEPT ![id].receipt = receipt]
        BY <1>2, AttachReceiptKeeps
    <2>2. (nextRecordId - 1)' = nextRecordId - 1
        BY <1>2 DEF AttachReceipt
    <2>3. Db!AttachReceipt(id, receipt)
        BY <2>1, <2>2 DEF Db!AttachReceipt, Db!TxTaken
    <2> QED BY <1>0, <2>1, <2>3 DEF Db!Next
<1>3. ASSUME NEW id \in 1..MaxRows, Delete(id)
      PROVE  IndexInv' /\ Db!Next
    <2>1. id \in DOMAIN positionById
        BY <1>3 DEF Delete
    <2>2. /\ IndexInv' /\ id \in DOMAIN AsRows
          /\ AsRows' = [other \in DOMAIN AsRows \ {id} |-> AsRows[other]]
        BY <1>3, <2>1, DeleteKeeps
    <2>3. (nextRecordId - 1)' = nextRecordId - 1
        BY <1>3 DEF Delete
    <2>4. Db!Delete(id)
        BY <2>2, <2>3 DEF Db!Delete
    <2> QED BY <1>3, <2>2, <2>4 DEF Db!Next
<1>4. ASSUME UNCHANGED vars
      PROVE  IndexInv' /\ UNCHANGED Db!repository
    <2>1. /\ records' = records /\ nextRecordId' = nextRecordId
          /\ positionById' = positionById /\ recordIdsByDevice' = recordIdsByDevice
          /\ recordIdsByBatch' = recordIdsByBatch /\ recordIdByTxHash' = recordIdByTxHash
        BY <1>4 DEF vars
    <2>2. AsRows' = AsRows
        BY <2>1 DEF AsRows, Ids
    <2>3. Numbered' /\ Placed' /\ TxIndexed'
        BY <2>1 DEF IndexInv, Numbered, Placed, TxIndexed, Ids
    <2>4. IdLists(recordIdsByDevice', DeviceOf(AsRows'), {})
          /\ IdLists(recordIdsByBatch', BatchOf(AsRows'), {""})
        BY <2>1, <2>2 DEF IndexInv, DevicesIndexed, BatchesIndexed
    <2> QED BY <2>1, <2>2, <2>3, <2>4 DEF IndexInv, DevicesIndexed, BatchesIndexed
<1>5. ASSUME NEW id \in 1..MaxRows, Unknown(id)
      PROVE  UNCHANGED vars
    BY <1>5 DEF Unknown
<1> QED BY <1>1, <1>2, <1>3, <1>4, <1>5 DEF Next, Attach

\* IndexInv holds after any sequence of operations.
LEMMA AlwaysIndexed == Spec => []IndexInv
<1>1. Init => IndexInv
    BY InitIndexed
<1>2. IndexInv /\ [Next]_vars => IndexInv'
    BY NextKeeps
<1> QED BY <1>1, <1>2, PTL DEF Spec

\* Seen as a table, the in-memory repository of the tests does only what
\* SQLiteTelemetryRepository does: Save inserts under the next id, AttachReceipt
\* and Delete change the one row, and an id is never given out twice.
THEOREM ImplementsDb == Spec => DbSpec
<1>1. Init => Db!Init
    BY InitIndexed
<1>2. IndexInv /\ [Next]_vars => [Db!Next]_(Db!repository)
    BY NextKeeps
<1> QED BY <1>1, <1>2, AlwaysIndexed, PTL DEF Spec, DbSpec, Db!Spec

\* The ids of these records, in their order.
IdsOf(ids, r) ==
    ids \in Seq(Nat) /\ Len(ids) = Len(r) /\ \A i \in 1..Len(r) : ids[i] = r[i].recordId

\* A list kept by hand is the list that a scan of the records gives.
LEMMA ScanGivesList ==
    ASSUME NEW r \in Seq(Record), ByNumber(r), NEW ids, IdsOf(ids, r),
           NEW P \in SUBSET (1..Len(r)), NEW list, NEW set, Lists(list, set),
           \A n : n \in set <=> \E i \in P : r[i].recordId = n
    PROVE  list = Keep(ids, P)
<1>1. \A i, j \in 1..Len(ids) : i < j => ids[i] < ids[j]
    BY DEF IdsOf, ByNumber
<1>2. ids \in Seq(Nat) /\ P \in SUBSET (1..Len(ids))
    BY DEF IdsOf
<1>3. Lists(Keep(ids, P), {ids[i] : i \in P})
    BY <1>1, <1>2, KeepLists
<1>4. \A n : n \in {ids[i] : i \in P} <=> n \in set
    BY DEF IdsOf
<1>5. {ids[i] : i \in P} = set
    BY <1>4
<1> QED BY <1>3, <1>5, SameList

\* f is an index of the records r, with these ids, by name.
IndexOf(f, none, key, r, ids, name) ==
    /\ r \in Seq(Record) /\ ByNumber(r) /\ IdsOf(ids, r)
    /\ IdLists(f, key, none)
    /\ \A i \in 1..Len(r) : r[i].recordId \in DOMAIN key /\ key[r[i].recordId] = name[i]
    /\ \A id \in DOMAIN key : \E i \in 1..Len(r) : r[i].recordId = id

Under(P, r, name, k) ==
    P \in SUBSET (1..Len(r)) /\ \A i \in 1..Len(r) : i \in P <=> name[i] = k

\* An index has the keys of the records, and under each what a scan gives.
LEMMA ScanKeys ==
    ASSUME NEW f, NEW none, NEW key, NEW r, NEW ids, NEW name,
           IndexOf(f, none, key, r, ids, name), NEW k
    PROVE  k \in DOMAIN f <=> k \notin none /\ \E i \in 1..Len(r) : name[i] = k
<1>1. (\E id \in DOMAIN key : key[id] = k) <=> \E i \in 1..Len(r) : name[i] = k
    <2>1. \A id \in DOMAIN key : \E i \in 1..Len(r) : key[id] = name[i]
        BY DEF IndexOf
    <2>2. \A i \in 1..Len(r) : \E id \in DOMAIN key : key[id] = name[i]
        BY DEF IndexOf
    <2> QED BY <2>1, <2>2
<1>2. k \in DOMAIN f <=> k \notin none /\ \E id \in DOMAIN key : key[id] = k
    BY DEF IndexOf, IdLists
<1> QED BY <1>1, <1>2

\* An index of ids gives for a key what a scan of the vector for it gives.
LEMMA ScanIndex ==
    ASSUME NEW f, NEW none, NEW key, NEW r, NEW ids, NEW name,
           IndexOf(f, none, key, r, ids, name),
           NEW k \in DOMAIN f, NEW P, Under(P, r, name, k)
    PROVE  f[k] = Keep(ids, P)
<1> DEFINE set == {id \in DOMAIN key : key[id] = k}
           list == f[k]
<1>1. Lists(list, set)
    BY DEF IndexOf, IdLists
<1>2. P \in SUBSET (1..Len(r)) /\ \A n : n \in set <=> \E i \in P : r[i].recordId = n
    BY DEF IndexOf, Under
<1>3. r \in Seq(Record) /\ ByNumber(r) /\ IdsOf(ids, r)
    BY DEF IndexOf
<1> HIDE DEF set, list
<1>4. list = Keep(ids, P)
    BY <1>1, <1>2, <1>3, ScanGivesList
<1> QED BY <1>4 DEF list

\* Every index says what a scan of the records would, and nothing more.
THEOREM IndexesAreScans == Spec => []IndexConsistent
<1>1. ASSUME IndexInv PROVE IndexConsistent
    <2> DEFINE r   == records
               ids == [i \in DOMAIN r |-> r[i].recordId]
               device(i) == r[i].packet.deviceId
               batch(i)  == r[i].packet.batchCode
               Holds(i, t) == r[i].receipt # NoReceipt /\ r[i].receipt.txHash = t
    <2>1. /\ r \in Seq(Record) /\ Len(r) \in Nat /\ ByNumber(r) /\ DOMAIN r = 1..Len(r)
          /\ \A i \in 1..Len(r) : /\ r[i].recordId \in Nat
                                  /\ r[i].recordId \in DOMAIN positionById
          /\ DOMAIN AsRows = DOMAIN positionById
          /\ \A i \in 1..Len(r) :
                AsRows[r[i].recordId] = [packet |-> r[i].packet, receipt |-> r[i].receipt]
          /\ \A id \in DOMAIN AsRows : \E i \in 1..Len(r) : r[i].recordId = id
          /\ \A i, j \in 1..Len(r) : r[i].recordId = r[j].recordId => i = j
        <3>1. r \in Seq(Record) /\ DOMAIN r = 1..Len(r)
            BY KnownId, <1>1
        <3> QED BY <1>1, <3>1, KnownId
    <2>2. /\ DOMAIN positionById = Ids(r)
          /\ \A i \in DOMAIN r : positionById[r[i].recordId] = i
        BY <1>1, <2>1 DEF IndexInv, Placed
    <2>3. \A i \in 1..Len(r) : /\ r[i].recordId \in DOMAIN AsRows
                               /\ AsRows[r[i].recordId].packet = r[i].packet
        <3> SUFFICES ASSUME NEW i \in 1..Len(r)
                     PROVE  /\ r[i].recordId \in DOMAIN AsRows
                            /\ AsRows[r[i].recordId].packet = r[i].packet
            OBVIOUS
        <3>1. AsRows[r[i].recordId] = [packet |-> r[i].packet, receipt |-> r[i].receipt]
            BY <2>1
        <3>2. r[i].recordId \in DOMAIN AsRows
            BY <2>1
        <3> QED BY <3>1, <3>2
    <2>4. IdsOf(ids, r)
        BY <2>1 DEF IdsOf
    <2>5. /\ DOMAIN recordIdsByDevice = {device(i) : i \in DOMAIN r}
          /\ \A d \in DOMAIN recordIdsByDevice :
                recordIdsByDevice[d] = Keep(ids, {i \in DOMAIN r : device(i) = d})
        <3> DEFINE name == [i \in 1..Len(r) |-> device(i)]
                   f == recordIdsByDevice  key == DeviceOf(AsRows)  none == {}
        <3>1. IdLists(f, key, none)
            BY <1>1 DEF IndexInv, DevicesIndexed
        <3>2. IndexOf(f, none, key, r, ids, name)
            BY <2>1, <2>3, <2>4, <3>1 DEF IndexOf, DeviceOf
        <3>3. \A k : k \in DOMAIN f <=> k \notin none /\ \E i \in 1..Len(r) : name[i] = k
            <4> HIDE DEF r, ids, f, key, none, name
            <4> QED BY <3>2, ScanKeys
        <3>4. ASSUME NEW k \in DOMAIN f
              PROVE  f[k] = Keep(ids, {i \in DOMAIN r : device(i) = k})
            <4> DEFINE P == {i \in DOMAIN r : device(i) = k}
            <4>1. Under(P, r, name, k)
                BY <2>1 DEF Under
            <4>2. f[k] = Keep(ids, P)
                <5> HIDE DEF r, ids, f, key, none, name, P
                <5> QED BY <3>2, <4>1, ScanIndex
            <4> QED BY <4>2
        <3>5. \A k : k \in DOMAIN f <=> k \in {device(i) : i \in DOMAIN r} \ none
            <4>1. DOMAIN r = 1..Len(r) /\ \A i \in 1..Len(r) : name[i] = device(i)
                BY <2>1
            <4> HIDE DEF r, f, none, name, device
            <4> QED BY <3>3, <4>1
        <3> QED BY <3>4, <3>5
    <2>6. /\ DOMAIN recordIdsByBatch = {batch(i) : i \in DOMAIN r} \ {""}
          /\ \A b \in DOMAIN recordIdsByBatch :
                recordIdsByBatch[b] = Keep(ids, {i \in DOMAIN r : batch(i) = b})
        <3> DEFINE name == [i \in 1..Len(r) |-> batch(i)]
                   f == recordIdsByBatch  key == BatchOf(AsRows)  none == {""}
        <3>1. IdLists(f, key, none)
            BY <1>1 DEF IndexInv, BatchesIndexed
        <3>2. IndexOf(f, none, key, r, ids, name)
            BY <2>1, <2>3, <2>4, <3>1 DEF IndexOf, BatchOf
        <3>3. \A k : k \in DOMAIN f <=> k \notin none /\ \E i \in 1..Len(r) : name[i] = k
            <4> HIDE DEF r, ids, f, key, none, name
            <4> QED BY <3>2, ScanKeys
        <3>4. ASSUME NEW k \in DOMAIN f
              PROVE  f[k] = Keep(ids, {i \in DOMAIN r : batch(i) = k})
            <4> DEFINE P == {i \in DOMAIN r : batch(i) = k}
            <4>1. Under(P, r, name, k)
                BY <2>1 DEF Under
            <4>2. f[k] = Keep(ids, P)
                <5> HIDE DEF r, ids, f, key, none, name, P
                <5> QED BY <3>2, <4>1, ScanIndex
            <4> QED BY <4>2
        <3>5. \A k : k \in DOMAIN f <=> k \in {batch(i) : i \in DOMAIN r} \ none
            <4>1. DOMAIN r = 1..Len(r) /\ \A i \in 1..Len(r) : name[i] = batch(i)
                BY <2>1
            <4> HIDE DEF r, f, none, name, batch
            <4> QED BY <3>3, <4>1
        <3> QED BY <3>4, <3>5
    <2>7. ASSUME NEW t \in Txs
          PROVE  IF t \in DOMAIN recordIdByTxHash
                 THEN <<recordIdByTxHash[t]>> = Keep(ids, {i \in DOMAIN r : Holds(i, t)})
                 ELSE \A i \in DOMAIN r : ~Holds(i, t)
        <3>1. \A i \in 1..Len(r) : r[i].receipt # NoReceipt =>
                  /\ r[i].receipt.txHash \in DOMAIN recordIdByTxHash
                  /\ recordIdByTxHash[r[i].receipt.txHash] = r[i].recordId
            BY <1>1 DEF IndexInv, TxIndexed
        <3>2. CASE t \in DOMAIN recordIdByTxHash
            <4> DEFINE P == {i \in DOMAIN r : Holds(i, t)}
                       n == recordIdByTxHash[t]
            <4>1. PICK k \in 1..Len(r) : Holds(k, t)
                BY <1>1, <3>2 DEF IndexInv, TxIndexed
            <4>2. n = r[k].recordId /\ n \in Nat
                BY <2>1, <3>1, <4>1
            <4>3. k \in P /\ \A i \in P : r[i].recordId = n
                BY <2>1, <3>1, <4>1
            <4>4. P \in SUBSET (1..Len(r))
                BY <2>1
            <4> DEFINE one == <<n>>  I == {n}
            <4>5. Lists(one, I)
                BY <4>2 DEF Lists
            <4>6. \A m : m \in I <=> \E i \in P : r[i].recordId = m
                BY <4>2, <4>3
            <4>8. r \in Seq(Record) /\ ByNumber(r)
                BY <2>1
            <4>7. one = Keep(ids, P)
                <5> HIDE DEF r, ids, Holds, P, n, one, I
                <5> QED BY <2>4, <4>4, <4>5, <4>6, <4>8, ScanGivesList
            <4> QED BY <3>2, <4>7
        <3>3. CASE t \notin DOMAIN recordIdByTxHash
            BY <2>1, <3>1, <3>3
        <3> QED BY <3>2, <3>3
    <2> QED BY <2>2, <2>5, <2>6, <2>7 DEF IndexConsistent
<1>2. IndexInv => IndexConsistent
    BY <1>1
<1> QED BY <1>2, AlwaysIndexed, PTL

(***************************************************************************)
(* The queries                                                             *)
(***************************************************************************)

\* Nothing to remove leaves the sequence as it is.
LEMMA KeepAll ==
    ASSUME NEW n \in Nat, NEW f, f = [i \in 1..n |-> f[i]]
    PROVE  Keep(f, 1..n) = f
<1> DEFINE upto(i) == {j \in 1..n : j <= i}
           nth(k)  == CHOOSE i \in 1..n : Cardinality(upto(i)) = k
<1>1. Cardinality(1..n) = n
    BY FS_Interval
<1>2. \A i \in 1..n : Cardinality(upto(i)) = i
    <2> SUFFICES ASSUME NEW i \in 1..n PROVE Cardinality(upto(i)) = i
        OBVIOUS
    <2>1. upto(i) = 1..i
        OBVIOUS
    <2>2. Cardinality(1..i) = i
        BY FS_Interval
    <2> QED BY <2>1, <2>2
<1>3. \A k \in 1..n : nth(k) \in 1..n /\ Cardinality(upto(nth(k))) = k
    BY <1>2
<1>4. \A k \in 1..n : nth(k) = k
    BY <1>2, <1>3
<1>5. Keep(f, 1..n) = [k \in 1..Cardinality(1..n) |-> f[nth(k)]]
    BY DEF Keep
<1> HIDE DEF nth
<1> QED BY <1>1, <1>4, <1>5

\* A list is as long as the set of its ids.
LEMMA ListLength ==
    ASSUME NEW s, NEW ids, Lists(s, ids)
    PROVE  /\ IsFiniteSet(ids) /\ Cardinality(ids) = Len(s)
           /\ s \in [1..Len(s) -> ids]
<1>1. s \in Seq(Nat) /\ Len(s) \in Nat /\ DOMAIN s = 1..Len(s) /\ \A i \in 1..Len(s) : s[i] \in Nat
    BY DEF Lists
<1>2. s \in [1..Len(s) -> ids]
    BY <1>1 DEF Lists
<1>3. \A i, j \in 1..Len(s) : s[i] = s[j] => i = j
    <2> SUFFICES ASSUME NEW i \in 1..Len(s), NEW j \in 1..Len(s), s[i] = s[j] PROVE i = j
        OBVIOUS
    <2>1. i \in Int /\ j \in Int /\ s[i] \in Int /\ s[j] \in Int
        BY <1>1
    <2>2. ~(i < j) /\ ~(j < i)
        BY <2>1 DEF Lists
    <2> QED BY <2>1, <2>2
<1>4. \A n \in ids : \E i \in 1..Len(s) : s[i] = n
    BY DEF Lists
<1>5. s \in Bijection(1..Len(s), ids)
    BY <1>2, <1>3, <1>4 DEF Bijection, Injection, Surjection, IsInjective
<1>6. ExistsBijection(1..Len(s), ids)
    BY <1>5 DEF ExistsBijection
<1>7. IsFiniteSet(1..Len(s)) /\ Cardinality(1..Len(s)) = Len(s)
    BY <1>1, FS_Interval
<1> QED BY <1>2, <1>6, <1>7, FS_Bijection

\* An ordering of a set of ids in which none is repeated has them all.
LEMMA OrderedIsList ==
    ASSUME NEW ids \in SUBSET Nat, IsFiniteSet(ids), NEW t \in SetToSeqs(ids),
           \A i, j \in DOMAIN t : i < j => t[i] < t[j]
    PROVE  Lists(t, ids)
<1> DEFINE c == Cardinality(ids)
<1>1. c \in Nat /\ IsFiniteSet(1..c) /\ Cardinality(1..c) = c
    BY FS_CardinalityType, FS_Interval
<1>2. t \in [1..c -> ids] /\ \A i, j \in 1..c : i # j => t[i] # t[j]
    BY DEF SetToSeqs
<1> HIDE DEF c
<1>3. t \in Injection(1..c, ids)
    BY <1>2 DEF Injection, IsInjective
<1>4. t \in Surjection(1..c, ids)
    BY <1>1, <1>3, FS_Injection DEF c
<1>5. t \in Seq(Nat) /\ Len(t) = c /\ DOMAIN t = 1..c
    <2>1. t \in [1..c -> Nat]
        BY <1>2
    <2> QED BY <1>1, <2>1
<1>6. \A n : n \in ids <=> \E i \in 1..c : t[i] = n
    <2>1. \A n \in ids : \E i \in 1..c : t[i] = n
        BY <1>4 DEF Surjection
    <2>2. \A i \in 1..c : t[i] \in ids
        BY <1>2
    <2> QED BY <2>1, <2>2
<1> QED BY <1>5, <1>6 DEF Lists

\* Saved in the order of their timestamps, which a signed 64-bit integer holds,
\* records come in the order of ORDER BY.
TimesRise ==
    \A i, j \in 1..Len(records) :
        i < j => records[i].packet.timestamp <= records[j].packet.timestamp

\* If packets come in the order of their timestamps, the SELECT orders by ids.
LEMMA OrderIsById ==
    ASSUME \A packet \in Packets : packet.timestamp \in 0..Int64Max, Int64Max \in Nat,
           IndexInv, TimesRise, NEW a \in DOMAIN AsRows, NEW b \in DOMAIN AsRows, a # b
    PROVE  Db!Before(a, b) <=> a < b
<1>1. PICK i \in 1..Len(records) : records[i].recordId = a
    BY KnownId
<1>2. PICK j \in 1..Len(records) : records[j].recordId = b
    BY KnownId
<1> DEFINE ta == records[i].packet.timestamp
           tb == records[j].packet.timestamp
<1>3. /\ AsRows[a] = [packet |-> records[i].packet, receipt |-> records[i].receipt]
      /\ AsRows[b] = [packet |-> records[j].packet, receipt |-> records[j].receipt]
    BY <1>1, <1>2, KnownId
<1>4. records[i] \in Record /\ records[j] \in Record /\ Len(records) \in Nat /\ ByNumber(records)
    BY KnownId
<1>5. /\ ta \in 0..Int64Max /\ tb \in 0..Int64Max
      /\ a \in Nat /\ b \in Nat /\ i \in Nat /\ j \in Nat
    BY <1>1, <1>2, <1>4 DEF Record
<1>6. AsRows[a].packet.timestamp = ta /\ AsRows[b].packet.timestamp = tb
    BY <1>3
<1>7. /\ Db!ToInt64(AsRows[a].packet.timestamp) = ta
      /\ Db!ToInt64(AsRows[b].packet.timestamp) = tb
    BY <1>5, <1>6 DEF Db!ToInt64
<1>8. Db!Before(a, b) <=> ta < tb \/ (ta = tb /\ a < b)
    BY <1>7 DEF Db!Before
<1>9. /\ i < j => ta <= tb /\ a < b
      /\ j < i => tb <= ta /\ b < a
    BY <1>1, <1>2, <1>4 DEF TimesRise, ByNumber
<1>10. i # j
    BY <1>1, <1>2
<1> HIDE DEF ta, tb
<1> QED BY <1>5, <1>8, <1>9, <1>10

\* What a row is made into, and where the vector has it.
LEMMA RecordOfRow ==
    ASSUME IndexInv, NEW id \in DOMAIN AsRows
    PROVE  /\ FindByIdLocked(id) = Db!RowToRecord(id)
           /\ FindByIdLocked(id) # NoRecord
<1>1. /\ id \in DOMAIN positionById
      /\ positionById[id] \in 1..Len(records) /\ records[positionById[id]].recordId = id
    BY KnownId
<1> DEFINE i == positionById[id]
<1>2. records[i] \in Record
    BY <1>1, KnownId
<1>3. records[i] = [recordId |-> id, packet |-> records[i].packet,
                    receipt |-> records[i].receipt]
    BY <1>1, <1>2 DEF Record
<1>4. AsRows[id] = [packet |-> records[i].packet, receipt |-> records[i].receipt]
    <2>1. AsRows[records[i].recordId]
              = [packet |-> records[i].packet, receipt |-> records[i].receipt]
        BY <1>1, KnownId
    <2> QED BY <1>1, <2>1
<1>5. Db!RowToRecord(id) = [recordId |-> id, packet |-> records[i].packet,
                            receipt |-> records[i].receipt]
    BY <1>4 DEF Db!RowToRecord
<1>6. FindByIdLocked(id) = records[i]
    BY <1>1 DEF FindByIdLocked
<1>7. NoRecord \notin Record
    BY RecordsAssumption DEF Record
<1> QED BY <1>2, <1>3, <1>5, <1>6, <1>7

\* A transaction is found in the index if and only if the table has it, and
\* then under the same record.
LEMMA SameByTransaction ==
    ASSUME IndexInv, NEW t \in Txs
    PROVE  FindByTransaction(t) = Db!FindByTransaction(t)
<1> DEFINE matches == {id \in DOMAIN AsRows : /\ AsRows[id].receipt # NoReceipt
                                              /\ AsRows[id].receipt.txHash = t}
<1>1. \A id \in DOMAIN AsRows : \E i \in 1..Len(records) :
          records[i].recordId = id /\ AsRows[id].receipt = records[i].receipt
    <2> SUFFICES ASSUME NEW id \in DOMAIN AsRows
                 PROVE  \E i \in 1..Len(records) :
                            records[i].recordId = id /\ AsRows[id].receipt = records[i].receipt
        OBVIOUS
    <2>1. PICK i \in 1..Len(records) : records[i].recordId = id
        BY KnownId
    <2>2. AsRows[records[i].recordId]
              = [packet |-> records[i].packet, receipt |-> records[i].receipt]
        BY KnownId
    <2> QED BY <2>1, <2>2
<1>2. \A id \in matches : t \in DOMAIN recordIdByTxHash /\ id = recordIdByTxHash[t]
    BY <1>1 DEF IndexInv, TxIndexed
<1>3. CASE t \in DOMAIN recordIdByTxHash
    <2>1. PICK i \in 1..Len(records) :
              records[i].receipt # NoReceipt /\ records[i].receipt.txHash = t
        BY <1>3 DEF IndexInv, TxIndexed
    <2>2. /\ records[i].recordId \in DOMAIN AsRows
          /\ AsRows[records[i].recordId]
                 = [packet |-> records[i].packet, receipt |-> records[i].receipt]
        <3>1. records[i].recordId \in DOMAIN positionById /\ DOMAIN AsRows = DOMAIN positionById
            BY KnownId
        <3>2. AsRows[records[i].recordId]
                 = [packet |-> records[i].packet, receipt |-> records[i].receipt]
            BY KnownId
        <3> QED BY <3>1, <3>2
    <2>3. records[i].recordId \in matches
        BY <2>1, <2>2
    <2> DEFINE n == recordIdByTxHash[t]
    <2>4. n \in matches /\ \A id \in matches : id = n
        BY <1>2, <2>3
    <2> HIDE DEF n, matches
    <2>5. Db!FindByTransaction(t) = Db!RowToRecord(n)
        <3>1. (CHOOSE id \in matches : TRUE) = n
            BY <2>4
        <3>2. Db!FindByTransaction(t) = IF matches = {} THEN NoRecord
                                        ELSE Db!RowToRecord(CHOOSE id \in matches : TRUE)
            BY DEF Db!FindByTransaction, matches
        <3> QED BY <2>4, <3>1, <3>2
    <2>6. FindByTransaction(t) = FindByIdLocked(n)
        BY <1>3 DEF FindByTransaction, n
    <2>7. n \in DOMAIN AsRows
        BY <2>4 DEF matches
    <2> QED BY <2>5, <2>6, <2>7, RecordOfRow
<1>4. CASE t \notin DOMAIN recordIdByTxHash
    <2>1. matches = {}
        BY <1>2, <1>4
    <2> QED BY <1>4, <2>1 DEF FindByTransaction, Db!FindByTransaction
<1> QED BY <1>3, <1>4

\* The last of a device's ids is that of its latest record.
LEMMA SameLatest ==
    ASSUME \A packet \in Packets : packet.timestamp \in 0..Int64Max, Int64Max \in Nat,
           IndexInv, TimesRise, NEW d \in Devices
    PROVE  LatestByDevice(d) = Db!LatestByDevice(d)
<1> DEFINE matches == {id \in DOMAIN AsRows : AsRows[id].packet.deviceId = d}
           key     == DeviceOf(AsRows)
           latest(id) == \A other \in matches \ {id} : Db!Before(other, id)
           list    == recordIdsByDevice[d]
           n       == list[Len(list)]
<1>1. IdLists(recordIdsByDevice, key, {})
    BY DEF IndexInv, DevicesIndexed
<1>2. matches = {id \in DOMAIN key : key[id] = d}
    BY DEF DeviceOf
<1>3. Db!LatestByDevice(d) = IF matches = {} THEN NoRecord
                             ELSE Db!RowToRecord(CHOOSE id \in matches : latest(id))
    BY DEF Db!LatestByDevice
<1> HIDE DEF key
<1>4. CASE d \in DOMAIN recordIdsByDevice
    <2>1. Lists(list, matches)
        BY <1>1, <1>2, <1>4 DEF IdLists
    <2>2. matches # {}
        BY <1>1, <1>2, <1>4 DEF IdLists
    <2>3. /\ list \in Seq(Nat) /\ Len(list) \in Nat
          /\ \A i, j \in 1..Len(list) : i < j => list[i] < list[j]
          /\ \A id : id \in matches <=> \E i \in 1..Len(list) : list[i] = id
        <3> HIDE DEF list, matches
        <3>1. list \in Seq(Nat)
            BY <2>1 DEF Lists
        <3> QED BY <2>1, <3>1 DEF Lists
    <2> HIDE DEF list, matches
    <2>4. Len(list) \in 1..Len(list)
        <3>1. PICK i \in 1..Len(list) : TRUE
            BY <2>2, <2>3
        <3> QED BY <2>3, <3>1
    <2>5. n \in matches /\ \A other \in matches : other # n => other < n
        <3>1. n \in matches
            BY <2>3, <2>4
        <3>2. \A i \in 1..Len(list) : i = Len(list) \/ i < Len(list)
            BY <2>3
        <3> QED BY <2>3, <2>4, <3>1, <3>2
    <2>6. matches \subseteq DOMAIN AsRows /\ matches \subseteq Nat
        <3>1. matches \subseteq Nat
            BY <2>3
        <3> QED BY <3>1 DEF matches
    <2> HIDE DEF n
    <2>7. latest(n)
        BY <2>5, <2>6, OrderIsById
    <2>8. ASSUME NEW id \in matches, latest(id)
          PROVE  id = n
        <3> SUFFICES ASSUME id # n PROVE FALSE
            OBVIOUS
        <3>1. Db!Before(n, id) /\ Db!Before(id, n)
            BY <2>5, <2>7, <2>8
        <3>2. n < id /\ id < n
            BY <2>5, <2>6, <3>1, OrderIsById
        <3> QED BY <2>5, <2>6, <3>2
    <2>9. (CHOOSE id \in matches : latest(id)) = n
        <3> HIDE DEF latest
        <3> QED BY <2>5, <2>7, <2>8
    <2>10. LatestByDevice(d) = FindByIdLocked(n)
        BY <1>4 DEF LatestByDevice, Last, n, list
    <2>11. FindByIdLocked(n) = Db!RowToRecord(n)
        BY <2>5, <2>6, RecordOfRow
    <2> HIDE DEF latest
    <2> QED BY <1>3, <2>2, <2>9, <2>10, <2>11
<1>5. CASE d \notin DOMAIN recordIdsByDevice
    <2>1. matches = {}
        BY <1>1, <1>2, <1>5 DEF IdLists
    <2> HIDE DEF matches
    <2> QED BY <1>3, <1>5, <2>1 DEF LatestByDevice
<1> QED BY <1>4, <1>5

\* A batch's list is the order of ORDER BY.
LEMMA SameByBatch ==
    ASSUME \A packet \in Packets : packet.timestamp \in 0..Int64Max, Int64Max \in Nat,
           IndexInv, TimesRise, NEW b \in Batches
    PROVE  FindByBatch(b) = Db!FindByBatch(b)
<1> DEFINE matches == {id \in DOMAIN AsRows : /\ AsRows[id].packet.batchCode # ""
                                              /\ AsRows[id].packet.batchCode = b}
           key     == BatchOf(AsRows)
           list    == IF b \in DOMAIN recordIdsByBatch THEN recordIdsByBatch[b] ELSE <<>>
           sorted  == CHOOSE s \in Db!SetToSeqs(matches) :
                          \A i, j \in DOMAIN s : i < j => Db!Before(s[i], s[j])
<1>1. IdLists(recordIdsByBatch, key, {""})
    BY DEF IndexInv, BatchesIndexed
<1>2. matches = {id \in DOMAIN key : key[id] = b /\ b # ""}
    BY DEF BatchOf
<1>3. Db!FindByBatch(b) = [i \in 1..Len(sorted) |-> Db!RowToRecord(sorted[i])]
    BY DEF Db!FindByBatch
<1>4. matches \subseteq DOMAIN AsRows
    OBVIOUS
<1> HIDE DEF key, matches
<1>5. Lists(list, matches)
    <2>1. CASE b \in DOMAIN recordIdsByBatch
        <3>1. b # "" /\ Lists(recordIdsByBatch[b], {id \in DOMAIN key : key[id] = b})
            BY <1>1, <2>1 DEF IdLists
        <3>2. {id \in DOMAIN key : key[id] = b} = matches
            BY <1>2, <3>1
        <3> QED BY <2>1, <3>1, <3>2
    <2>2. CASE b \notin DOMAIN recordIdsByBatch
        <3>1. matches = {}
            BY <1>1, <1>2, <2>2 DEF IdLists
        <3>2. Lists(<<>>, {})
            BY DEF Lists
        <3> QED BY <2>2, <3>1, <3>2
    <2> QED BY <2>1, <2>2
<1> HIDE DEF list
<1>6. /\ list \in Seq(Nat) /\ Len(list) \in Nat /\ DOMAIN list = 1..Len(list)
      /\ \A i, j \in 1..Len(list) : i < j => list[i] < list[j]
      /\ \A i \in 1..Len(list) : list[i] \in matches
      /\ matches \subseteq Nat
    <2>1. list \in Seq(Nat)
        BY <1>5 DEF Lists
    <2> QED BY <1>5, <2>1 DEF Lists
<1>7. IsFiniteSet(matches) /\ Cardinality(matches) = Len(list) /\ list \in [1..Len(list) -> matches]
    BY <1>5, ListLength
<1>8. list \in SetToSeqs(matches)
      /\ \A i, j \in DOMAIN list : i < j => Db!Before(list[i], list[j])
    <2>1. ASSUME NEW i \in 1..Len(list), NEW j \in 1..Len(list), i # j
          PROVE  list[i] # list[j]
        <3>1. i < j \/ j < i
            BY <1>6, <2>1
        <3> QED BY <1>6, <3>1
    <2>2. ASSUME NEW i \in 1..Len(list), NEW j \in 1..Len(list), i < j
          PROVE  Db!Before(list[i], list[j])
        <3>1. list[i] < list[j] /\ list[i] \in DOMAIN AsRows /\ list[j] \in DOMAIN AsRows
              /\ list[i] # list[j]
            BY <1>4, <1>6, <2>2
        <3> QED BY <3>1, OrderIsById
    <2> QED BY <1>6, <1>7, <2>1, <2>2 DEF SetToSeqs
<1>9. ASSUME NEW t \in SetToSeqs(matches),
             \A i, j \in DOMAIN t : i < j => Db!Before(t[i], t[j])
      PROVE  t = list
    <2>1. t \in [1..Cardinality(matches) -> matches]
          /\ \A i, j \in 1..Cardinality(matches) : i # j => t[i] # t[j]
        BY DEF SetToSeqs
    <2>2. ASSUME NEW i \in DOMAIN t, NEW j \in DOMAIN t, i < j
          PROVE  t[i] < t[j]
        <3>1. i # j
            BY <1>6, <1>7, <2>1, <2>2
        <3>2. t[i] \in DOMAIN AsRows /\ t[j] \in DOMAIN AsRows /\ t[i] # t[j]
            BY <1>4, <2>1, <3>1
        <3>3. Db!Before(t[i], t[j])
            BY <1>9, <2>2
        <3> QED BY <3>2, <3>3, OrderIsById
    <2>3. Lists(t, matches)
        BY <1>6, <1>7, <2>2, OrderedIsList
    <2> QED BY <1>5, <2>3, SameList
<1>10. sorted = list
    <2>1. Db!SetToSeqs(matches) = SetToSeqs(matches)
        <3>1. Db!Cardinality(matches) = Cardinality(matches)
            BY DEF Db!Cardinality, Cardinality
        <3> QED BY <3>1 DEF Db!SetToSeqs, SetToSeqs
    <2> QED BY <1>8, <1>9, <2>1
<1> HIDE DEF sorted
<1>11. Db!FindByBatch(b) = [i \in 1..Len(list) |-> Db!RowToRecord(list[i])]
    BY <1>3, <1>10
<1>12. CASE b \in DOMAIN recordIdsByBatch
    <2> DEFINE found == [i \in DOMAIN list |-> FindByIdLocked(list[i])]
    <2>1. list = recordIdsByBatch[b]
        BY <1>12 DEF list
    <2>2. FindByBatch(b) = Keep(found, {i \in DOMAIN list : found[i] # NoRecord})
        BY <1>12, <2>1 DEF FindByBatch
    <2>3. \A i \in 1..Len(list) : found[i] = Db!RowToRecord(list[i]) /\ found[i] # NoRecord
        BY <1>4, <1>6, RecordOfRow
    <2>4. found = [i \in 1..Len(list) |-> found[i]]
        BY <1>6
    <2> HIDE DEF found
    <2>5. {i \in DOMAIN list : found[i] # NoRecord} = 1..Len(list)
        BY <1>6, <2>3
    <2>6. FindByBatch(b) = found
        BY <1>6, <2>2, <2>4, <2>5, KeepAll
    <2> QED BY <1>11, <2>3, <2>4, <2>6
<1>13. CASE b \notin DOMAIN recordIdsByBatch
    <2>1. list = <<>> /\ FindByBatch(b) = <<>>
        BY <1>13 DEF list, FindByBatch
    <2>2. 1..Len(list) = {}
        BY <2>1
    <2> QED BY <1>11, <2>1, <2>2
<1> QED BY <1>12, <1>13

\* A test that asks this repository for a record by its transaction, for the
\* latest of a device or for a batch reads what agri_gateway would read from
\* SQLite, as long as packets are saved in the order of their timestamps and
\* none of these is past what the signed timestamp column holds (from there on
\* LatestByDevice of SQLite is wrong: LatestIsNewest).
THEOREM QueriesAreThoseOfSqlite ==
    ASSUME Int64Max \in Nat, \A packet \in Packets : packet.timestamp \in 0..Int64Max
    PROVE  Spec => []QueriesAgree
<1>1. IndexInv => QueriesAgree
    <2> SUFFICES ASSUME IndexInv PROVE QueriesAgree
        OBVIOUS
    <2>1. DOMAIN records = 1..Len(records)
        BY KnownId
    <2>2. \A t \in Txs : FindByTransaction(t) = Db!FindByTransaction(t)
        BY SameByTransaction
    <2>3. ASSUME \A i, j \in DOMAIN records :
                     i < j => records[i].packet.timestamp <= records[j].packet.timestamp
          PROVE  /\ \A d \in Devices : LatestByDevice(d) = Db!LatestByDevice(d)
                 /\ \A b \in Batches : FindByBatch(b) = Db!FindByBatch(b)
        <3>1. TimesRise
            BY <2>1, <2>3 DEF TimesRise
        <3> QED BY <3>1, SameLatest, SameByBatch
    <2> QED BY <2>2, <2>3 DEF QueriesAgree
<1> QED BY <1>1, AlwaysIndexed, PTL

==============================================================================
