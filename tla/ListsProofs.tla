----------------------------- MODULE ListsProofs -----------------------------
(***************************************************************************)
(* Proofs about Lists: every variable keeps its shape, and when no change  *)
(* is on its way every heart the browser keeps is the server's and every   *)
(* list read to its end is whole, for any number of listings, any size of  *)
(* page and any bounds.                                                    *)
(***************************************************************************)
EXTENDS Lists, FiniteSetTheorems, SequenceTheorems, TLAPS

USE ListsAssumption

Row0 == [id : Listings, on : BOOLEAN, saved : BOOLEAN]

-----------------------------------------------------------------------------
(* Numbers and finite sets.                                                *)

LEMMA Least ==
  ASSUME NEW S \in SUBSET Nat, S # {}
  PROVE  \E x \in S : \A y \in S : x <= y
<1>1. IsWellFoundedOn({p \in Nat \X Nat : p[1] < p[2]}, Nat)
  BY NatLessThanWellFounded, Zenon DEF OpToRel
<1>2. PICK R : R = {p \in Nat \X Nat : p[1] < p[2]}
  OBVIOUS
<1>3. \E x \in S : \A y \in S : ~(<<y, x>> \in R)
  <2>1. IsWellFoundedOn(R, Nat)
    BY <1>1, <1>2, Zenon
  <2>. QED
    BY <2>1, WFMin, Zenon
<1>4. PICK x \in S : \A y \in S : ~(<<y, x>> \in R)
  BY <1>3
<1>5. ASSUME NEW y \in S
      PROVE  x <= y
  <2>1. x \in Nat /\ y \in Nat
    OBVIOUS
  <2>2. ~(y < x)
    BY <1>2, <1>4, <2>1
  <2>. QED
    BY <2>1, <2>2
<1>. QED
  BY <1>5

LEMMA Greatest ==
  ASSUME NEW b \in Nat, NEW S \in SUBSET (0 .. b), S # {}
  PROVE  Max(S) \in S /\ \A y \in S : y <= Max(S)
<1>1. PICK T : T = {b - x : x \in S}
  OBVIOUS
<1>2. T \in SUBSET Nat /\ T # {}
  <2>1. ASSUME NEW x \in S
        PROVE  b - x \in Nat
    <3>1. x \in 0 .. b
      OBVIOUS
    <3>. QED
      BY <3>1
  <2>. QED
    BY <1>1, <2>1
<1>3. PICK t \in T : \A u \in T : t <= u
  BY <1>2, Least
<1>4. PICK x \in S : t = b - x
  BY <1>1
<1>5. \A y \in S : x >= y
  <2>1. TAKE y \in S
  <2>2. t <= b - y
    BY <1>1, <1>3
  <2>. QED
    BY <1>4, <2>2
<1>6. Max(S) \in S /\ \A y \in S : Max(S) >= y
  BY <1>4, <1>5 DEF Max
<1>. QED
  BY <1>6

-----------------------------------------------------------------------------
(* The order of a list.                                                    *)

LEMMA Multiples ==
  ASSUME NEW a \in Nat, NEW b \in Nat, NEW k \in Nat, a < b
  PROVE  a * k + k <= b * k
<1>1. PICK d \in Nat : b = a + 1 + d
  <2>1. b - a - 1 \in Nat /\ b = a + 1 + (b - a - 1)
    OBVIOUS
  <2>. QED
    BY <2>1
<1>2. b * k = a * k + k + d * k
  BY <1>1
<1>3. d * k \in Nat /\ a * k \in Nat
  OBVIOUS
<1>. QED
  BY <1>2, <1>3

Dates == [Listings -> 0 .. MaxToggles + 1]

LEMMA Keys ==
  ASSUME NEW q \in Queries, savedAt \in Dates
  PROVE  /\ \A l \in Listings : Key(q, l) \in Nat /\ Key(q, l) > 0
         /\ \A l, m \in Listings : Key(q, l) = Key(q, m) => l = m
<1>1. N \in Nat /\ Listings = 1 .. N /\ MaxToggles \in Nat
  BY DEF Listings
<1>2. CASE q # "saved"
  BY <1>1, <1>2 DEF Key
<1>3. CASE q = "saved"
  <2>1. ASSUME NEW l \in Listings
        PROVE  MaxToggles + 2 - savedAt[l] \in Nat /\ MaxToggles + 2 - savedAt[l] > 0
    BY <1>1 DEF Dates
  <2>2. ASSUME NEW l \in Listings
        PROVE  Key(q, l) \in Nat /\ Key(q, l) > 0
    <3>1. PICK b \in Nat : b = MaxToggles + 2 - savedAt[l] /\ 0 < b
      BY <2>1
    <3>2. 0 * (N + 1) + (N + 1) <= b * (N + 1)
      BY <1>1, <3>1, Multiples
    <3>3. b * (N + 1) \in Nat
      BY <1>1
    <3>4. b * (N + 1) - l \in Nat /\ b * (N + 1) - l > 0
      <4>1. PICK p \in Nat : p = b * (N + 1)
        BY <3>3
      <4>2. N + 1 <= p
        BY <1>1, <3>2, <4>1
      <4>. QED
        BY <1>1, <4>1, <4>2
    <3>. QED
      BY <1>3, <3>1, <3>4 DEF Key
  <2>3. ASSUME NEW l \in Listings, NEW m \in Listings,
               MaxToggles + 2 - savedAt[l] < MaxToggles + 2 - savedAt[m]
        PROVE  Key(q, l) < Key(q, m)
    <3>1. PICK a \in Nat : a = MaxToggles + 2 - savedAt[l]
      BY <2>1
    <3>2. PICK b \in Nat : b = MaxToggles + 2 - savedAt[m]
      BY <2>1
    <3>3. PICK x \in Nat : x = a * (N + 1)
      BY <1>1
    <3>4. PICK y \in Nat : y = b * (N + 1)
      BY <1>1
    <3>5. x + (N + 1) <= y
      <4>1. a < b /\ N + 1 \in Nat
        BY <1>1, <2>3, <3>1, <3>2
      <4>. QED
        BY <3>3, <3>4, <4>1, Multiples
    <3>6. Key(q, l) = x - l /\ Key(q, m) = y - m
      BY <1>3, <3>1, <3>2, <3>3, <3>4 DEF Key
    <3>. QED
      BY <1>1, <3>5, <3>6
  <2>4. ASSUME NEW l \in Listings, NEW m \in Listings, Key(q, l) = Key(q, m)
        PROVE  l = m
    <3>1. MaxToggles + 2 - savedAt[l] = MaxToggles + 2 - savedAt[m]
      BY <2>1, <2>2, <2>3, <2>4
    <3>2. PICK x \in Int : x = (MaxToggles + 2 - savedAt[l]) * (N + 1)
      BY <1>1, <2>1
    <3>3. Key(q, l) = x - l
      BY <1>3, <3>2 DEF Key
    <3>4. Key(q, m) = x - m
      BY <1>3, <3>1, <3>2 DEF Key
    <3>5. x - l = x - m
      BY <2>4, <3>3, <3>4
    <3>. QED
      BY <1>1, <3>5
  <2>. QED
    BY <2>2, <2>4
<1>. QED
  BY <1>2, <1>3

-----------------------------------------------------------------------------
(* A set in the order of a key has one enumeration.                        *)

Enumerates(s, S, K) ==
  /\ s \in Seq(S)
  /\ \A x \in S : \E i \in 1 .. Len(s) : s[i] = x
  /\ \A i, j \in 1 .. Len(s) : i < j => K[s[i]] < K[s[j]]

LEMMA Longer ==
  ASSUME NEW D, NEW K \in [D -> Nat], NEW S \in SUBSET D, NEW x \in D,
         \A y \in S : K[y] < K[x], NEW s, Enumerates(s, S, K)
  PROVE  Enumerates(Append(s, x), S \cup {x}, K)
<1>1. PICK t : t = Append(s, x)
  OBVIOUS
<1>2. PICK T : T = S \cup {x}
  OBVIOUS
<1>3. s \in Seq(T) /\ x \in T /\ Len(s) \in Nat
  BY <1>2, SeqMonotonic DEF Enumerates
<1>4. /\ t \in Seq(T) /\ Len(t) = Len(s) + 1 /\ t[Len(s) + 1] = x
      /\ \A i \in 1 .. Len(s) : t[i] = s[i]
  BY <1>1, <1>3, AppendProperties
<1>5. ASSUME NEW y \in T
      PROVE  \E i \in 1 .. Len(t) : t[i] = y
  <2>1. CASE y = x
    BY <1>3, <1>4, <2>1
  <2>2. CASE y # x
    <3>1. PICK i \in 1 .. Len(s) : s[i] = y
      BY <1>2, <2>2 DEF Enumerates
    <3>. QED
      BY <1>3, <1>4, <3>1
  <2>. QED
    BY <2>1, <2>2
<1>6. ASSUME NEW i \in 1 .. Len(t), NEW j \in 1 .. Len(t), i < j
      PROVE  K[t[i]] < K[t[j]]
  <2>1. i \in 1 .. Len(s) /\ t[i] = s[i] /\ s[i] \in S
    <3>1. i \in 1 .. Len(s)
      BY <1>3, <1>4, <1>6
    <3>. QED
      BY <1>4, <3>1, ElementOfSeq DEF Enumerates
  <2>2. CASE j = Len(s) + 1
    BY <1>4, <2>1, <2>2
  <2>3. CASE j # Len(s) + 1
    <3>1. j \in 1 .. Len(s)
      BY <1>3, <1>4, <2>3
    <3>. QED
      BY <1>4, <1>6, <2>1, <3>1 DEF Enumerates
  <2>. QED
    BY <2>2, <2>3
<1>. QED
  BY <1>1, <1>2, <1>4, <1>5, <1>6 DEF Enumerates

Below(S, K, k) == {x \in S : K[x] < k}

LEMMA Enumerable ==
  ASSUME NEW D, NEW K \in [D -> Nat], \A x, y \in D : K[x] = K[y] => x = y,
         NEW b \in Nat, \A x \in D : K[x] < b, NEW S \in SUBSET D
  PROVE  \E s : Enumerates(s, S, K)
<1>1. PICK Bad : Bad = {k \in Nat : ~\E s : Enumerates(s, Below(S, K, k), K)}
  OBVIOUS
<1>2. ASSUME Bad # {}
      PROVE  FALSE
  <2>1. PICK k \in Bad : \A m \in Bad : k <= m
    BY <1>1, <1>2, Least
  <2>2. k \in Nat /\ ~\E s : Enumerates(s, Below(S, K, k), K)
    BY <1>1, <2>1
  <2>3. CASE k = 0
    <3>1. Below(S, K, k) = {}
      <4>1. ASSUME NEW x \in S
            PROVE  ~(K[x] < 0)
        <5>1. K[x] \in Nat
          OBVIOUS
        <5>. QED
          BY <5>1
      <4>. QED
        BY <2>3, <4>1 DEF Below
    <3>2. Enumerates(<<>>, {}, K)
      BY EmptySeq DEF Enumerates
    <3>. QED
      BY <2>2, <3>1, <3>2
  <2>4. CASE k # 0
    <3>1. PICK m \in Nat : m + 1 = k
      <4>1. k - 1 \in Nat /\ (k - 1) + 1 = k
        BY <2>2, <2>4
      <4>. QED
        BY <4>1
    <3>2. m \notin Bad
      BY <2>1, <2>2, <3>1
    <3>3. PICK s : Enumerates(s, Below(S, K, m), K)
      BY <1>1, <3>2
    <3>4. \A x \in S : K[x] < k <=> K[x] < m \/ K[x] = m
      <4>1. ASSUME NEW x \in S
            PROVE  K[x] < k <=> K[x] < m \/ K[x] = m
        <5>1. K[x] \in Nat
          OBVIOUS
        <5>. QED
          BY <3>1, <5>1
      <4>. QED
        BY <4>1
    <3>5. CASE \E x \in S : K[x] = m
      <4>1. PICK x \in S : K[x] = m
        BY <3>5
      <4>2. Below(S, K, k) = Below(S, K, m) \cup {x}
        BY <3>4, <4>1 DEF Below
      <4>3. Below(S, K, m) \in SUBSET D /\ \A y \in Below(S, K, m) : K[y] < K[x]
        BY <4>1 DEF Below
      <4>4. Enumerates(Append(s, x), Below(S, K, m) \cup {x}, K)
        BY <3>3, <4>3, Longer
      <4>. QED
        BY <2>2, <4>2, <4>4
    <3>6. CASE ~\E x \in S : K[x] = m
      <4>1. Below(S, K, k) = Below(S, K, m)
        BY <3>4, <3>6 DEF Below
      <4>. QED
        BY <2>2, <3>3, <4>1
    <3>. QED
      BY <3>5, <3>6
  <2>. QED
    BY <2>3, <2>4
<1>3. \E s : Enumerates(s, Below(S, K, b), K)
  BY <1>1, <1>2
<1>4. Below(S, K, b) = S
  BY DEF Below
<1>. QED
  BY <1>3, <1>4

\* Where two enumerations first differ, each has the smaller key.
LEMMA Follows ==
  ASSUME NEW D, NEW K \in [D -> Nat], NEW S \in SUBSET D,
         NEW s, Enumerates(s, S, K), NEW t, Enumerates(t, S, K),
         NEW i \in Nat \ {0}, i <= Len(s),
         \A j \in 1 .. (i - 1) : j <= Len(t) /\ s[j] = t[j]
  PROVE  /\ i <= Len(t)
         /\ s[i] # t[i] => K[t[i]] < K[s[i]]
<1>1. Len(s) \in Nat /\ Len(t) \in Nat /\ i \in 1 .. Len(s) /\ s[i] \in S
  <2>1. Len(s) \in Nat /\ Len(t) \in Nat
    <3>1. s \in Seq(S) /\ t \in Seq(S)
      BY Zenon DEF Enumerates
    <3>. QED
      BY <3>1, LenProperties
  <2>2. i \in 1 .. Len(s)
    BY <2>1
  <2>. QED
    BY <2>1, <2>2, ElementOfSeq DEF Enumerates
<1>2. PICK k \in 1 .. Len(t) : t[k] = s[i]
  BY <1>1 DEF Enumerates
<1>3. ~(k < i)
  <2>1. SUFFICES ASSUME k < i
                 PROVE  FALSE
    OBVIOUS
  <2>2. k \in 1 .. (i - 1) /\ k \in 1 .. Len(s)
    BY <1>1, <1>2, <2>1
  <2>3. s[k] = s[i] /\ K[s[k]] < K[s[i]] /\ K[s[i]] \in Nat
    BY <1>1, <1>2, <2>1, <2>2 DEF Enumerates
  <2>. QED
    BY <2>3
<1>4. i \in 1 .. Len(t)
  BY <1>1, <1>3
<1>5. ASSUME k # i
      PROVE  K[t[i]] < K[s[i]]
  <2>1. i < k
    BY <1>1, <1>2, <1>3, <1>5
  <2>2. K[t[i]] < K[t[k]]
    BY <1>2, <1>4, <2>1 DEF Enumerates
  <2>. QED
    BY <1>2, <2>2
<1>. QED
  BY <1>2, <1>4, <1>5

LEMMA OneOrder ==
  ASSUME NEW D, NEW K \in [D -> Nat], NEW S \in SUBSET D,
         NEW s, Enumerates(s, S, K), NEW t, Enumerates(t, S, K)
  PROVE  s = t
<1>1. Len(s) \in Nat /\ Len(t) \in Nat /\ s \in Seq(S) /\ t \in Seq(S)
  BY DEF Enumerates
<1>2. PICK Bad : Bad = {i \in Nat \ {0} : /\ i <= Len(s) \/ i <= Len(t)
                                          /\ ~(i <= Len(s) /\ i <= Len(t) /\ s[i] = t[i])}
  OBVIOUS
<1>3. ASSUME Bad # {}
      PROVE  FALSE
  <2>1. PICK i \in Bad : \A m \in Bad : i <= m
    BY <1>2, <1>3, Least
  <2>2. i \in Nat \ {0} /\ (i <= Len(s) \/ i <= Len(t))
        /\ ~(i <= Len(s) /\ i <= Len(t) /\ s[i] = t[i])
    BY <1>2, <2>1
  <2>3. ASSUME NEW j \in 1 .. (i - 1)
        PROVE  j <= Len(s) /\ j <= Len(t) /\ s[j] = t[j]
    <3>1. j \in Nat \ {0} /\ j < i /\ ~(i <= j)
      BY <2>2
    <3>2. j \notin Bad
      BY <2>1, <3>1
    <3>3. j <= Len(s) \/ j <= Len(t)
      BY <1>1, <2>2, <3>1
    <3>. QED
      BY <1>2, <3>1, <3>2, <3>3
  <2>4. i <= Len(s) => i <= Len(t) /\ (s[i] # t[i] => K[t[i]] < K[s[i]])
    BY <2>2, <2>3, Follows
  <2>5. i <= Len(t) => i <= Len(s) /\ (t[i] # s[i] => K[s[i]] < K[t[i]])
    BY <2>2, <2>3, Follows
  <2>6. i \in 1 .. Len(s) /\ i \in 1 .. Len(t) /\ s[i] # t[i]
    BY <1>1, <2>2, <2>4, <2>5
  <2>7. s[i] \in S /\ t[i] \in S
    BY <1>1, <2>6, ElementOfSeq
  <2>8. K[s[i]] \in Nat /\ K[t[i]] \in Nat
    BY <2>7
  <2>. QED
    BY <2>2, <2>4, <2>5, <2>6, <2>8
<1>4. ASSUME NEW i \in 1 .. Len(s)
      PROVE  i <= Len(t) /\ s[i] = t[i]
  <2>1. i \notin Bad /\ i \in Nat \ {0} /\ i <= Len(s)
    BY <1>1, <1>3
  <2>. QED
    BY <1>2, <2>1
<1>5. ASSUME NEW i \in 1 .. Len(t)
      PROVE  i <= Len(s)
  <2>1. i \notin Bad /\ i \in Nat \ {0} /\ i <= Len(t)
    BY <1>1, <1>3
  <2>. QED
    BY <1>2, <2>1
<1>6. Len(s) = Len(t)
  <2>1. ~(Len(s) > Len(t))
    <3>1. SUFFICES ASSUME Len(s) > Len(t)
                   PROVE  FALSE
      OBVIOUS
    <3>2. Len(s) \in 1 .. Len(s)
      BY <1>1, <3>1
    <3>3. Len(s) <= Len(t)
      BY <1>4, <3>2
    <3>. QED
      BY <1>1, <3>1, <3>3
  <2>2. ~(Len(t) > Len(s))
    <3>1. SUFFICES ASSUME Len(t) > Len(s)
                   PROVE  FALSE
      OBVIOUS
    <3>2. Len(t) \in 1 .. Len(t)
      BY <1>1, <3>1
    <3>3. Len(t) <= Len(s)
      BY <1>5, <3>2
    <3>. QED
      BY <1>1, <3>1, <3>3
  <2>. QED
    BY <1>1, <2>1, <2>2
<1>. QED
  BY <1>1, <1>4, <1>6, SeqEqual

-----------------------------------------------------------------------------
(* What the server answers.                                                *)

Beyond(q, c) == {l \in Listings : Belongs(q, l) /\ Key(q, l) > c}
KeyOf(q) == [l \in Listings |-> Key(q, l)]

LEMMA Ordered ==
  ASSUME NEW q \in Queries, savedAt \in Dates
  PROVE  /\ KeyOf(q) \in [Listings -> Nat]
         /\ \A x, y \in Listings : KeyOf(q)[x] = KeyOf(q)[y] => x = y
         /\ \E b \in Nat : \A x \in Listings : KeyOf(q)[x] < b
<1>1. \A l \in Listings : KeyOf(q)[l] = Key(q, l) /\ Key(q, l) \in Nat
  BY Keys DEF KeyOf
<1>2. KeyOf(q) \in [Listings -> Nat]
  BY Keys DEF KeyOf
<1>3. \A x, y \in Listings : KeyOf(q)[x] = KeyOf(q)[y] => x = y
  BY <1>1, Keys
<1>4. \E b \in Nat : \A x \in Listings : KeyOf(q)[x] < b
  <2>1. N \in Nat /\ Listings = 1 .. N /\ MaxToggles \in Nat
    BY DEF Listings
  <2>2. CASE q # "saved"
    <3>1. ASSUME NEW x \in Listings
          PROVE  KeyOf(q)[x] < N + 1
      <4>1. KeyOf(q)[x] = N + 1 - x
        BY <1>1, <2>2 DEF Key
      <4>. QED
        BY <2>1, <4>1
    <3>2. N + 1 \in Nat
      BY <2>1
    <3>. QED
      BY <3>1, <3>2
  <2>3. CASE q = "saved"
    <3>1. PICK b \in Nat : b = (MaxToggles + 3) * (N + 1)
      BY <2>1
    <3>2. ASSUME NEW x \in Listings
          PROVE  KeyOf(q)[x] < b
      <4>1. PICK a \in Nat : a = MaxToggles + 2 - savedAt[x] /\ a < MaxToggles + 3
        BY <2>1 DEF Dates
      <4>2. PICK y \in Nat : y = a * (N + 1)
        BY <2>1
      <4>3. y + (N + 1) <= b
        <5>1. N + 1 \in Nat /\ MaxToggles + 3 \in Nat
          BY <2>1
        <5>. QED
          BY <3>1, <4>1, <4>2, <5>1, Multiples
      <4>4. Key(q, x) = y - x
        BY <2>3, <4>1, <4>2 DEF Key
      <4>. QED
        BY <1>1, <2>1, <4>3, <4>4
    <3>. QED
      BY <3>2
  <2>. QED
    BY <2>2, <2>3
<1>. QED
  BY <1>2, <1>3, <1>4

LEMMA AfterSorted ==
  ASSUME NEW q \in Queries, savedAt \in Dates, NEW c \in Nat
  PROVE  Enumerates(After(q, c), Beyond(q, c), KeyOf(q))
<1>1. PICK S : S = Beyond(q, c)
  OBVIOUS
<1>2. PICK K : K = KeyOf(q)
  OBVIOUS
<1>3. S \in SUBSET Listings /\ \A l \in Listings : K[l] = Key(q, l)
  BY <1>1, <1>2 DEF Beyond, KeyOf
<1>4. IsFiniteSet(Listings)
  BY FS_Interval DEF Listings
<1>5. IsFiniteSet(S) /\ Cardinality(S) \in Nat
  BY <1>3, <1>4, FS_Subset, FS_CardinalityType
<1>6. PICK n \in Nat : n = Cardinality(S)
  BY <1>5
<1>7. /\ K \in [Listings -> Nat]
      /\ \A x, y \in Listings : K[x] = K[y] => x = y
      /\ \E b \in Nat : \A x \in Listings : K[x] < b
  BY <1>2, Ordered
<1>8. PICK e : Enumerates(e, S, K)
  BY <1>3, <1>7, Enumerable
<1>9. e \in [1 .. n -> S]
  <2>1. PICK k \in Nat : k = Len(e) /\ e \in [1 .. k -> S]
    BY <1>8, LenProperties DEF Enumerates
  <2>2. ASSUME NEW i \in 1 .. k, NEW j \in 1 .. k, e[i] = e[j]
        PROVE  i = j
    <3>1. e[i] \in Listings /\ K[e[i]] \in Nat
      BY <1>3, <1>7, <2>1
    <3>2. (i < j => K[e[i]] < K[e[j]]) /\ (j < i => K[e[j]] < K[e[i]])
      BY <1>8, <2>1 DEF Enumerates
    <3>. QED
      BY <2>2, <3>1, <3>2
  <2>3. e \in Bijection(1 .. k, S)
    <3>1. e \in Injection(1 .. k, S)
      BY <2>1, <2>2 DEF Injection, IsInjective
    <3>2. \A x \in S : \E i \in 1 .. k : e[i] = x
      BY <1>8, <2>1 DEF Enumerates
    <3>3. e \in Surjection(1 .. k, S)
      BY <2>1, <3>2 DEF Surjection
    <3>. QED
      BY <3>1, <3>3 DEF Bijection
  <2>4. k = n
    BY <1>6, <2>1, <2>3, FS_CountingElements DEF ExistsBijection
  <2>. QED
    BY <2>1, <2>4
<1>10. \A i, j \in DOMAIN e : i < j => Key(q, e[i]) < Key(q, e[j])
  <2>1. DOMAIN e = 1 .. Len(e) /\ \A i \in DOMAIN e : e[i] \in Listings
    BY <1>3, <1>8, <1>9 DEF Enumerates
  <2>. QED
    BY <1>3, <1>8, <2>1 DEF Enumerates
<1>11. PICK a : a = After(q, c)
  OBVIOUS
<1>12. a = CHOOSE s \in [1 .. n -> S] : \A i, j \in DOMAIN s : i < j => Key(q, s[i]) < Key(q, s[j])
  BY <1>1, <1>6, <1>11 DEF After, Beyond
<1>13. a \in [1 .. n -> S] /\ \A i, j \in DOMAIN a : i < j => Key(q, a[i]) < Key(q, a[j])
  BY <1>9, <1>10, <1>12
<1>14. a \in Seq(S) /\ Len(a) = n /\ DOMAIN a = 1 .. n
  BY <1>13, IsASeq
<1>15. \A i, j \in 1 .. Len(a) : i < j => K[a[i]] < K[a[j]]
  <2>1. \A i \in 1 .. n : a[i] \in Listings
    BY <1>3, <1>13
  <2>. QED
    BY <1>3, <1>13, <1>14, <2>1
<1>16. \A x \in S : \E i \in 1 .. Len(a) : a[i] = x
  <2>1. ASSUME NEW i \in 1 .. n, NEW j \in 1 .. n, a[i] = a[j]
        PROVE  i = j
    <3>1. K[a[i]] \in Nat
      BY <1>3, <1>7, <1>13
    <3>2. (i < j => K[a[i]] < K[a[j]]) /\ (j < i => K[a[j]] < K[a[i]])
      BY <1>14, <1>15
    <3>. QED
      BY <2>1, <3>1, <3>2
  <2>2. a \in Injection(1 .. n, S)
    BY <1>13, <2>1 DEF Injection, IsInjective
  <2>3. Cardinality(1 .. n) = n
    <3>1. n \in Int /\ 1 \in Int /\ (1 > n => n = 0)
      OBVIOUS
    <3>. QED
      BY <3>1, FS_Interval
  <2>4. a \in Surjection(1 .. n, S)
    BY <1>5, <1>6, <2>2, <2>3, FS_Injection
  <2>. QED
    BY <1>14, <2>4 DEF Surjection
<1>. QED
  BY <1>1, <1>2, <1>11, <1>14, <1>15, <1>16 DEF Enumerates

-----------------------------------------------------------------------------
(* The invariant: hearts.                                                  *)

\* A heart as the server has it.
Matches(row) == Exists(row.id) => row.saved = (savedAt[row.id] # 0)
AllMatch(rows) == \A i \in DOMAIN rows : Matches(rows[i])

Carries(m, l) == muts[m].state # "idle" /\ muts[m].id = l

\* The heart of a row is the server's if no change of it is on its way, and the
\* change's if one is.
HeartFits(row) ==
  /\ (\A m \in Slots : ~Carries(m, row.id)) => Matches(row)
  /\ \A m \in Slots :
       Carries(m, row.id) /\ ~Disputed(m)
         => /\ row.saved = muts[m].to
            /\ muts[m].state = "applied" => Matches(row)
HeartsFit(rows) == \A i \in DOMAIN rows : HeartFits(rows[i])

-----------------------------------------------------------------------------
(* The invariant: lists.                                                   *)

\* Up to its cursor, a list has what it is about, in the server's order.
Upto(q, next) == {l \in Listings : Belongs(q, l) /\ (next = 0 \/ Key(q, l) <= next)}
Holds(q, rows, next) ==
  /\ \A i \in DOMAIN rows : rows[i].id \in Upto(q, next)
  /\ \A l \in Upto(q, next) : \E i \in DOMAIN rows : rows[i].id = l
  /\ \A i, j \in DOMAIN rows : i < j => Key(q, rows[i].id) < Key(q, rows[j].id)

\* Nothing the server has done to the list is still to be answered.
Settled(q) == ~edit.applied /\ (q = "saved" => \A m \in Slots : muts[m].state # "applied")

CacheFits(q, c) ==
  c.count > 0 =>
    /\ q # "mine" /\ ~c.unsure => HeartsFit(c.rows)
    /\ Settled(q) /\ ~c.stale /\ ~c.behind => Holds(q, c.rows, c.next)

FetchFits(q, f) ==
  f.kind # "none" =>
    /\ q # "mine" /\ ~f.unsure => ~Busy /\ AllMatch(f.rows)
    /\ f.count = 0 => f.rows = <<>> /\ f.next = 0
    /\ Settled(q) /\ f.count > 0 /\ ~f.behind => Holds(q, f.rows, f.next)

\* What the lists were when a change was made, if nothing has crossed it.
MutFits(m, u) ==
  u.state # "idle" =>
    /\ u.id \in Listings
    /\ ~u.crossed => \A n \in Slots \ {m} : muts[n].state = "idle"
    /\ ~u.crossed /\ u.state = "sent" =>
         \A q \in Queries \ {"mine"} :
           u.before[q].count > 0 /\ ~u.before[q].unsure => AllMatch(u.before[q].rows)
    /\ Editing => u.edited
    /\ ~u.edited =>
         \A q \in Queries \ {"saved"} :
           u.before[q].count > 0 /\ ~u.before[q].stale /\ ~u.before[q].behind
             => Holds(q, u.before[q].rows, u.before[q].next)

CachesFit == \A q \in Queries : \A c \in {cache[q]} : CacheFits(q, c)
FetchesFit == \A q \in Queries : \A f \in {fetch[q]} : FetchFits(q, f)
MutsFit == \A m \in Slots : \A u \in {muts[m]} : MutFits(m, u)

\* A favourite was saved by a change the server has had.
Sent(m) == IF muts[m].state = "sent" THEN 1 ELSE 0
Pending == Sent(1) + Sent(2)
Dated == \A l \in Listings : savedAt[l] + Pending <= used.toggles + 1

EditFits == (edit.applied => Editing) /\ (Editing => edit.id \in Listings)

ListsInv == TypeOK /\ Dated /\ EditFits /\ CachesFit /\ FetchesFit /\ MutsFit

-----------------------------------------------------------------------------
(* One page.                                                               *)

LEMMA Sizes ==
  ASSUME NEW q \in Queries
  PROVE  Size(q) \in Nat \ {0}
  BY DEF Size

LEMMA RowMatches ==
  ASSUME NEW q \in Queries, q # "mine", NEW l \in Listings
  PROVE  Matches(Row(q, l))
<1>1. PICK v \in BOOLEAN : v = (q # "mine" /\ savedAt[l] # 0)
  OBVIOUS
<1>2. PICK o \in BOOLEAN : o = (status[l] = "on")
  OBVIOUS
<1>3. Row(q, l) = [id |-> l, on |-> o, saved |-> v]
  BY <1>1, <1>2 DEF Row
<1>4. Row(q, l).id = l /\ Row(q, l).saved = v
  BY <1>3
<1>. QED
  BY <1>1, <1>4 DEF Matches

LEMMA PageRows ==
  ASSUME NEW q \in Queries, savedAt \in Dates, NEW c \in Nat, NEW p, p = PageOf(q, c)
  PROVE  /\ p.rows \in Rows /\ p.next \in Nat
         /\ q # "mine" => AllMatch(p.rows)
         /\ p.next # 0 => c < p.next
         /\ \A i \in DOMAIN p.rows :
              p.rows[i].id \in Beyond(q, c) /\ (p.next = 0 \/ Key(q, p.rows[i].id) <= p.next)
         /\ \A l \in Beyond(q, c) :
              p.next = 0 \/ Key(q, l) <= p.next => \E i \in DOMAIN p.rows : p.rows[i].id = l
         /\ \A i, j \in DOMAIN p.rows : i < j => Key(q, p.rows[i].id) < Key(q, p.rows[j].id)
<1>1. PICK a : a = After(q, c)
  OBVIOUS
<1>2. Enumerates(a, Beyond(q, c), KeyOf(q))
  BY <1>1, AfterSorted
<1>3. PICK k \in Nat : k = Len(a) /\ a \in [1 .. k -> Beyond(q, c)]
  <2>1. a \in Seq(Beyond(q, c))
    BY <1>2 DEF Enumerates
  <2>. QED
    BY <2>1, LenProperties
<1>4. \A l \in Listings : KeyOf(q)[l] = Key(q, l) /\ Key(q, l) \in Nat /\ Key(q, l) > 0
  BY Keys DEF KeyOf
<1>5. \A i \in 1 .. k : a[i] \in Listings /\ a[i] \in Beyond(q, c) /\ Key(q, a[i]) > c
  BY <1>3 DEF Beyond
<1>6. ASSUME NEW i \in 1 .. k, NEW j \in 1 .. k, i < j
      PROVE  Key(q, a[i]) < Key(q, a[j])
  <2>1. KeyOf(q)[a[i]] < KeyOf(q)[a[j]]
    BY <1>2, <1>3, <1>6 DEF Enumerates
  <2>. QED
    BY <1>4, <1>5, <2>1
<1>7. PICK n \in Nat : n = (IF k > Size(q) THEN Size(q) ELSE k) /\ n <= k /\ (k > n => n > 0)
  BY Sizes
<1>8. /\ p.rows = [i \in 1 .. n |-> Row(q, a[i])]
      /\ p.next = IF k > n THEN Key(q, a[n]) ELSE 0
  BY <1>1, <1>3, <1>7 DEF PageOf
<1>9. \A i \in 1 .. n : i \in 1 .. k
  BY <1>7
<1>10. \A i \in 1 .. n : Row(q, a[i]) \in Row0 /\ Row(q, a[i]).id = a[i]
  BY <1>5, <1>9 DEF Row, Row0
<1>11. DOMAIN p.rows = 1 .. n /\ \A i \in 1 .. n : p.rows[i] = Row(q, a[i]) /\ p.rows[i].id = a[i]
  BY <1>8, <1>10
<1>12. p.rows \in Rows
  BY <1>8, <1>10, IsASeq DEF Rows, Row0
<1>13. p.next \in Nat /\ (p.next # 0 => c < p.next /\ k > n /\ p.next = Key(q, a[n]))
  <2>1. CASE k > n
    <3>1. n \in 1 .. k
      BY <1>7, <2>1
    <3>. QED
      BY <1>4, <1>5, <1>8, <2>1, <3>1
  <2>2. CASE ~(k > n)
    BY <1>8, <2>2
  <2>. QED
    BY <2>1, <2>2
<1>14. q # "mine" => AllMatch(p.rows)
  <2>1. q # "mine" => \A i \in 1 .. n : Matches(p.rows[i])
    BY <1>5, <1>9, <1>11, RowMatches
  <2>. QED
    BY <1>11, <2>1 DEF AllMatch
<1>15. ASSUME NEW i \in 1 .. n
       PROVE  p.next = 0 \/ Key(q, a[i]) <= p.next
  <2>1. CASE i = n
    BY <1>4, <1>5, <1>8, <1>9, <2>1
  <2>2. CASE i # n
    <3>1. i < n /\ n \in 1 .. k /\ i \in 1 .. k
      BY <1>7, <1>9, <2>2
    <3>2. Key(q, a[i]) < Key(q, a[n]) /\ Key(q, a[i]) \in Nat /\ Key(q, a[n]) \in Nat
      BY <1>4, <1>5, <1>6, <3>1
    <3>. QED
      BY <1>8, <3>2
  <2>. QED
    BY <2>1, <2>2
<1>16. ASSUME NEW l \in Beyond(q, c), p.next = 0 \/ Key(q, l) <= p.next
       PROVE  \E i \in 1 .. n : a[i] = l
  <2>1. PICK i \in 1 .. k : a[i] = l
    BY <1>2, <1>3 DEF Enumerates
  <2>2. i <= n
    <3>1. SUFFICES ASSUME i > n
                   PROVE  FALSE
      BY <1>7
    <3>2. k > n /\ n \in 1 .. k
      BY <1>7, <3>1
    <3>3. Key(q, a[n]) < Key(q, a[i]) /\ Key(q, a[n]) \in Nat /\ Key(q, a[n]) > 0 /\ Key(q, a[i]) \in Nat
      BY <1>4, <1>5, <1>6, <3>1, <3>2
    <3>. QED
      BY <1>8, <1>16, <2>1, <3>2, <3>3
  <2>. QED
    BY <2>1, <2>2
<1>17. \A i, j \in 1 .. n : i < j => Key(q, a[i]) < Key(q, a[j])
  BY <1>6, <1>9
<1>18. \A i \in DOMAIN p.rows :
         p.rows[i].id \in Beyond(q, c) /\ (p.next = 0 \/ Key(q, p.rows[i].id) <= p.next)
  BY <1>5, <1>9, <1>11, <1>15
<1>19. \A l \in Beyond(q, c) :
         p.next = 0 \/ Key(q, l) <= p.next => \E i \in DOMAIN p.rows : p.rows[i].id = l
  BY <1>11, <1>16
<1>20. \A i, j \in DOMAIN p.rows : i < j => Key(q, p.rows[i].id) < Key(q, p.rows[j].id)
  BY <1>11, <1>17
<1>. QED
  BY <1>12, <1>13, <1>14, <1>18, <1>19, <1>20

LEMMA RowsJoined ==
  ASSUME NEW r \in Rows, NEW b \in Rows, NEW m \in Nat, m = Len(r), NEW n \in Nat, n = Len(b)
  PROVE  /\ r \o b \in Rows /\ DOMAIN (r \o b) = 1 .. (m + n)
         /\ DOMAIN r = 1 .. m /\ DOMAIN b = 1 .. n
         /\ \A i \in 1 .. (m + n) : (r \o b)[i] = IF i <= m THEN r[i] ELSE b[i - m]
<1>1. r \in Seq(Row0) /\ b \in Seq(Row0)
  BY DEF Rows, Row0
<1>2. r \o b \in Seq(Row0) /\ Len(r \o b) = m + n
      /\ \A i \in 1 .. (m + n) : (r \o b)[i] = IF i <= m THEN r[i] ELSE b[i - m]
  BY <1>1, ConcatProperties
<1>. QED
  BY <1>1, <1>2, LenProperties DEF Rows, Row0

\* A page after the rows up to its cursor.
LEMMA Joined ==
  ASSUME NEW q \in Queries, savedAt \in Dates, NEW c \in Nat, NEW p, p = PageOf(q, c),
         NEW r \in Rows,
         \A i \in DOMAIN r : Belongs(q, r[i].id) /\ Key(q, r[i].id) <= c,
         \A l \in Listings : Belongs(q, l) /\ Key(q, l) <= c => \E i \in DOMAIN r : r[i].id = l,
         \A i, j \in DOMAIN r : i < j => Key(q, r[i].id) < Key(q, r[j].id)
  PROVE  Holds(q, r \o p.rows, p.next)
<1>1. PICK b : b = p.rows
  OBVIOUS
<1>2. PICK x : x = p.next
  OBVIOUS
<1>3. PICK t : t = r \o b
  OBVIOUS
<1>4. /\ b \in Rows /\ x \in Nat
      /\ x # 0 => c < x
      /\ \A i \in DOMAIN b : b[i].id \in Beyond(q, c) /\ (x = 0 \/ Key(q, b[i].id) <= x)
      /\ \A l \in Beyond(q, c) : x = 0 \/ Key(q, l) <= x => \E i \in DOMAIN b : b[i].id = l
      /\ \A i, j \in DOMAIN b : i < j => Key(q, b[i].id) < Key(q, b[j].id)
  BY <1>1, <1>2, PageRows
<1>5. PICK m \in Nat : m = Len(r) /\ DOMAIN r = 1 .. m
  BY LenProperties DEF Rows
<1>6. PICK n \in Nat : n = Len(b) /\ DOMAIN b = 1 .. n
  BY <1>4, LenProperties DEF Rows
<1>7. /\ t \in Rows /\ DOMAIN t = 1 .. (m + n)
      /\ \A i \in 1 .. (m + n) : t[i] = IF i <= m THEN r[i] ELSE b[i - m]
  BY <1>3, <1>4, <1>5, <1>6, RowsJoined
<1>8. \A l \in Listings : Key(q, l) \in Nat
  BY Keys
<1>9. ASSUME NEW i \in 1 .. m
      PROVE  r[i].id \in Listings /\ Belongs(q, r[i].id) /\ Key(q, r[i].id) <= c
  <2>1. r[i] \in Row0
    BY <1>5, ElementOfSeq DEF Rows, Row0
  <2>. QED
    BY <1>5, <2>1 DEF Row0
<1>10. \A i \in 1 .. n : /\ b[i].id \in Listings /\ Belongs(q, b[i].id) /\ Key(q, b[i].id) > c
                         /\ x = 0 \/ Key(q, b[i].id) <= x
  BY <1>4, <1>6 DEF Beyond
<1>11. ASSUME NEW i \in 1 .. (m + n)
       PROVE  t[i].id \in Upto(q, x)
  <2>1. CASE i <= m
    <3>1. i \in 1 .. m /\ t[i] = r[i]
      BY <1>7, <2>1
    <3>2. t[i].id \in Listings /\ Belongs(q, t[i].id) /\ Key(q, t[i].id) <= c /\ Key(q, t[i].id) \in Nat
      BY <1>8, <1>9, <3>1
    <3>3. x = 0 \/ Key(q, t[i].id) <= x
      BY <1>4, <3>2
    <3>. QED
      BY <3>2, <3>3 DEF Upto
  <2>2. CASE i > m
    <3>1. i - m \in 1 .. n /\ t[i] = b[i - m]
      BY <1>7, <2>2
    <3>. QED
      BY <1>10, <3>1 DEF Upto
  <2>. QED
    BY <2>1, <2>2
<1>12. ASSUME NEW l \in Upto(q, x)
       PROVE  \E i \in 1 .. (m + n) : t[i].id = l
  <2>0. l \in Listings /\ Belongs(q, l) /\ (x = 0 \/ Key(q, l) <= x) /\ Key(q, l) \in Nat
    BY <1>8 DEF Upto
  <2>1. CASE Key(q, l) <= c
    <3>1. PICK i \in 1 .. m : r[i].id = l
      BY <1>5, <2>0, <2>1
    <3>2. i \in 1 .. (m + n) /\ t[i] = r[i]
      BY <1>7
    <3>. QED
      BY <3>1, <3>2
  <2>2. CASE ~(Key(q, l) <= c)
    <3>1. l \in Beyond(q, c)
      BY <2>0, <2>2 DEF Beyond
    <3>2. PICK i \in 1 .. n : b[i].id = l
      BY <1>4, <1>6, <2>0, <3>1
    <3>3. m + i \in 1 .. (m + n) /\ ~(m + i <= m) /\ (m + i) - m = i
      OBVIOUS
    <3>4. t[m + i] = b[i]
      BY <1>7, <3>3
    <3>. QED
      BY <3>2, <3>3, <3>4
  <2>. QED
    BY <2>1, <2>2
<1>13. ASSUME NEW i \in 1 .. (m + n), NEW j \in 1 .. (m + n), i < j
       PROVE  Key(q, t[i].id) < Key(q, t[j].id)
  <2>1. CASE j <= m
    <3>1. i \in 1 .. m /\ j \in 1 .. m /\ t[i] = r[i] /\ t[j] = r[j]
      BY <1>7, <1>13, <2>1
    <3>. QED
      BY <1>5, <1>13, <3>1
  <2>2. CASE i > m
    <3>1. i - m \in 1 .. n /\ j - m \in 1 .. n /\ i - m < j - m /\ t[i] = b[i - m] /\ t[j] = b[j - m]
      BY <1>7, <1>13, <2>2
    <3>2. PICK h \in 1 .. n : h = i - m
      BY <3>1
    <3>3. PICK k \in 1 .. n : k = j - m
      BY <3>1
    <3>4. h < k /\ t[i] = b[h] /\ t[j] = b[k]
      BY <3>1, <3>2, <3>3
    <3>5. Key(q, b[h].id) < Key(q, b[k].id)
      BY <1>4, <1>6, <3>4
    <3>. QED
      BY <3>4, <3>5
  <2>3. CASE i <= m /\ j > m
    <3>1. i \in 1 .. m /\ j - m \in 1 .. n /\ t[i] = r[i] /\ t[j] = b[j - m]
      BY <1>7, <2>3
    <3>2. Key(q, t[i].id) <= c /\ Key(q, t[j].id) > c /\ Key(q, t[i].id) \in Nat /\ Key(q, t[j].id) \in Nat
      BY <1>8, <1>9, <1>10, <3>1
    <3>. QED
      BY <3>2
  <2>. QED
    BY <2>1, <2>2, <2>3
<1>14. Holds(q, t, x)
  BY <1>7, <1>11, <1>12, <1>13 DEF Holds
<1>. QED
  BY <1>1, <1>2, <1>3, <1>14

-----------------------------------------------------------------------------
(* What a step leaves alone.                                               *)

LEMMA ServerKept ==
  ASSUME UNCHANGED server, NEW q, NEW r, NEW n
  PROVE  (Holds(q, r, n) => Holds(q, r, n)') /\ (AllMatch(r) => AllMatch(r)')
  BY DEF server, Holds, Upto, Belongs, Key, Exists, AllMatch, Matches

LEMMA CacheKept ==
  ASSUME UNCHANGED <<server, muts, edit>>, NEW q, NEW c, CacheFits(q, c)
  PROVE  CacheFits(q, c)'
<1>1. PICK r : r = c.rows
  OBVIOUS
<1>2. PICK n : n = c.next
  OBVIOUS
<1>3. HeartsFit(r) => HeartsFit(r)'
  BY DEF server, HeartsFit, HeartFits, Carries, Disputed, Matches, Exists
<1>4. (Settled(q) <=> Settled(q)') /\ (Holds(q, r, n) => Holds(q, r, n)')
  BY ServerKept DEF Settled
<1>. QED
  BY <1>1, <1>2, <1>3, <1>4 DEF CacheFits

LEMMA FetchKept ==
  ASSUME UNCHANGED <<server, muts, edit>>, NEW q, NEW f, FetchFits(q, f)
  PROVE  FetchFits(q, f)'
<1>1. PICK r : r = f.rows
  OBVIOUS
<1>2. PICK n : n = f.next
  OBVIOUS
<1>3. (AllMatch(r) => AllMatch(r)') /\ (Holds(q, r, n) => Holds(q, r, n)')
  BY ServerKept
<1>4. (Settled(q) <=> Settled(q)') /\ (Busy <=> Busy')
  BY DEF Settled, Busy
<1>. QED
  BY <1>1, <1>2, <1>3, <1>4 DEF FetchFits

LEMMA MutKept ==
  ASSUME UNCHANGED <<server, muts, edit>>, NEW m, NEW u, MutFits(m, u)
  PROVE  MutFits(m, u)'
<1>1. ASSUME NEW r, NEW n, NEW q
      PROVE  (AllMatch(r) => AllMatch(r)') /\ (Holds(q, r, n) => Holds(q, r, n)')
  BY ServerKept
<1>2. Editing <=> Editing'
  BY DEF Editing
<1>. QED
  BY <1>1, <1>2 DEF MutFits, Slots, Listings, Queries

LEMMA MutsKept ==
  ASSUME UNCHANGED <<server, muts, edit>>, MutsFit
  PROVE  MutsFit'
  BY MutKept DEF MutsFit

Used == [toggles : 0 .. MaxToggles, edits : 0 .. MaxEdits,
         visits : 0 .. MaxVisits, errors : 0 .. MaxErrors]

LEMMA Counted ==
  ASSUME used \in Used, NEW w \in {"toggles", "edits", "visits", "errors"}, Count(w)
  PROVE  /\ used' \in Used
         /\ used'.toggles = IF w = "toggles" THEN used.toggles + 1 ELSE used.toggles
<1>1. /\ used.toggles \in 0 .. MaxToggles /\ used.edits \in 0 .. MaxEdits
      /\ used.visits \in 0 .. MaxVisits /\ used.errors \in 0 .. MaxErrors
      /\ {MaxToggles, MaxEdits, MaxVisits, MaxErrors} \subseteq Nat
  BY DEF Used
<1>2. CASE w = "toggles"
  <2>1. used.toggles < MaxToggles /\ used' = [used EXCEPT !.toggles = @ + 1]
    BY <1>2 DEF Count
  <2>. QED
    BY <1>1, <1>2, <2>1 DEF Used
<1>3. CASE w = "edits"
  <2>1. used.edits < MaxEdits /\ used' = [used EXCEPT !.edits = @ + 1]
    BY <1>3 DEF Count
  <2>. QED
    BY <1>1, <1>3, <2>1 DEF Used
<1>4. CASE w = "visits"
  <2>1. used.visits < MaxVisits /\ used' = [used EXCEPT !.visits = @ + 1]
    BY <1>4 DEF Count
  <2>. QED
    BY <1>1, <1>4, <2>1 DEF Used
<1>5. CASE w = "errors"
  <2>1. used.errors < MaxErrors /\ used' = [used EXCEPT !.errors = @ + 1]
    BY <1>5 DEF Count
  <2>. QED
    BY <1>1, <1>5, <2>1 DEF Used
<1>. QED
  BY <1>2, <1>3, <1>4, <1>5

\* A step of the browser alone: what it keeps fits what the server still has.
LEMMA Quiet ==
  ASSUME ListsInv, UNCHANGED <<server, muts, edit>>, page' \in Pages,
         used' \in Used, used'.toggles = used.toggles, undo' = undo,
         cache' \in [Queries -> Query], fetch' \in [Queries -> Fetch],
         \A q \in Queries : \A c \in {cache'[q]} : CacheFits(q, c),
         \A q \in Queries : \A f \in {fetch'[q]} : FetchFits(q, f)
  PROVE  ListsInv'
<1>1. TypeOK'
  BY DEF ListsInv, TypeOK, Used, server
<1>2. Dated' /\ EditFits'
  BY DEF ListsInv, Dated, Pending, Sent, EditFits, Editing, server
<1>3. MutsFit'
  BY MutsKept DEF ListsInv
<1>4. CachesFit'
  BY CacheKept DEF CachesFit
<1>5. FetchesFit'
  BY FetchKept DEF FetchesFit
<1>. QED
  BY <1>1, <1>2, <1>3, <1>4, <1>5 DEF ListsInv

-----------------------------------------------------------------------------
(* The loads.                                                              *)

NoFetchYet == [kind : {"all"}, rows : {<<>>}, count : {0}, next : {0}, need : Nat,
               behind : {FALSE}, unsure : BOOLEAN]

LEMMA RowsEmpty == <<>> \in Rows
  BY EmptySeq DEF Rows

LEMMA Loads ==
  ASSUME TypeOK, NEW q \in Queries
  PROVE  LoadAll(q) \in NoFetchYet /\ (LoadAll(q).unsure <=> Busy)
<1>1. PICK k \in Nat : k = IF HasData(q) THEN cache[q].count ELSE 1
  <2>1. cache[q].count \in Nat
    BY DEF TypeOK, Query
  <2>. QED
    BY <2>1
<1>2. PICK u \in BOOLEAN : u = Busy
  BY DEF Busy
<1>3. LoadAll(q) = [kind |-> "all", rows |-> <<>>, count |-> 0, next |-> 0, need |-> k,
                    behind |-> FALSE, unsure |-> u]
  <2>1. PICK w : w = IF HasData(q) THEN cache[q].count ELSE 1
    OBVIOUS
  <2>2. LoadAll(q) = [NoFetch EXCEPT !.kind = "all", !.unsure = u, !.need = w]
    BY <1>2, <2>1, Zenon DEF LoadAll
  <2>. QED
    BY <1>1, <2>1, <2>2 DEF NoFetch
<1>. QED
  BY <1>2, <1>3 DEF NoFetchYet

LEMMA FreshTyped ==
  ASSUME NEW f \in NoFetchYet
  PROVE  f \in Fetch
<1>1. PICK R : R = Rows
  OBVIOUS
<1>2. <<>> \in R
  BY <1>1, RowsEmpty
<1>3. f = [kind |-> "all", rows |-> <<>>, count |-> 0, next |-> 0, need |-> f.need,
           behind |-> FALSE, unsure |-> f.unsure] /\ f.need \in Nat /\ f.unsure \in BOOLEAN
  BY DEF NoFetchYet
<1>4. PICK k \in Nat : k = f.need
  BY <1>3
<1>5. PICK u \in BOOLEAN : u = f.unsure
  BY <1>3
<1>6. [kind |-> "all", rows |-> <<>>, count |-> 0, next |-> 0, need |-> k,
       behind |-> FALSE, unsure |-> u]
      \in [kind : {"none", "all", "next"}, rows : R, count : Nat, next : Nat,
           need : Nat, behind : BOOLEAN, unsure : BOOLEAN]
  BY <1>2
<1>. QED
  BY <1>1, <1>3, <1>4, <1>5, <1>6 DEF Fetch

LEMMA LoadFits ==
  ASSUME NEW q \in Queries, NEW f \in NoFetchYet, f.unsure \/ ~Busy
  PROVE  f \in Fetch /\ FetchFits(q, f)
<1>1. f.rows = <<>> /\ f.count = 0 /\ f.next = 0 /\ DOMAIN f.rows = {}
  BY EmptySeq DEF NoFetchYet
<1>2. f \in Fetch
  BY FreshTyped
<1>3. AllMatch(f.rows)
  BY <1>1 DEF AllMatch
<1>. QED
  BY <1>1, <1>2, <1>3 DEF FetchFits

LEMMA NoFetchFits ==
  ASSUME NEW q \in Queries
  PROVE  NoFetch \in Fetch /\ FetchFits(q, NoFetch)
  BY RowsEmpty DEF NoFetch, Fetch, FetchFits

LEMMA StartsLoading ==
  ASSUME ListsInv, NEW q \in Queries, fetch' = [fetch EXCEPT ![q] = LoadAll(q)],
         UNCHANGED <<server, muts, edit, cache, undo>>, page' \in Pages,
         used' \in Used, used'.toggles = used.toggles
  PROVE  ListsInv'
<1>0. TypeOK
  BY DEF ListsInv
<1>1. LoadAll(q) \in Fetch /\ FetchFits(q, LoadAll(q))
  BY <1>0, Loads, LoadFits
<1>2. cache' \in [Queries -> Query] /\ fetch' \in [Queries -> Fetch]
  BY <1>0, <1>1 DEF TypeOK
<1>3. \A r \in Queries : \A f \in {fetch'[r]} : FetchFits(r, f)
  BY <1>0, <1>1 DEF ListsInv, FetchesFit, TypeOK
<1>4. \A r \in Queries : \A c \in {cache'[r]} : CacheFits(r, c)
  BY DEF ListsInv, CachesFit
<1>. QED
  BY <1>2, <1>3, <1>4, Quiet

LEMMA OpenKeeps ==
  ASSUME ListsInv, NEW p \in Pages, Open(p)
  PROVE  ListsInv'
<1>0. TypeOK /\ used \in Used /\ Shows[p] \in Queries
  BY DEF ListsInv, TypeOK, Used, Shows, Pages, Queries
<1>1. used' \in Used /\ used'.toggles = used.toggles
  BY <1>0, Counted DEF Open
<1>2. UNCHANGED <<server, muts, edit, cache, undo>> /\ page' \in Pages
  BY DEF Open
<1>3. CASE fetch' = [fetch EXCEPT ![Shows[p]] = LoadAll(Shows[p])]
  BY <1>0, <1>1, <1>2, <1>3, StartsLoading
<1>4. CASE UNCHANGED fetch
  <2>1. cache' \in [Queries -> Query] /\ fetch' \in [Queries -> Fetch]
    BY <1>0, <1>2, <1>4 DEF TypeOK
  <2>2. \A r \in Queries : \A f \in {fetch'[r]} : FetchFits(r, f)
    BY <1>4 DEF ListsInv, FetchesFit
  <2>3. \A r \in Queries : \A c \in {cache'[r]} : CacheFits(r, c)
    BY <1>2 DEF ListsInv, CachesFit
  <2>. QED
    BY <1>1, <1>2, <2>1, <2>2, <2>3, Quiet
<1>. QED
  BY <1>3, <1>4 DEF Open

LEMMA RetryKeeps ==
  ASSUME ListsInv, NEW q \in Queries, Retry(q)
  PROVE  ListsInv'
<1>1. page' \in Pages /\ used' \in Used /\ used'.toggles = used.toggles
  BY DEF ListsInv, TypeOK, Used, Retry
<1>2. fetch' = [fetch EXCEPT ![q] = LoadAll(q)] /\ UNCHANGED <<server, muts, edit, cache, undo>>
  BY DEF Retry
<1>. QED
  BY <1>1, <1>2, StartsLoading

LEMMA ScreenRows ==
  ASSUME NEW q \in Queries, Screen(q) = "rows"
  PROVE  HasData(q)
<1>1. ASSUME NEW r, NEW w, Drawn(r, w) = "rows"
      PROVE  HasData(r)
  BY <1>1 DEF Drawn
<1>2. CASE q = "latest"
  BY <1>1, <1>2 DEF Screen, SearchScreen
<1>3. CASE q = "saved"
  BY <1>1, <1>3 DEF Screen, FavouritesScreen
<1>4. CASE q = "mine"
  BY <1>1, <1>4 DEF Screen, MyListingsScreen
<1>5. CASE q = "detail"
  BY <1>1, <1>5 DEF Screen, DetailsScreen
<1>. QED
  BY <1>2, <1>3, <1>4, <1>5 DEF Queries

LEMMA IdleHearts ==
  ASSUME ~Busy, NEW r, HeartsFit(r)
  PROVE  AllMatch(r)
  BY DEF Busy, HeartsFit, HeartFits, Carries, AllMatch

LEMMA FetchTyped ==
  ASSUME NEW k \in {"none", "all", "next"}, NEW r \in Rows, NEW c \in Nat, NEW n \in Nat,
         NEW d \in Nat, NEW b \in BOOLEAN, NEW u \in BOOLEAN
  PROVE  [kind |-> k, rows |-> r, count |-> c, next |-> n, need |-> d,
          behind |-> b, unsure |-> u] \in Fetch
  BY DEF Fetch

LEMMA QueryTyped ==
  ASSUME NEW r \in Rows, NEW c \in Nat, NEW n \in Nat, NEW t \in BOOLEAN,
         NEW e \in BOOLEAN, NEW b \in BOOLEAN, NEW u \in BOOLEAN
  PROVE  [rows |-> r, count |-> c, next |-> n, stale |-> t, error |-> e,
          behind |-> b, unsure |-> u] \in Query
  BY DEF Query

LEMMA QueryFields ==
  ASSUME NEW c \in Query
  PROVE  /\ c.rows \in Rows /\ c.count \in Nat /\ c.next \in Nat
         /\ c.stale \in BOOLEAN /\ c.error \in BOOLEAN /\ c.behind \in BOOLEAN /\ c.unsure \in BOOLEAN
         /\ c = [rows |-> c.rows, count |-> c.count, next |-> c.next, stale |-> c.stale,
                 error |-> c.error, behind |-> c.behind, unsure |-> c.unsure]
  BY DEF Query

LEMMA FetchFields ==
  ASSUME NEW f \in Fetch
  PROVE  /\ f.kind \in {"none", "all", "next"} /\ f.rows \in Rows /\ f.count \in Nat
         /\ f.next \in Nat /\ f.need \in Nat /\ f.behind \in BOOLEAN /\ f.unsure \in BOOLEAN
         /\ f = [kind |-> f.kind, rows |-> f.rows, count |-> f.count, next |-> f.next,
                 need |-> f.need, behind |-> f.behind, unsure |-> f.unsure]
  BY DEF Fetch

\* One list of those being loaded changes.
LEMMA OneFetch ==
  ASSUME ListsInv, NEW q \in Queries, NEW f \in Fetch, FetchFits(q, f),
         fetch' = [fetch EXCEPT ![q] = f],
         UNCHANGED <<server, muts, edit, cache, undo, page, used>>
  PROVE  ListsInv'
<1>1. /\ cache' \in [Queries -> Query] /\ fetch' \in [Queries -> Fetch]
      /\ page' \in Pages /\ used' \in Used /\ used'.toggles = used.toggles
  BY DEF ListsInv, TypeOK, Used
<1>2. \A r \in Queries : \A g \in {fetch'[r]} : FetchFits(r, g)
  BY DEF ListsInv, FetchesFit, TypeOK
<1>3. \A r \in Queries : \A c \in {cache'[r]} : CacheFits(r, c)
  BY DEF ListsInv, CachesFit
<1>. QED
  BY <1>1, <1>2, <1>3, Quiet

LEMMA LoadNextKeeps ==
  ASSUME ListsInv, NEW q \in Queries, LoadNext(q)
  PROVE  ListsInv'
<1>1. PICK c \in Query : c = cache[q] /\ CacheFits(q, c) /\ c.count > 0
  <2>1. cache[q] \in Query /\ HasData(q)
    BY ScreenRows DEF ListsInv, TypeOK, LoadNext
  <2>. QED
    BY <2>1 DEF ListsInv, CachesFit, HasData
<1>2. PICK b \in BOOLEAN : b = (c.behind \/ c.stale)
  OBVIOUS
<1>3. PICK u \in BOOLEAN : u = (c.unsure \/ Busy)
  OBVIOUS
<1>4. PICK f : f = [kind |-> "next", rows |-> c.rows, count |-> c.count, next |-> c.next,
                    need |-> c.count + 1, behind |-> b, unsure |-> u]
  OBVIOUS
<1>5. LoadOneMore(q) = f
  BY <1>1, <1>2, <1>3, <1>4, Zenon DEF LoadOneMore
<1>6. f \in Fetch
  <2>1. c.rows \in Rows /\ c.count \in Nat /\ c.next \in Nat /\ c.count + 1 \in Nat
    BY QueryFields
  <2>2. "next" \in {"none", "all", "next"}
    OBVIOUS
  <2>. QED
    BY <1>4, <2>1, <2>2, FetchTyped
<1>7. FetchFits(q, f)
  <2>1. /\ f.kind = "next" /\ f.rows = c.rows /\ f.count = c.count /\ f.next = c.next
        /\ f.behind = b /\ f.unsure = u
    BY <1>4
  <2>2. q # "mine" /\ ~u => ~Busy /\ AllMatch(c.rows)
    BY <1>1, <1>3, IdleHearts DEF CacheFits
  <2>3. Settled(q) /\ ~b => Holds(q, c.rows, c.next)
    BY <1>1, <1>2 DEF CacheFits
  <2>4. ~(c.count = 0)
    BY <1>1
  <2>. QED
    BY <2>1, <2>2, <2>3, <2>4 DEF FetchFits
<1>8. fetch' = [fetch EXCEPT ![q] = f] /\ UNCHANGED <<server, muts, edit, cache, undo, page, used>>
  BY <1>5 DEF LoadNext
<1>. QED
  BY <1>6, <1>7, <1>8, OneFetch

LEMMA FetchLonger ==
  ASSUME NEW f \in Fetch, NEW r, NEW c, NEW n
  PROVE  [f EXCEPT !.rows = r, !.count = c, !.next = n]
         = [kind |-> f.kind, rows |-> r, count |-> c, next |-> n, need |-> f.need,
            behind |-> f.behind, unsure |-> f.unsure]
<1>1. f = [kind |-> f.kind, rows |-> f.rows, count |-> f.count, next |-> f.next,
           need |-> f.need, behind |-> f.behind, unsure |-> f.unsure]
  BY FetchFields
<1>2. PICK g : g = [f EXCEPT !.rows = r]
  OBVIOUS
<1>3. g = [kind |-> f.kind, rows |-> r, count |-> f.count, next |-> f.next,
           need |-> f.need, behind |-> f.behind, unsure |-> f.unsure]
  BY <1>1, <1>2
<1>4. PICK h : h = [g EXCEPT !.count = c]
  OBVIOUS
<1>5. h = [kind |-> f.kind, rows |-> r, count |-> c, next |-> f.next,
           need |-> f.need, behind |-> f.behind, unsure |-> f.unsure]
  BY <1>3, <1>4
<1>6. [h EXCEPT !.next = n] = [kind |-> f.kind, rows |-> r, count |-> c, next |-> n,
           need |-> f.need, behind |-> f.behind, unsure |-> f.unsure]
  BY <1>5
<1>7. [f EXCEPT !.rows = r, !.count = c, !.next = n] = [h EXCEPT !.next = n]
  BY <1>2, <1>4
<1>. QED
  BY <1>6, <1>7

LEMMA MatchesJoined ==
  ASSUME NEW r \in Rows, NEW b \in Rows
  PROVE  r \o b \in Rows /\ (AllMatch(r) /\ AllMatch(b) => AllMatch(r \o b))
<1>1. PICK m \in Nat : m = Len(r)
  BY LenProperties DEF Rows
<1>2. PICK n \in Nat : n = Len(b)
  BY LenProperties DEF Rows
<1>3. PICK t : t = r \o b
  OBVIOUS
<1>4. /\ t \in Rows /\ DOMAIN t = 1 .. (m + n) /\ DOMAIN r = 1 .. m /\ DOMAIN b = 1 .. n
      /\ \A i \in 1 .. (m + n) : t[i] = IF i <= m THEN r[i] ELSE b[i - m]
  BY <1>1, <1>2, <1>3, RowsJoined
<1>5. ASSUME AllMatch(r), AllMatch(b), NEW i \in 1 .. (m + n)
      PROVE  Matches(t[i])
  <2>1. CASE i <= m
    <3>1. i \in 1 .. m /\ t[i] = r[i]
      BY <1>4, <2>1
    <3>. QED
      BY <1>4, <1>5, <3>1 DEF AllMatch
  <2>2. CASE i > m
    <3>1. i - m \in 1 .. n /\ t[i] = b[i - m]
      BY <1>4, <2>2
    <3>. QED
      BY <1>4, <1>5, <3>1 DEF AllMatch
  <2>. QED
    BY <2>1, <2>2
<1>. QED
  BY <1>3, <1>4, <1>5 DEF AllMatch

LEMMA ReadPageKeeps ==
  ASSUME ListsInv, NEW q \in Queries, ReadPage(q)
  PROVE  ListsInv'
<1>0. savedAt \in Dates
  BY DEF ListsInv, TypeOK, Dates
<1>1. PICK f \in Fetch : f = fetch[q] /\ FetchFits(q, f) /\ f.kind # "none"
  BY DEF ListsInv, TypeOK, FetchesFit, ReadPage, Fetching
<1>2. ~(f.count > 0 /\ f.next = 0)
  BY <1>1 DEF ReadPage, HasRead
<1>3. PICK p : p = PageOf(q, f.next)
  OBVIOUS
<1>4. PICK g : g = [kind |-> f.kind, rows |-> f.rows \o p.rows, count |-> f.count + 1,
                    next |-> p.next, need |-> f.need, behind |-> f.behind, unsure |-> f.unsure]
  OBVIOUS
<1>5. p.rows \in Rows /\ p.next \in Nat /\ (q # "mine" => AllMatch(p.rows))
  BY <1>0, <1>3, FetchFields, PageRows
<1>6. f.rows \in Rows /\ f.rows \o p.rows \in Rows
      /\ (AllMatch(f.rows) /\ AllMatch(p.rows) => AllMatch(f.rows \o p.rows))
  <2>1. f.rows \in Rows
    BY FetchFields
  <2>. QED
    BY <1>5, <2>1, MatchesJoined
<1>7. g \in Fetch
  <2>1. /\ f.kind \in {"none", "all", "next"} /\ f.count + 1 \in Nat /\ f.need \in Nat
        /\ f.behind \in BOOLEAN /\ f.unsure \in BOOLEAN
    BY FetchFields
  <2>2. PICK r \in Rows : r = f.rows \o p.rows
    BY <1>6
  <2>3. PICK n \in Nat : n = p.next
    BY <1>5
  <2>4. PICK k \in Nat : k = f.count + 1
    BY <2>1
  <2>5. g = [kind |-> f.kind, rows |-> r, count |-> k, next |-> n, need |-> f.need,
             behind |-> f.behind, unsure |-> f.unsure]
    BY <1>4, <2>2, <2>3, <2>4
  <2>. QED
    BY <2>1, <2>5, FetchTyped
<1>8. /\ g.kind = f.kind /\ g.rows = f.rows \o p.rows /\ g.count = f.count + 1 /\ g.next = p.next
      /\ g.behind = f.behind /\ g.unsure = f.unsure /\ f.count \in Nat /\ f.next \in Nat
  BY <1>4, FetchFields
<1>9. ASSUME Settled(q), ~f.behind
      PROVE  Holds(q, f.rows \o p.rows, p.next)
  <2>1. CASE f.count = 0
    <3>1. f.rows = <<>> /\ f.next = 0 /\ DOMAIN f.rows = {}
      BY <1>1, <2>1, EmptySeq DEF FetchFits
    <3>2. \A l \in Listings : ~(Key(q, l) <= f.next)
      BY <1>0, <3>1, Keys
    <3>. QED
      BY <1>0, <1>3, <1>6, <1>8, <3>1, <3>2, Joined
  <2>2. CASE f.count # 0
    <3>1. f.next # 0 /\ Holds(q, f.rows, f.next)
      BY <1>1, <1>2, <1>8, <1>9, <2>2 DEF FetchFits
    <3>2. /\ \A i \in DOMAIN f.rows : Belongs(q, f.rows[i].id) /\ Key(q, f.rows[i].id) <= f.next
          /\ \A l \in Listings : Belongs(q, l) /\ Key(q, l) <= f.next => \E i \in DOMAIN f.rows : f.rows[i].id = l
          /\ \A i, j \in DOMAIN f.rows : i < j => Key(q, f.rows[i].id) < Key(q, f.rows[j].id)
      BY <3>1 DEF Holds, Upto
    <3>. QED
      BY <1>0, <1>3, <1>6, <1>8, <3>2, Joined
  <2>. QED
    BY <2>1, <2>2
<1>10. FetchFits(q, g)
  <2>1. ~(g.count = 0)
    BY <1>8
  <2>2. q # "mine" /\ ~g.unsure => ~Busy /\ AllMatch(g.rows)
    BY <1>1, <1>5, <1>6, <1>8 DEF FetchFits
  <2>3. Settled(q) /\ ~g.behind => Holds(q, g.rows, g.next)
    BY <1>8, <1>9
  <2>. QED
    BY <2>1, <2>2, <2>3 DEF FetchFits
<1>11. fetch' = [fetch EXCEPT ![q] = g]
  <2>1. fetch \in [Queries -> Fetch]
    BY DEF ListsInv, TypeOK
  <2>2. fetch' = [fetch EXCEPT ![q].rows = @ \o p.rows, ![q].count = @ + 1, ![q].next = p.next]
    BY <1>1, <1>3 DEF ReadPage
  <2>3. fetch' = [fetch EXCEPT ![q] = [f EXCEPT !.rows = f.rows \o p.rows, !.count = f.count + 1, !.next = p.next]]
    BY <1>1, <2>1, <2>2
  <2>4. [f EXCEPT !.rows = f.rows \o p.rows, !.count = f.count + 1, !.next = p.next] = g
    BY <1>4, FetchLonger
  <2>. QED
    BY <2>3, <2>4
<1>12. UNCHANGED <<server, muts, edit, cache, undo, page, used>>
  BY DEF ReadPage
<1>. QED
  BY <1>7, <1>10, <1>11, <1>12, OneFetch

LEMMA HeartsIdle ==
  ASSUME ~Busy, NEW r, AllMatch(r)
  PROVE  HeartsFit(r)
  BY DEF Busy, HeartsFit, HeartFits, Carries, AllMatch

\* One list changes, and its load is over.
LEMMA OneCache ==
  ASSUME ListsInv, NEW q \in Queries, NEW c \in Query, CacheFits(q, c),
         cache' = [cache EXCEPT ![q] = c], fetch' = [fetch EXCEPT ![q] = NoFetch],
         UNCHANGED <<server, muts, edit, undo, page>>, used' \in Used,
         used'.toggles = used.toggles
  PROVE  ListsInv'
<1>0. NoFetch \in Fetch /\ FetchFits(q, NoFetch)
  BY NoFetchFits
<1>1. cache' \in [Queries -> Query] /\ fetch' \in [Queries -> Fetch] /\ page' \in Pages
  BY <1>0 DEF ListsInv, TypeOK
<1>2. \A r \in Queries : \A g \in {fetch'[r]} : FetchFits(r, g)
  BY <1>0 DEF ListsInv, FetchesFit, TypeOK
<1>3. \A r \in Queries : \A g \in {cache'[r]} : CacheFits(r, g)
  BY DEF ListsInv, CachesFit, TypeOK
<1>. QED
  BY <1>1, <1>2, <1>3, Quiet

LEMMA DeliverKeeps ==
  ASSUME ListsInv, NEW q \in Queries, Deliver(q)
  PROVE  ListsInv'
<1>1. PICK f \in Fetch : f = fetch[q] /\ FetchFits(q, f) /\ f.kind # "none"
  BY DEF ListsInv, TypeOK, FetchesFit, Deliver, Fetching
<1>2. PICK c : c = [rows |-> f.rows, count |-> f.count, next |-> f.next, stale |-> FALSE,
                    error |-> FALSE, behind |-> f.behind, unsure |-> f.unsure]
  OBVIOUS
<1>3. c \in Query
  BY <1>2, FetchFields, QueryTyped
<1>4. CacheFits(q, c)
  <2>1. /\ c.rows = f.rows /\ c.count = f.count /\ c.next = f.next /\ c.behind = f.behind
        /\ c.unsure = f.unsure
    BY <1>2
  <2>2. q # "mine" /\ ~f.unsure => HeartsFit(f.rows)
    BY <1>1, HeartsIdle DEF FetchFits
  <2>. QED
    BY <1>1, <2>1, <2>2 DEF CacheFits, FetchFits
<1>5. cache' = [cache EXCEPT ![q] = c] /\ fetch' = [fetch EXCEPT ![q] = NoFetch]
  BY <1>1, <1>2 DEF Deliver
<1>6. UNCHANGED <<server, muts, edit, undo, page>> /\ used' \in Used /\ used'.toggles = used.toggles
  BY DEF Deliver, ListsInv, TypeOK, Used
<1>. QED
  BY <1>3, <1>4, <1>5, <1>6, OneCache

\* A list with its marks changed.
LEMMA QueryMarked ==
  ASSUME NEW c \in Query, NEW t \in BOOLEAN, NEW e \in BOOLEAN
  PROVE  [c EXCEPT !.error = e, !.stale = t]
         = [rows |-> c.rows, count |-> c.count, next |-> c.next, stale |-> t, error |-> e,
            behind |-> c.behind, unsure |-> c.unsure]
<1>1. PICK d : d = [c EXCEPT !.error = e]
  OBVIOUS
<1>2. d = [rows |-> c.rows, count |-> c.count, next |-> c.next, stale |-> c.stale, error |-> e,
            behind |-> c.behind, unsure |-> c.unsure]
  BY <1>1, QueryFields
<1>3. [c EXCEPT !.error = e, !.stale = t] = [d EXCEPT !.stale = t]
  BY <1>1
<1>. QED
  BY <1>2, <1>3

LEMMA FetchFailsKeeps ==
  ASSUME ListsInv, NEW q \in Queries, FetchFails(q)
  PROVE  ListsInv'
<1>1. PICK c \in Query : c = cache[q] /\ CacheFits(q, c)
  BY DEF ListsInv, TypeOK, CachesFit
<1>2. PICK d : d = [rows |-> c.rows, count |-> c.count, next |-> c.next, stale |-> TRUE,
                    error |-> TRUE, behind |-> c.behind, unsure |-> c.unsure]
  OBVIOUS
<1>3. d \in Query
  BY <1>2, QueryFields, QueryTyped
<1>4. CacheFits(q, d)
  <2>1. d.rows = c.rows /\ d.count = c.count /\ d.stale /\ d.unsure = c.unsure
    BY <1>2
  <2>. QED
    BY <1>1, <2>1 DEF CacheFits
<1>5. cache' = [cache EXCEPT ![q] = d]
  <2>1. cache \in [Queries -> Query]
    BY DEF ListsInv, TypeOK
  <2>2. cache' = [cache EXCEPT ![q].error = TRUE, ![q].stale = TRUE]
    BY DEF FetchFails
  <2>3. cache' = [cache EXCEPT ![q] = [c EXCEPT !.error = TRUE, !.stale = TRUE]]
    BY <1>1, <2>1, <2>2
  <2>4. [c EXCEPT !.error = TRUE, !.stale = TRUE] = d
    BY <1>2, QueryMarked
  <2>. QED
    BY <2>3, <2>4
<1>6. used' \in Used /\ used'.toggles = used.toggles
  BY Counted DEF FetchFails, ListsInv, TypeOK, Used
<1>7. UNCHANGED <<server, muts, edit, undo, page>> /\ fetch' = [fetch EXCEPT ![q] = NoFetch]
  BY DEF FetchFails
<1>. QED
  BY <1>3, <1>4, <1>5, <1>6, <1>7, OneCache

-----------------------------------------------------------------------------
(* The server takes a change of a heart.                                   *)

LEMMA MutFields ==
  ASSUME NEW u \in Mut
  PROVE  /\ u.state \in {"idle", "sent", "applied"} /\ u.id \in 0 .. N /\ u.to \in BOOLEAN
         /\ u.from \in Pages /\ u.before \in [Queries -> Query]
         /\ u.crossed \in BOOLEAN /\ u.edited \in BOOLEAN
         /\ u = [state |-> u.state, id |-> u.id, to |-> u.to, from |-> u.from,
                 before |-> u.before, crossed |-> u.crossed, edited |-> u.edited]
  BY DEF Mut

LEMMA MutTyped ==
  ASSUME NEW s \in {"idle", "sent", "applied"}, NEW l \in 0 .. N, NEW t \in BOOLEAN,
         NEW p \in Pages, NEW b \in [Queries -> Query], NEW x \in BOOLEAN, NEW e \in BOOLEAN
  PROVE  [state |-> s, id |-> l, to |-> t, from |-> p, before |-> b,
          crossed |-> x, edited |-> e] \in Mut
  BY DEF Mut

LEMMA RowsIds ==
  ASSUME NEW r \in Rows
  PROVE  \A i \in DOMAIN r : r[i].id \in Listings
<1>1. r \in Seq(Row0)
  BY DEF Rows, Row0
<1>2. \A i \in DOMAIN r : r[i] \in Row0
  BY <1>1, LenProperties
<1>. QED
  BY <1>2 DEF Row0

LEMMA NotSaved ==
  ASSUME UNCHANGED status, NEW q, q # "saved", NEW r, NEW n, Holds(q, r, n)
  PROVE  Holds(q, r, n)'
<1>1. \A l : (Belongs(q, l)' <=> Belongs(q, l)) /\ Key(q, l)' = Key(q, l)
  BY DEF Belongs, Key, Exists
<1>2. Upto(q, n)' = Upto(q, n)
  BY <1>1 DEF Upto
<1>. QED
  BY <1>1, <1>2 DEF Holds

LEMMA ApplyKeeps ==
  ASSUME ListsInv, NEW m \in Slots, Apply(m)
  PROVE  ListsInv'
<1>0. TypeOK
  BY DEF ListsInv
<1>1. PICK u \in Mut : u = muts[m] /\ MutFits(m, u) /\ u.state = "sent"
  BY <1>0 DEF ListsInv, TypeOK, MutsFit, Apply
<1>2. PICK l \in Listings : l = u.id
  BY <1>1 DEF MutFits
<1>3. PICK w : w = [state |-> "applied", id |-> u.id, to |-> u.to, from |-> u.from,
                    before |-> u.before, crossed |-> u.crossed, edited |-> u.edited]
  OBVIOUS
<1>4. w \in Mut
  BY <1>3, MutFields, MutTyped
<1>5. [u EXCEPT !.state = "applied"] = w
  BY <1>3, MutFields
<1>6. muts' = [muts EXCEPT ![m] = w]
  <2>1. muts' = [muts EXCEPT ![m].state = "applied"]
    BY DEF Apply
  <2>2. muts' = [muts EXCEPT ![m] = [u EXCEPT !.state = "applied"]]
    BY <1>0, <1>1, <2>1 DEF TypeOK
  <2>. QED
    BY <1>5, <2>2
<1>7. muts' \in [Slots -> Mut] /\ muts'[m] = w /\ \A n \in Slots \ {m} : muts'[n] = muts[n]
  BY <1>0, <1>4, <1>6 DEF TypeOK
<1>8. /\ w.state = "applied" /\ w.id = l /\ w.to = u.to /\ w.crossed = u.crossed
      /\ w.edited = u.edited /\ w.before = u.before
  BY <1>2, <1>3
<1>9. PICK d : d = IF ~u.to THEN 0 ELSE IF savedAt[l] # 0 THEN savedAt[l]
                   ELSE 1 + Max({savedAt[k] : k \in Listings})
  OBVIOUS
<1>10. savedAt' = [savedAt EXCEPT ![l] = d]
  BY <1>1, <1>2, <1>9 DEF Apply
<1>11. savedAt \in Dates /\ N \in Nat /\ MaxToggles \in Nat
  BY <1>0 DEF TypeOK, Dates
<1>12. MaxToggles + 1 \in Nat
  BY <1>11
<1>13. Pending = Pending' + 1 /\ Pending' \in Nat
  <2>1. CASE m = 1
    BY <1>1, <1>7, <1>8, <2>1 DEF Pending, Sent, Slots
  <2>2. CASE m = 2
    BY <1>1, <1>7, <1>8, <2>2 DEF Pending, Sent, Slots
  <2>. QED
    BY <2>1, <2>2 DEF Slots
<1>14. used.toggles \in 0 .. MaxToggles /\ used' = used
  BY <1>0 DEF TypeOK, Apply
<1>15. \A k \in Listings : savedAt[k] + Pending <= used.toggles + 1 /\ savedAt[k] \in Nat
  BY <1>11 DEF ListsInv, Dated, Dates
<1>16. d \in Nat /\ d + Pending' <= used.toggles + 1
  <2>1. CASE ~u.to
    BY <1>9, <1>13, <1>14, <1>15, <2>1
  <2>2. CASE u.to /\ savedAt[l] # 0
    BY <1>9, <1>13, <1>14, <1>15, <2>2
  <2>3. CASE u.to /\ savedAt[l] = 0
    <3>1. PICK S : S = {savedAt[k] : k \in Listings}
      OBVIOUS
    <3>2. S \in SUBSET (0 .. MaxToggles + 1) /\ S # {}
      BY <1>11, <3>1 DEF Dates
    <3>3. Max(S) \in S
      BY <1>12, <3>2, Greatest
    <3>4. PICK k \in Listings : Max(S) = savedAt[k]
      BY <3>1, <3>3
    <3>5. d = 1 + savedAt[k]
      BY <1>9, <2>3, <3>1, <3>4
    <3>. QED
      BY <1>13, <1>15, <3>5
  <2>. QED
    BY <2>1, <2>2, <2>3
<1>17. d \in 0 .. MaxToggles + 1 /\ (d # 0 <=> u.to)
  <2>1. d \in 0 .. MaxToggles + 1
    BY <1>11, <1>13, <1>14, <1>16
  <2>2. u.to /\ savedAt[l] = 0 => d # 0
    <3>1. PICK S : S = {savedAt[k] : k \in Listings}
      OBVIOUS
    <3>2. S \in SUBSET (0 .. MaxToggles + 1) /\ S # {}
      BY <1>11, <3>1 DEF Dates
    <3>3. Max(S) \in 0 .. MaxToggles + 1
      BY <1>12, <3>2, Greatest
    <3>. QED
      BY <1>9, <3>1, <3>3
  <2>. QED
    BY <1>9, <2>1, <2>2
<1>18. savedAt' \in Dates /\ savedAt'[l] = d /\ \A k \in Listings : k # l => savedAt'[k] = savedAt[k]
  BY <1>10, <1>11, <1>17 DEF Dates
<1>19. UNCHANGED <<status, page, cache, fetch, edit, undo, used>> /\ (u.to => Exists(l))
  BY <1>1, <1>2 DEF Apply, Exists
<1>20. TypeOK'
  BY <1>0, <1>7, <1>18, <1>19 DEF TypeOK, Dates
<1>21. Dated'
  <2>1. ASSUME NEW k \in Listings
        PROVE  savedAt'[k] + Pending' <= used'.toggles + 1
    BY <1>13, <1>14, <1>15, <1>16, <1>18
  <2>. QED
    BY <2>1 DEF Dated
<1>22. EditFits'
  BY <1>19 DEF ListsInv, EditFits, Editing
<1>23. \A n \in Slots : /\ muts'[n].id = muts[n].id /\ muts'[n].to = muts[n].to
                        /\ muts'[n].state = IF n = m THEN "applied" ELSE muts[n].state
  BY <1>1, <1>7, <1>8, <1>2
<1>24. muts[m].state = "sent" /\ muts[m].id = l
  BY <1>1, <1>2
<1>25. ASSUME NEW row, row.id \in Listings, HeartFits(row)
       PROVE  HeartFits(row)'
  <2>1. \A n \in Slots : (Carries(n, row.id)' <=> Carries(n, row.id)) /\ (Disputed(n)' <=> Disputed(n))
    BY <1>23, <1>24 DEF Carries, Disputed
  <2>2. row.id # l => (Matches(row) => Matches(row)')
    BY <1>18, <1>19, <1>25 DEF Matches, Exists
  <2>3. (\A n \in Slots : ~Carries(n, row.id)) => row.id # l
    BY <1>24 DEF Carries
  <2>4. ASSUME NEW n \in Slots, Carries(n, row.id), ~Disputed(n)
        PROVE  row.saved = muts'[n].to /\ (muts'[n].state = "applied" => Matches(row)')
    <3>1. row.saved = muts[n].to /\ (muts[n].state = "applied" => Matches(row))
      BY <1>25, <2>4 DEF HeartFits
    <3>2. CASE n = m
      <4>1. row.id = l /\ row.saved = u.to
        BY <1>1, <1>24, <2>4, <3>1, <3>2 DEF Carries
      <4>2. PICK v \in BOOLEAN : v = u.to
        BY MutFields
      <4>3. row.saved = v /\ (d # 0 <=> v)
        BY <1>17, <4>1, <4>2
      <4>4. Matches(row)'
        BY <1>18, <4>1, <4>3 DEF Matches
      <4>. QED
        BY <1>23, <3>1, <4>4
    <3>3. CASE n # m
      <4>1. row.id # l
        BY <1>24, <2>4, <3>3 DEF Carries, Disputed
      <4>. QED
        BY <1>23, <2>2, <3>1, <3>3, <4>1
    <3>. QED
      BY <3>2, <3>3
  <2>. QED
    BY <1>25, <2>1, <2>2, <2>3, <2>4 DEF HeartFits
<1>26. CachesFit'
  <2>1. ASSUME NEW q \in Queries, NEW c \in {cache[q]}
        PROVE  CacheFits(q, c)'
    <3>1. CacheFits(q, c) /\ c \in Query
      BY <1>0 DEF ListsInv, CachesFit, TypeOK
    <3>2. PICK r \in Rows : r = c.rows
      BY <3>1, QueryFields
    <3>3. PICK x : x = c.next
      OBVIOUS
    <3>4. HeartsFit(r) => HeartsFit(r)'
      <4>1. \A i \in DOMAIN r : r[i].id \in Listings
        BY RowsIds
      <4>. QED
        BY <1>25, <4>1 DEF HeartsFit
    <3>5. Settled(q)' => q # "saved" /\ Settled(q)
      BY <1>19, <1>23 DEF Settled
    <3>6. q # "saved" /\ Holds(q, r, x) => Holds(q, r, x)'
      BY <1>19, NotSaved
    <3>. QED
      BY <3>1, <3>2, <3>3, <3>4, <3>5, <3>6 DEF CacheFits
  <2>. QED
    BY <1>19, <2>1 DEF CachesFit
<1>27. FetchesFit'
  <2>1. ASSUME NEW q \in Queries, NEW f \in {fetch[q]}
        PROVE  FetchFits(q, f)'
    <3>1. FetchFits(q, f)
      BY DEF ListsInv, FetchesFit
    <3>2. PICK r : r = f.rows
      OBVIOUS
    <3>3. PICK x : x = f.next
      OBVIOUS
    <3>4. Busy
      BY <1>24 DEF Busy
    <3>5. Settled(q)' => q # "saved" /\ Settled(q)
      BY <1>19, <1>23 DEF Settled
    <3>6. q # "saved" /\ Holds(q, r, x) => Holds(q, r, x)'
      BY <1>19, NotSaved
    <3>. QED
      BY <3>1, <3>2, <3>3, <3>4, <3>5, <3>6 DEF FetchFits
  <2>. QED
    BY <1>19, <2>1 DEF FetchesFit
<1>28. \A q \in Queries \ {"saved"} : \A r, x : Holds(q, r, x) => Holds(q, r, x)'
  BY <1>19, NotSaved
<1>29. Editing' <=> Editing
  BY <1>19 DEF Editing
<1>30. MutsFit'
  <2>1. MutFits(m, w)'
    <3>1. \A n \in Slots \ {m} : muts'[n].state = muts[n].state
      BY <1>23
    <3>. QED
      BY <1>1, <1>8, <1>28, <1>29, <3>1 DEF MutFits
  <2>2. ASSUME NEW n \in Slots \ {m}
        PROVE  \A v \in {muts'[n]} : MutFits(n, v)'
    <3>1. PICK v : v = muts[n] /\ MutFits(n, v)
      BY DEF ListsInv, MutsFit
    <3>2. v.state # "idle" => v.crossed
      BY <1>24, <3>1 DEF MutFits
    <3>3. MutFits(n, v)'
      BY <1>28, <1>29, <3>1, <3>2 DEF MutFits
    <3>. QED
      BY <1>7, <3>1, <3>3
  <2>. QED
    BY <1>7, <2>1, <2>2 DEF MutsFit
<1>. QED
  BY <1>20, <1>21, <1>22, <1>26, <1>27, <1>30 DEF ListsInv

-----------------------------------------------------------------------------
(* A heart is pressed.                                                     *)

Recoloured(r, l, to) ==
  [i \in DOMAIN r |-> IF r[i].id = l THEN [r[i] EXCEPT !.saved = to] ELSE r[i]]

LEMMA Recolours ==
  ASSUME NEW r \in Rows, NEW l \in Listings, NEW to \in BOOLEAN
  PROVE  /\ Recoloured(r, l, to) \in Rows /\ DOMAIN Recoloured(r, l, to) = DOMAIN r
         /\ \A i \in DOMAIN r :
              /\ Recoloured(r, l, to)[i].id = r[i].id
              /\ r[i].id = l => Recoloured(r, l, to)[i].saved = to
              /\ r[i].id # l => Recoloured(r, l, to)[i] = r[i]
<1>1. PICK k \in Nat : DOMAIN r = 1 .. k /\ r \in [1 .. k -> Row0]
  BY LenProperties DEF Rows, Row0
<1>2. ASSUME NEW i \in 1 .. k
      PROVE  /\ [r[i] EXCEPT !.saved = to] \in Row0 /\ r[i] \in Row0
             /\ [r[i] EXCEPT !.saved = to].id = r[i].id
             /\ [r[i] EXCEPT !.saved = to].saved = to
  BY <1>1 DEF Row0
<1>3. PICK x : x = Recoloured(r, l, to)
  OBVIOUS
<1>4. x = [i \in 1 .. k |-> IF r[i].id = l THEN [r[i] EXCEPT !.saved = to] ELSE r[i]]
  BY <1>1, <1>3 DEF Recoloured
<1>5. x \in Seq(Row0)
  <2>1. \A i \in 1 .. k : (IF r[i].id = l THEN [r[i] EXCEPT !.saved = to] ELSE r[i]) \in Row0
    BY <1>2
  <2>2. x \in [1 .. k -> Row0]
    BY <1>4, <2>1
  <2>. QED
    BY <2>2, SeqDef
<1>6. x \in Rows /\ DOMAIN x = DOMAIN r
  BY <1>1, <1>4, <1>5 DEF Rows, Row0
<1>7. \A i \in 1 .. k : /\ x[i].id = r[i].id
                        /\ r[i].id = l => x[i].saved = to
                        /\ r[i].id # l => x[i] = r[i]
  BY <1>2, <1>4
<1>. QED
  BY <1>1, <1>3, <1>6, <1>7

\* The same listings in the same order.
LEMMA HoldsIds ==
  ASSUME NEW q, NEW r, NEW x, NEW n, DOMAIN x = DOMAIN r,
         \A i \in DOMAIN r : x[i].id = r[i].id, Holds(q, r, n)
  PROVE  Holds(q, x, n)
<1>1. PICK U : U = Upto(q, n)
  OBVIOUS
<1>. QED
  BY <1>1 DEF Holds

LEMMA QueryRows ==
  ASSUME NEW c \in Query, NEW r \in Rows
  PROVE  /\ [c EXCEPT !.rows = r] \in Query /\ [c EXCEPT !.rows = r].rows = r
         /\ [c EXCEPT !.rows = r].count = c.count /\ [c EXCEPT !.rows = r].next = c.next
         /\ [c EXCEPT !.rows = r].stale = c.stale /\ [c EXCEPT !.rows = r].behind = c.behind
         /\ [c EXCEPT !.rows = r].unsure = c.unsure
<1>1. PICK d : d = [c EXCEPT !.rows = r]
  OBVIOUS
<1>2. d = [rows |-> r, count |-> c.count, next |-> c.next, stale |-> c.stale,
           error |-> c.error, behind |-> c.behind, unsure |-> c.unsure]
  BY <1>1, QueryFields
<1>3. d \in Query
  BY <1>2, QueryFields, QueryTyped
<1>. QED
  BY <1>1, <1>2, <1>3

LEMMA FreeSlot ==
  ASSUME NEW m \in Slots, m = NextSlot
  PROVE  muts[m].state = "idle"
<1>1. Free # {}
  BY DEF NextSlot, Slots
<1>2. Free \in SUBSET Nat
  BY DEF Free, Slots
<1>3. PICK x \in Free : \A y \in Free : x <= y
  BY <1>1, <1>2, Least
<1>4. Min(Free) \in Free
  BY <1>3 DEF Min
<1>. QED
  BY <1>1, <1>4 DEF NextSlot, Free

LEMMA StartKeeps ==
  ASSUME ListsInv, NEW m \in Slots, NEW l \in Listings, NEW to \in BOOLEAN, Start(m, l, to),
         undo' \subseteq Listings
  PROVE  ListsInv'
<1>0. TypeOK
  BY DEF ListsInv
<1>1. muts[m].state = "idle"
  BY FreeSlot DEF Start
<1>2. PICK b \in BOOLEAN : b = Busy
  BY DEF Busy
<1>3. PICK e \in BOOLEAN : e = Editing
  BY DEF Editing
<1>4. PICK w : w = [state |-> "sent", id |-> l, to |-> to, from |-> page, before |-> cache,
                    crossed |-> b, edited |-> e]
  OBVIOUS
<1>5. w \in Mut
  <2>1. page \in Pages /\ cache \in [Queries -> Query] /\ l \in 0 .. N
    BY <1>0 DEF TypeOK, Listings
  <2>. QED
    BY <1>4, <2>1, MutTyped
<1>6. /\ w.state = "sent" /\ w.id = l /\ w.to = to /\ w.before = cache
      /\ w.crossed = b /\ w.edited = e
  BY <1>4
<1>7. muts' = [n \in Slots |-> IF n = m THEN w ELSE [muts[n] EXCEPT !.crossed = muts[n].state # "idle"]]
  BY <1>2, <1>3, <1>4, Zenon DEF Start
<1>8. ASSUME NEW n \in Slots \ {m}
      PROVE  /\ muts'[n] \in Mut /\ muts'[n].state = muts[n].state /\ muts'[n].id = muts[n].id
             /\ muts'[n].to = muts[n].to /\ muts'[n].before = muts[n].before
             /\ muts'[n].edited = muts[n].edited
             /\ muts[n].state # "idle" => muts'[n].crossed
  <2>1. PICK u \in Mut : u = muts[n]
    BY <1>0 DEF TypeOK
  <2>2. PICK x \in BOOLEAN : x = (u.state # "idle")
    OBVIOUS
  <2>3. PICK v : v = [state |-> u.state, id |-> u.id, to |-> u.to, from |-> u.from,
                      before |-> u.before, crossed |-> x, edited |-> u.edited]
    OBVIOUS
  <2>4. v \in Mut
    BY <2>3, MutFields, MutTyped
  <2>5. [u EXCEPT !.crossed = x] = v
    BY <2>3, MutFields
  <2>6. muts'[n] = v
    <3>1. muts'[n] = [muts[n] EXCEPT !.crossed = muts[n].state # "idle"]
      BY <1>7
    <3>. QED
      BY <2>1, <2>2, <2>5, <3>1, Zenon
  <2>7. /\ v.state = u.state /\ v.id = u.id /\ v.to = u.to /\ v.before = u.before
        /\ v.edited = u.edited /\ v.crossed = x
    BY <2>3
  <2>8. v.state # "idle" => v.crossed
    BY <2>2, <2>7
  <2>9. muts[n].state # "idle" => muts'[n].crossed
    BY <2>1, <2>6, <2>7, <2>8
  <2>. QED
    BY <2>1, <2>4, <2>6, <2>7, <2>9
<1>9. muts'[m] = w /\ muts' \in [Slots -> Mut]
  BY <1>5, <1>7, <1>8
<1>10. UNCHANGED <<server, page, edit>> /\ fetch' = [q \in Queries |-> NoFetch]
  BY DEF Start
<1>11. used' \in Used /\ used'.toggles = used.toggles + 1 /\ used.toggles \in Nat
  <2>1. used \in Used
    BY <1>0 DEF TypeOK, Used
  <2>2. Count("toggles")
    BY DEF Start
  <2>. QED
    BY <2>1, <2>2, Counted DEF Used
<1>12. ASSUME NEW q \in Queries
       PROVE  /\ cache'[q] \in Query /\ cache'[q].rows = Recoloured(cache[q].rows, l, to)
              /\ cache'[q].count = cache[q].count /\ cache'[q].next = cache[q].next
              /\ cache'[q].stale = cache[q].stale /\ cache'[q].behind = cache[q].behind
              /\ cache'[q].unsure = cache[q].unsure
  <2>1. PICK c \in Query : c = cache[q]
    BY <1>0 DEF TypeOK
  <2>2. Recoloured(c.rows, l, to) \in Rows
    BY QueryFields, Recolours
  <2>3. cache'[q] = [c EXCEPT !.rows = Recoloured(c.rows, l, to)]
    BY <2>1 DEF Start, WithSaved, Recoloured
  <2>. QED
    BY <2>1, <2>2, <2>3, QueryRows
<1>13. cache' \in [Queries -> Query]
  BY <1>12 DEF Start, WithSaved
<1>14. TypeOK'
  <2>1. fetch' \in [Queries -> Fetch]
    BY <1>10, NoFetchFits
  <2>. QED
    BY <1>0, <1>9, <1>10, <1>11, <1>13, <2>1 DEF TypeOK, Used, server
<1>15. Dated'
  <2>1. Pending' = Pending + 1 /\ Pending \in Nat
    <3>1. CASE m = 1
      BY <1>1, <1>6, <1>8, <1>9, <3>1 DEF Pending, Sent, Slots
    <3>2. CASE m = 2
      BY <1>1, <1>6, <1>8, <1>9, <3>2 DEF Pending, Sent, Slots
    <3>. QED
      BY <3>1, <3>2 DEF Slots
  <2>2. ASSUME NEW k \in Listings
        PROVE  savedAt'[k] + Pending' <= used'.toggles + 1
    <3>1. savedAt'[k] = savedAt[k] /\ savedAt[k] \in Nat /\ savedAt[k] + Pending <= used.toggles + 1
      BY <1>0, <1>10 DEF TypeOK, ListsInv, Dated, server
    <3>. QED
      BY <1>11, <2>1, <3>1
  <2>. QED
    BY <2>2 DEF Dated
<1>16. EditFits'
  BY <1>10 DEF ListsInv, EditFits, Editing
<1>17. \A n \in Slots \ {m} : \A k : (Carries(n, k)' <=> Carries(n, k))
  BY <1>8 DEF Carries
<1>18. \A k : ~Carries(m, k) /\ (Carries(m, k)' <=> k = l)
  BY <1>1, <1>6, <1>9 DEF Carries
<1>19. ASSUME NEW row, NEW x, x.id = row.id, row.id = l => x.saved = to, row.id # l => x = row,
              HeartFits(row)
       PROVE  HeartFits(x)'
  <2>1. CASE row.id = l
    <3>1. ASSUME NEW n \in Slots, Carries(n, x.id)', ~Disputed(n)'
          PROVE  n = m
      <4>1. SUFFICES ASSUME n # m
                     PROVE  FALSE
        OBVIOUS
      <4>2. muts'[m].state # "idle" /\ muts'[m].id = muts'[n].id
        BY <1>6, <1>9, <1>19, <2>1, <3>1 DEF Carries
      <4>. QED
        BY <3>1, <4>1, <4>2 DEF Disputed
    <3>2. x.saved = muts'[m].to /\ muts'[m].state = "sent"
      BY <1>6, <1>9, <1>19, <2>1
    <3>3. Carries(m, x.id)'
      BY <1>18, <1>19, <2>1
    <3>. QED
      BY <3>1, <3>2, <3>3 DEF HeartFits
  <2>2. CASE row.id # l
    <3>1. x = row /\ \A n \in Slots : Carries(n, row.id)' <=> Carries(n, row.id)
      BY <1>17, <1>18, <1>19, <2>2
    <3>2. Matches(row) => Matches(row)'
      BY <1>10 DEF Matches, Exists, server
    <3>3. ASSUME NEW n \in Slots, Carries(n, row.id), ~Disputed(n)'
          PROVE  n # m /\ ~Disputed(n)
      <4>1. n # m
        BY <1>18, <3>3
      <4>2. ASSUME NEW k \in Slots \ {n}, muts[k].state # "idle", muts[k].id = muts[n].id
            PROVE  FALSE
        BY <1>1, <1>8, <3>3, <4>1, <4>2 DEF Disputed
      <4>. QED
        BY <4>1, <4>2 DEF Disputed
    <3>4. ASSUME NEW n \in Slots, Carries(n, row.id), ~Disputed(n)'
          PROVE  row.saved = muts'[n].to /\ (muts'[n].state = "applied" => Matches(row)')
      BY <1>8, <1>19, <3>2, <3>3, <3>4 DEF HeartFits
    <3>. QED
      BY <1>19, <3>1, <3>2, <3>4 DEF HeartFits
  <2>. QED
    BY <2>1, <2>2
<1>20. ASSUME NEW q \in Queries
       PROVE  Settled(q)' => Settled(q)
  BY <1>1, <1>8, <1>10 DEF Settled
<1>21. CachesFit'
  <2>1. ASSUME NEW q \in Queries, NEW d \in {cache'[q]}
        PROVE  CacheFits(q, d)'
    <3>1. PICK c \in Query : c = cache[q] /\ CacheFits(q, c)
      BY <1>0 DEF ListsInv, CachesFit, TypeOK
    <3>2. PICK r \in Rows : r = c.rows
      BY QueryFields
    <3>3. PICK x : x = Recoloured(r, l, to)
      OBVIOUS
    <3>4. PICK n : n = c.next
      OBVIOUS
    <3>5. /\ d.rows = x /\ d.count = c.count /\ d.next = n /\ d.stale = c.stale
          /\ d.behind = c.behind /\ d.unsure = c.unsure
      BY <1>12, <3>1, <3>2, <3>3, <3>4
    <3>6. /\ DOMAIN x = DOMAIN r
          /\ \A i \in DOMAIN r : /\ x[i].id = r[i].id
                                 /\ r[i].id = l => x[i].saved = to
                                 /\ r[i].id # l => x[i] = r[i]
      BY <3>3, Recolours
    <3>7. HeartsFit(r) => HeartsFit(x)'
      BY <1>19, <3>6 DEF HeartsFit
    <3>8. Holds(q, r, n) => Holds(q, x, n)'
      <4>1. Holds(q, r, n) => Holds(q, x, n)
        BY <3>6, HoldsIds
      <4>. QED
        BY <1>10, <4>1, ServerKept
    <3>. QED
      BY <1>20, <3>1, <3>2, <3>4, <3>5, <3>7, <3>8 DEF CacheFits
  <2>. QED
    BY <2>1 DEF CachesFit
<1>22. FetchesFit'
  <2>1. \A q \in Queries : fetch'[q].kind = "none"
    BY <1>10 DEF NoFetch
  <2>. QED
    BY <2>1 DEF FetchesFit, FetchFits
<1>23. Editing' <=> Editing
  BY <1>10 DEF Editing
<1>24. \A q \in Queries : \A r, n : (AllMatch(r) => AllMatch(r)') /\ (Holds(q, r, n) => Holds(q, r, n)')
  BY <1>10, ServerKept
<1>25. MutFits(m, w)'
  <2>1. ~b => \A n \in Slots \ {m} : muts'[n].state = "idle"
    BY <1>2, <1>8 DEF Busy
  <2>2. ASSUME ~b, NEW q \in Queries \ {"mine"}, cache[q].count > 0, ~cache[q].unsure
        PROVE  AllMatch(cache[q].rows)
    <3>1. PICK c : c = cache[q] /\ CacheFits(q, c)
      BY DEF ListsInv, CachesFit
    <3>. QED
      BY <1>2, <2>2, <3>1, IdleHearts DEF CacheFits
  <2>3. ASSUME ~b, NEW q \in Queries \ {"mine"}, cache[q].count > 0, ~cache[q].unsure
        PROVE  AllMatch(w.before[q].rows)'
    <3>1. PICK r : r = w.before[q].rows
      OBVIOUS
    <3>2. AllMatch(r)
      BY <1>6, <2>2, <2>3, <3>1
    <3>. QED
      BY <1>24, <3>1, <3>2
  <2>4. ASSUME ~e, NEW q \in Queries \ {"saved"}, cache[q].count > 0, ~cache[q].stale, ~cache[q].behind
        PROVE  Holds(q, w.before[q].rows, w.before[q].next)'
    <3>1. PICK c : c = cache[q] /\ CacheFits(q, c)
      BY DEF ListsInv, CachesFit
    <3>2. PICK r : r = w.before[q].rows
      OBVIOUS
    <3>3. PICK n : n = w.before[q].next
      OBVIOUS
    <3>4. Settled(q)
      BY <1>3, <2>4 DEF Settled, ListsInv, EditFits
    <3>5. Holds(q, r, n)
      BY <1>6, <2>4, <3>1, <3>2, <3>3, <3>4 DEF CacheFits
    <3>. QED
      BY <1>24, <3>2, <3>3, <3>5
  <2>5. Editing' => w.edited
    BY <1>3, <1>6, <1>23
  <2>. QED
    BY <1>6, <2>1, <2>3, <2>4, <2>5 DEF MutFits
<1>26. ASSUME NEW n \in Slots \ {m}, NEW v \in {muts'[n]}
       PROVE  MutFits(n, v)'
  <2>1. PICK u : u = muts[n] /\ MutFits(n, u)
    BY DEF ListsInv, MutsFit
  <2>2. /\ v.state = u.state /\ v.id = u.id /\ v.before = u.before /\ v.edited = u.edited
        /\ v.state # "idle" => v.crossed
    BY <1>8, <2>1
  <2>. QED
    BY <1>23, <1>24, <2>1, <2>2 DEF MutFits
<1>27. MutsFit'
  BY <1>9, <1>25, <1>26 DEF MutsFit
<1>. QED
  BY <1>14, <1>15, <1>16, <1>21, <1>22, <1>27 DEF ListsInv

LEMMA UndoKeeps ==
  ASSUME ListsInv, NEW m \in Slots, NEW l \in Listings, Undo(m, l)
  PROVE  ListsInv'
<1>1. undo' \subseteq Listings
  BY DEF Undo, ListsInv, TypeOK
<1>2. Start(m, l, TRUE)
  BY DEF Undo
<1>. QED
  BY <1>1, <1>2, StartKeeps

LEMMA ToggleKeeps ==
  ASSUME ListsInv, NEW m \in Slots, Toggle(m)
  PROVE  ListsInv'
<1>1. PICK row \in CardHearts \cup DetailHeart : Start(m, row.id, ~row.saved)
  BY DEF Toggle
<1>2. PICK q \in Queries : row \in Range(cache[q].rows)
  BY DEF CardHearts, DetailHeart, Queries
<1>3. row \in Row0
  <2>1. cache[q].rows \in Rows
    BY QueryFields DEF ListsInv, TypeOK
  <2>2. PICK r \in Seq(Row0) : r = cache[q].rows
    BY <2>1 DEF Rows, Row0
  <2>3. PICK i \in DOMAIN r : row = r[i]
    BY <1>2, <2>2 DEF Range
  <2>. QED
    BY <2>2, <2>3, LenProperties
<1>4. undo' \subseteq Listings
  BY DEF Toggle, ListsInv, TypeOK
<1>5. row.id \in Listings /\ (~row.saved) \in BOOLEAN
  BY <1>3 DEF Row0
<1>. QED
  BY <1>1, <1>4, <1>5, StartKeeps

-----------------------------------------------------------------------------
(* Lists are marked and loaded again.                                      *)

LEMMA QueryStale ==
  ASSUME NEW c \in Query
  PROVE  /\ [c EXCEPT !.stale = TRUE] \in Query /\ [c EXCEPT !.stale = TRUE].rows = c.rows
         /\ [c EXCEPT !.stale = TRUE].count = c.count /\ [c EXCEPT !.stale = TRUE].stale
         /\ [c EXCEPT !.stale = TRUE].unsure = c.unsure
<1>1. PICK d : d = [c EXCEPT !.stale = TRUE]
  OBVIOUS
<1>2. d = [rows |-> c.rows, count |-> c.count, next |-> c.next, stale |-> TRUE,
           error |-> c.error, behind |-> c.behind, unsure |-> c.unsure]
  <2>1. c = [rows |-> c.rows, count |-> c.count, next |-> c.next, stale |-> c.stale,
             error |-> c.error, behind |-> c.behind, unsure |-> c.unsure]
    BY QueryFields
  <2>. QED
    BY <1>1, <2>1
<1>3. d \in Query
  <2>1. /\ c.rows \in Rows /\ c.count \in Nat /\ c.next \in Nat /\ c.error \in BOOLEAN
        /\ c.behind \in BOOLEAN /\ c.unsure \in BOOLEAN
    BY QueryFields
  <2>2. [rows |-> c.rows, count |-> c.count, next |-> c.next, stale |-> TRUE,
         error |-> c.error, behind |-> c.behind, unsure |-> c.unsure] \in Query
    BY <2>1 DEF Query
  <2>. QED
    BY <1>2, <2>2
<1>. QED
  BY <1>1, <1>2, <1>3

LEMMA FetchOvertaken ==
  ASSUME NEW f \in Fetch
  PROVE  LET g == [f EXCEPT !.behind = TRUE, !.unsure = TRUE] IN
         /\ g \in Fetch /\ g.behind /\ g.unsure /\ g.kind = f.kind
         /\ g.rows = f.rows /\ g.count = f.count /\ g.next = f.next
<1>1. PICK h : h = [f EXCEPT !.behind = TRUE]
  OBVIOUS
<1>2. h = [kind |-> f.kind, rows |-> f.rows, count |-> f.count, next |-> f.next,
           need |-> f.need, behind |-> TRUE, unsure |-> f.unsure]
  <2>1. f = [kind |-> f.kind, rows |-> f.rows, count |-> f.count, next |-> f.next,
             need |-> f.need, behind |-> f.behind, unsure |-> f.unsure]
    BY FetchFields
  <2>. QED
    BY <1>1, <2>1
<1>3. PICK g : g = [h EXCEPT !.unsure = TRUE]
  OBVIOUS
<1>4. g = [kind |-> f.kind, rows |-> f.rows, count |-> f.count, next |-> f.next,
           need |-> f.need, behind |-> TRUE, unsure |-> TRUE]
  BY <1>2, <1>3
<1>5. g \in Fetch
  BY <1>4, FetchFields, FetchTyped
<1>6. g = [f EXCEPT !.behind = TRUE, !.unsure = TRUE]
  BY <1>1, <1>3
<1>. QED
  BY <1>4, <1>5, <1>6

LEMMA Reloads ==
  ASSUME TypeOK, NEW C, NEW S \in SUBSET Queries, Invalidate(S, C), NEW q \in Queries
  PROVE  \/ q \notin S /\ fetch'[q] = fetch[q]
         \/ q \in S /\ fetch'[q] \in Fetch /\ fetch'[q].kind = "none"
         \/ /\ q \in S /\ fetch'[q] \in Fetch /\ fetch'[q].behind /\ fetch'[q].unsure
            /\ fetch'[q].kind = fetch[q].kind /\ fetch'[q].rows = fetch[q].rows
            /\ fetch'[q].count = fetch[q].count /\ fetch'[q].next = fetch[q].next
         \/ q \in S /\ fetch'[q] \in NoFetchYet /\ (fetch'[q].unsure <=> Busy')
<1>1. PICK f \in Fetch : f = fetch[q]
  BY DEF TypeOK
<1>2. PICK u \in BOOLEAN : u = Busy'
  BY DEF Busy
<1>3. PICK a : a = LoadAll(q)
  OBVIOUS
<1>4. PICK g : g = [a EXCEPT !.unsure = u]
  OBVIOUS
<1>5. g \in NoFetchYet /\ g.unsure = u
  <2>1. a \in NoFetchYet
    BY <1>3, Loads
  <2>2. PICK k \in Nat, b \in BOOLEAN :
          a = [kind |-> "all", rows |-> <<>>, count |-> 0, next |-> 0, need |-> k,
               behind |-> FALSE, unsure |-> b]
    BY <2>1 DEF NoFetchYet
  <2>3. g = [kind |-> "all", rows |-> <<>>, count |-> 0, next |-> 0, need |-> k,
             behind |-> FALSE, unsure |-> u]
    BY <1>4, <2>2
  <2>. QED
    BY <2>3 DEF NoFetchYet
<1>6. fetch' = [r \in Queries |->
         CASE r \notin S -> fetch[r]
           [] r \in S /\ Fetching(r) /\ ~(Mounted(r) /\ HasData(r)) ->
                [fetch[r] EXCEPT !.behind = TRUE, !.unsure = TRUE]
           [] r \in S /\ ~Fetching(r) /\ ~Mounted(r) -> fetch[r]
           [] OTHER -> [LoadAll(r) EXCEPT !.unsure = u]]
  BY <1>2, Zenon DEF Invalidate
<1>7. fetch'[q] =
         CASE q \notin S -> f
           [] q \in S /\ Fetching(q) /\ ~(Mounted(q) /\ HasData(q)) ->
                [f EXCEPT !.behind = TRUE, !.unsure = TRUE]
           [] q \in S /\ ~Fetching(q) /\ ~Mounted(q) -> f
           [] OTHER -> g
  BY <1>1, <1>3, <1>4, <1>6
<1>8. CASE q \notin S
  BY <1>1, <1>7, <1>8
<1>9. CASE q \in S /\ Fetching(q) /\ ~(Mounted(q) /\ HasData(q))
  <2>1. fetch'[q] = [f EXCEPT !.behind = TRUE, !.unsure = TRUE]
    BY <1>7, <1>9
  <2>2. PICK h : h = [f EXCEPT !.behind = TRUE, !.unsure = TRUE]
    OBVIOUS
  <2>3. /\ h \in Fetch /\ h.behind /\ h.unsure /\ h.kind = f.kind
        /\ h.rows = f.rows /\ h.count = f.count /\ h.next = f.next
    BY <2>2, FetchOvertaken
  <2>. QED
    BY <1>1, <1>9, <2>1, <2>2, <2>3
<1>10. CASE q \in S /\ ~Fetching(q) /\ ~Mounted(q)
  BY <1>1, <1>7, <1>10 DEF Fetching
<1>11. CASE q \in S /\ ~(Fetching(q) /\ ~(Mounted(q) /\ HasData(q))) /\ ~(~Fetching(q) /\ ~Mounted(q))
  <2>1. fetch'[q] = g
    BY <1>7, <1>11
  <2>. QED
    BY <1>2, <1>5, <1>11, <2>1
<1>. QED
  BY <1>8, <1>9, <1>10, <1>11

LEMMA ReloadsTyped ==
  ASSUME TypeOK, NEW C, NEW S \in SUBSET Queries, Invalidate(S, C)
  PROVE  fetch' \in [Queries -> Fetch]
<1>1. ASSUME NEW q \in Queries
      PROVE  fetch'[q] \in Fetch
  <2>1. fetch'[q] \in NoFetchYet => fetch'[q] \in Fetch
    <3>1. PICK f : f = fetch'[q]
      OBVIOUS
    <3>. QED
      BY <3>1, FreshTyped
  <2>. QED
    BY <2>1, Reloads DEF TypeOK
<1>2. PICK h : h = [q \in Queries |-> fetch'[q]]
  OBVIOUS
<1>3. fetch' = h
  BY <1>2 DEF Invalidate
<1>. QED
  BY <1>1, <1>2, <1>3

\* A change ends.  C is what the lists are made before the favourites are
\* marked.
LEMMA EndKeeps ==
  ASSUME ListsInv, NEW m \in Slots, muts[m].state # "idle",
         muts' = [n \in Slots |-> IF n = m THEN NoMut ELSE muts[n]],
         UNCHANGED <<server, page, edit>>, used' \in Used, used'.toggles = used.toggles,
         undo' \subseteq Listings,
         NEW C \in [Queries -> Query], Invalidate({"saved"}, C),
         \A q \in Queries \ {"mine"} : C[q].count > 0 /\ ~C[q].unsure =>
           \A r \in {C[q].rows} : HeartsFit(r)',
         \A q \in Queries \ {"saved"} :
           Settled(q) /\ C[q].count > 0 /\ ~C[q].stale /\ ~C[q].behind
             => Holds(q, C[q].rows, C[q].next)
  PROVE  ListsInv'
<1>0. TypeOK
  BY DEF ListsInv
<1>1. /\ muts'[m] = NoMut /\ \A n \in Slots \ {m} : muts'[n] = muts[n]
      /\ NoMut.state = "idle"
  BY DEF NoMut
<1>2. muts' \in [Slots -> Mut]
  <2>1. NoData \in Query
    BY RowsEmpty DEF NoData, Query
  <2>2. PICK b \in [Queries -> Query] : b = [q \in Queries |-> NoData]
    BY <2>1
  <2>3. NoMut = [state |-> "idle", id |-> 0, to |-> FALSE, from |-> "search",
                 before |-> b, crossed |-> FALSE, edited |-> FALSE]
    BY <2>2 DEF NoMut
  <2>4. NoMut \in Mut
    <3>1. 0 \in 0 .. N /\ "search" \in Pages
      BY DEF Pages
    <3>. QED
      BY <2>3, <3>1, MutTyped
  <2>. QED
    BY <1>0, <2>4 DEF TypeOK
<1>3. ASSUME NEW q \in Queries
      PROVE  /\ cache'[q] \in Query /\ cache'[q].rows = C[q].rows
             /\ cache'[q].count = C[q].count /\ cache'[q].unsure = C[q].unsure
             /\ q = "saved" => cache'[q].stale
             /\ q # "saved" => cache'[q] = C[q]
  <2>1. cache'[q] = IF q \in {"saved"} THEN [C[q] EXCEPT !.stale = TRUE] ELSE C[q]
    BY DEF Invalidate
  <2>2. CASE q = "saved"
    BY <2>1, <2>2, QueryStale
  <2>3. CASE q # "saved"
    BY <2>1, <2>3
  <2>. QED
    BY <2>2, <2>3
<1>4. cache' \in [Queries -> Query]
  BY <1>3 DEF Invalidate
<1>5. TypeOK'
  <2>1. {"saved"} \in SUBSET Queries
    BY DEF Queries
  <2>2. fetch' \in [Queries -> Fetch]
    BY <1>0, <2>1, ReloadsTyped
  <2>. QED
    BY <1>0, <1>2, <1>4, <2>2 DEF TypeOK, Used, server
<1>6. Dated'
  <2>1. Pending' <= Pending /\ Pending' \in Nat /\ Pending \in Nat
    <3>1. CASE m = 1
      BY <1>1, <3>1 DEF Pending, Sent, Slots
    <3>2. CASE m = 2
      BY <1>1, <3>2 DEF Pending, Sent, Slots
    <3>. QED
      BY <3>1, <3>2 DEF Slots
  <2>2. ASSUME NEW k \in Listings
        PROVE  savedAt'[k] + Pending' <= used'.toggles + 1
    <3>1. savedAt'[k] = savedAt[k] /\ savedAt[k] \in Nat /\ savedAt[k] + Pending <= used.toggles + 1
          /\ used.toggles \in Nat
      BY <1>0 DEF TypeOK, ListsInv, Dated, server
    <3>. QED
      BY <2>1, <3>1
  <2>. QED
    BY <2>2 DEF Dated
<1>7. EditFits' /\ (Editing' <=> Editing)
  BY DEF ListsInv, EditFits, Editing
<1>8. \A q \in Queries : \A r, n : (AllMatch(r) => AllMatch(r)') /\ (Holds(q, r, n) => Holds(q, r, n)')
  BY ServerKept
<1>9. Busy
  BY DEF Busy
<1>10. \A q \in Queries \ {"saved"} : Settled(q)' <=> Settled(q)
  BY DEF Settled
<1>11. CachesFit'
  <2>1. ASSUME NEW q \in Queries, NEW d \in {cache'[q]}
        PROVE  CacheFits(q, d)'
    <3>1. PICK r : r = C[q].rows
      OBVIOUS
    <3>2. PICK n : n = C[q].next
      OBVIOUS
    <3>3. d.rows = r /\ d.count = C[q].count /\ d.unsure = C[q].unsure
      BY <1>3, <3>1
    <3>4. q # "mine" /\ d.count > 0 /\ ~d.unsure => HeartsFit(r)'
      BY <3>1, <3>3
    <3>5. CASE q = "saved"
      <4>1. d.stale
        BY <1>3, <3>5
      <4>. QED
        BY <3>3, <3>4, <4>1 DEF CacheFits
    <3>6. CASE q # "saved"
      <4>1. d = C[q] /\ d.next = n
        BY <1>3, <3>2, <3>6
      <4>2. Settled(q)' /\ d.count > 0 /\ ~d.stale /\ ~d.behind => Holds(q, r, n)
        BY <1>10, <3>1, <3>2, <3>6, <4>1
      <4>3. Settled(q)' /\ d.count > 0 /\ ~d.stale /\ ~d.behind => Holds(q, r, n)'
        BY <1>8, <4>2
      <4>. QED
        BY <3>3, <3>4, <4>1, <4>3 DEF CacheFits
    <3>. QED
      BY <3>5, <3>6
  <2>. QED
    BY <2>1 DEF CachesFit
<1>12. FetchesFit'
  <2>1. ASSUME NEW q \in Queries, NEW g \in {fetch'[q]}
        PROVE  FetchFits(q, g)'
    <3>1. PICK f : f = fetch[q] /\ FetchFits(q, f)
      BY DEF ListsInv, FetchesFit
    <3>2. PICK r : r = f.rows
      OBVIOUS
    <3>3. PICK n : n = f.next
      OBVIOUS
    <3>4. {"saved"} \in SUBSET Queries
      BY DEF Queries
    <3>5. CASE q \notin {"saved"} /\ fetch'[q] = fetch[q]
      <4>1. g = f /\ (q = "mine" \/ g.kind = "none" \/ g.unsure)
        BY <1>9, <3>1, <3>5 DEF FetchFits
      <4>2. Settled(q)' <=> Settled(q)
        BY <1>10, <3>5
      <4>. QED
        BY <1>8, <3>1, <3>2, <3>3, <4>1, <4>2 DEF FetchFits
    <3>6. CASE fetch'[q].kind = "none"
      BY <3>6 DEF FetchFits
    <3>7. CASE /\ fetch'[q].behind /\ fetch'[q].unsure
               /\ fetch'[q].kind = fetch[q].kind /\ fetch'[q].rows = fetch[q].rows
               /\ fetch'[q].count = fetch[q].count /\ fetch'[q].next = fetch[q].next
      BY <3>1, <3>7 DEF FetchFits
    <3>8. CASE fetch'[q] \in NoFetchYet /\ (fetch'[q].unsure <=> Busy')
      <4>0. g \in NoFetchYet /\ (g.unsure <=> Busy')
        BY <3>8
      <4>1. g.rows = <<>> /\ g.count = 0 /\ g.next = 0 /\ DOMAIN g.rows = {}
        BY <4>0, EmptySeq DEF NoFetchYet
      <4>2. PICK e : e = g.rows
        OBVIOUS
      <4>3. AllMatch(e)'
        BY <4>1, <4>2 DEF AllMatch
      <4>. QED
        BY <4>0, <4>1, <4>2, <4>3 DEF FetchFits
    <3>. QED
      BY <1>0, <3>4, <3>5, <3>6, <3>7, <3>8, Reloads
  <2>. QED
    BY <2>1 DEF FetchesFit
<1>13. MutsFit'
  <2>1. MutFits(m, NoMut)'
    BY <1>1 DEF MutFits
  <2>2. ASSUME NEW n \in Slots \ {m}, NEW v \in {muts'[n]}
        PROVE  MutFits(n, v)'
    <3>1. v = muts[n] /\ MutFits(n, v)
      BY <1>1 DEF ListsInv, MutsFit
    <3>2. v.state # "idle" => v.crossed
      BY <3>1 DEF MutFits
    <3>. QED
      BY <1>7, <1>8, <3>1, <3>2 DEF MutFits
  <2>. QED
    BY <1>1, <2>1, <2>2 DEF MutsFit
<1>. QED
  BY <1>5, <1>6, <1>7, <1>11, <1>12, <1>13 DEF ListsInv

LEMMA QueryUnsure ==
  ASSUME NEW c \in Query, NEW u \in BOOLEAN
  PROVE  LET d == [c EXCEPT !.unsure = u] IN
         /\ d \in Query /\ d.rows = c.rows /\ d.count = c.count /\ d.next = c.next
         /\ d.stale = c.stale /\ d.behind = c.behind /\ d.unsure = u
<1>1. PICK d : d = [c EXCEPT !.unsure = u]
  OBVIOUS
<1>2. d = [rows |-> c.rows, count |-> c.count, next |-> c.next, stale |-> c.stale,
           error |-> c.error, behind |-> c.behind, unsure |-> u]
  <2>1. c = [rows |-> c.rows, count |-> c.count, next |-> c.next, stale |-> c.stale,
             error |-> c.error, behind |-> c.behind, unsure |-> c.unsure]
    BY QueryFields
  <2>. QED
    BY <1>1, <2>1
<1>3. d \in Query
  BY <1>2, QueryFields, QueryTyped
<1>. QED
  BY <1>1, <1>2, <1>3

LEMMA AcceptedKeeps ==
  ASSUME ListsInv, NEW m \in Slots, Accepted(m)
  PROVE  ListsInv'
<1>0. TypeOK
  BY DEF ListsInv
<1>1. PICK u \in Mut : u = muts[m] /\ MutFits(m, u) /\ u.state = "applied"
  BY <1>0 DEF ListsInv, TypeOK, MutsFit, Accepted
<1>2. PICK x \in BOOLEAN : x = Disputed(m)
  BY DEF Disputed
<1>3. PICK C : C = [q \in Queries |-> [cache[q] EXCEPT !.unsure = @ \/ x]]
  OBVIOUS
<1>4. Invalidate({"saved"}, C)
  <2>1. Invalidate({"saved"}, [q \in Queries |-> [cache[q] EXCEPT !.unsure = @ \/ Disputed(m)]])
    BY DEF Accepted
  <2>. QED
    BY <1>2, <1>3, <2>1, Zenon
<1>5. ASSUME NEW q \in Queries
      PROVE  /\ C[q] \in Query /\ C[q].rows = cache[q].rows /\ C[q].count = cache[q].count
             /\ C[q].next = cache[q].next /\ C[q].stale = cache[q].stale
             /\ C[q].behind = cache[q].behind
             /\ ~C[q].unsure => ~cache[q].unsure /\ ~x
  <2>1. PICK c \in Query : c = cache[q]
    BY <1>0 DEF TypeOK
  <2>2. PICK w \in BOOLEAN : w = (c.unsure \/ x)
    OBVIOUS
  <2>3. C[q] = [c EXCEPT !.unsure = w]
    <3>1. C[q] = [cache[q] EXCEPT !.unsure = cache[q].unsure \/ x]
      BY <1>3
    <3>. QED
      BY <2>1, <2>2, <3>1, Zenon
  <2>4. /\ C[q] \in Query /\ C[q].rows = c.rows /\ C[q].count = c.count /\ C[q].next = c.next
        /\ C[q].stale = c.stale /\ C[q].behind = c.behind /\ C[q].unsure = w
    BY <2>3, QueryUnsure
  <2>5. ~C[q].unsure => ~c.unsure /\ ~x
    BY <2>2, <2>4
  <2>. QED
    BY <2>1, <2>4, <2>5
<1>6. C \in [Queries -> Query]
  BY <1>3, <1>5
<1>7. muts' = [n \in Slots |-> IF n = m THEN NoMut ELSE muts[n]] /\ UNCHANGED <<server, page, edit, used>>
  BY DEF Accepted
<1>8. undo' \subseteq Listings
  BY <1>0, <1>1 DEF Accepted, TypeOK, MutFits
<1>9. used' \in Used /\ used'.toggles = used.toggles
  BY <1>0, <1>7 DEF TypeOK, Used
<1>10. muts'[m].state = "idle" /\ \A n \in Slots \ {m} : muts'[n] = muts[n]
  BY <1>7 DEF NoMut
<1>11. ASSUME ~x, NEW row, HeartFits(row)
       PROVE  HeartFits(row)'
  <2>1. \A k \in Slots : Carries(k, row.id)' <=> k # m /\ Carries(k, row.id)
    BY <1>10 DEF Carries
  <2>2. Matches(row) => Matches(row)'
    BY <1>7 DEF Matches, Exists, server
  <2>3. ASSUME \A k \in Slots : ~Carries(k, row.id)'
        PROVE  Matches(row)
    <3>1. CASE Carries(m, row.id)
      BY <1>1, <1>2, <1>11, <3>1 DEF HeartFits
    <3>2. CASE ~Carries(m, row.id)
      BY <1>11, <2>1, <2>3, <3>2 DEF HeartFits
    <3>. QED
      BY <3>1, <3>2
  <2>4. ASSUME NEW n \in Slots, Carries(n, row.id)', ~Disputed(n)'
        PROVE  row.saved = muts'[n].to /\ (muts'[n].state = "applied" => Matches(row)')
    <3>1. n # m /\ Carries(n, row.id)
      BY <2>1, <2>4
    <3>2. ~Carries(m, row.id)
      BY <1>2, <1>11, <3>1 DEF Carries, Disputed
    <3>3. ~Disputed(n)
      BY <1>10, <2>4, <3>1, <3>2 DEF Disputed, Carries
    <3>. QED
      BY <1>10, <1>11, <2>2, <3>1, <3>3 DEF HeartFits
  <2>. QED
    BY <2>2, <2>3, <2>4 DEF HeartFits
<1>12. ASSUME NEW q \in Queries \ {"mine"}, C[q].count > 0, ~C[q].unsure, NEW r \in {C[q].rows}
       PROVE  HeartsFit(r)'
  <2>1. PICK c : c = cache[q] /\ CacheFits(q, c)
    BY DEF ListsInv, CachesFit
  <2>2. HeartsFit(r)
    BY <1>5, <1>12, <2>1 DEF CacheFits
  <2>3. ~x
    BY <1>5, <1>12
  <2>. QED
    BY <1>11, <2>2, <2>3 DEF HeartsFit
<1>13. ASSUME NEW q \in Queries \ {"saved"}, Settled(q), C[q].count > 0, ~C[q].stale, ~C[q].behind
       PROVE  Holds(q, C[q].rows, C[q].next)
  <2>1. PICK c : c = cache[q] /\ CacheFits(q, c)
    BY DEF ListsInv, CachesFit
  <2>2. PICK r : r = c.rows
    OBVIOUS
  <2>3. PICK n : n = c.next
    OBVIOUS
  <2>4. Holds(q, r, n)
    BY <1>5, <1>13, <2>1, <2>2, <2>3 DEF CacheFits
  <2>. QED
    BY <1>5, <2>1, <2>2, <2>3, <2>4
<1>. QED
  BY <1>1, <1>4, <1>6, <1>7, <1>8, <1>9, <1>12, <1>13, EndKeeps

\* A list that may have missed an edit, and one put back.
LEMMA QueryBehind ==
  ASSUME NEW c \in Query, NEW b \in BOOLEAN
  PROVE  LET d == [c EXCEPT !.behind = b] IN
         /\ d \in Query /\ d.rows = c.rows /\ d.count = c.count /\ d.next = c.next
         /\ d.stale = c.stale /\ d.behind = b /\ d.unsure = c.unsure
<1>1. PICK d : d = [c EXCEPT !.behind = b]
  OBVIOUS
<1>2. d = [rows |-> c.rows, count |-> c.count, next |-> c.next, stale |-> c.stale,
           error |-> c.error, behind |-> b, unsure |-> c.unsure]
  <2>1. c = [rows |-> c.rows, count |-> c.count, next |-> c.next, stale |-> c.stale,
             error |-> c.error, behind |-> c.behind, unsure |-> c.unsure]
    BY QueryFields
  <2>. QED
    BY <1>1, <2>1
<1>3. d \in Query
  BY <1>2, QueryFields, QueryTyped
<1>. QED
  BY <1>1, <1>2, <1>3

LEMMA QueryFresh ==
  ASSUME NEW c \in Query
  PROVE  LET d == [c EXCEPT !.stale = FALSE, !.error = FALSE] IN
         /\ d \in Query /\ d.rows = c.rows /\ d.count = c.count /\ d.next = c.next
         /\ d.behind = c.behind /\ d.unsure = c.unsure
<1>1. PICK e : e = [c EXCEPT !.stale = FALSE]
  OBVIOUS
<1>2. PICK d : d = [e EXCEPT !.error = FALSE]
  OBVIOUS
<1>3. c = [rows |-> c.rows, count |-> c.count, next |-> c.next, stale |-> c.stale,
           error |-> c.error, behind |-> c.behind, unsure |-> c.unsure]
  BY QueryFields
<1>4. e = [rows |-> c.rows, count |-> c.count, next |-> c.next, stale |-> FALSE,
           error |-> c.error, behind |-> c.behind, unsure |-> c.unsure]
  BY <1>1, <1>3
<1>5. d = [rows |-> c.rows, count |-> c.count, next |-> c.next, stale |-> FALSE,
           error |-> FALSE, behind |-> c.behind, unsure |-> c.unsure]
  BY <1>2, <1>4
<1>6. d \in Query
  BY <1>5, QueryFields, QueryTyped
<1>7. d = [c EXCEPT !.stale = FALSE, !.error = FALSE]
  BY <1>1, <1>2
<1>. QED
  BY <1>5, <1>6, <1>7

LEMMA RefusedKeeps ==
  ASSUME ListsInv, NEW m \in Slots, Refused(m)
  PROVE  ListsInv'
<1>0. TypeOK
  BY DEF ListsInv
<1>1. PICK u \in Mut : u = muts[m] /\ MutFits(m, u) /\ u.state # "idle"
  BY <1>0 DEF ListsInv, TypeOK, MutsFit, Refused
<1>2. PICK C : C = PutBack(m)
  OBVIOUS
<1>3. Invalidate({"saved"}, C)
  BY <1>2 DEF Refused
<1>4. PICK x \in BOOLEAN : x = (u.crossed \/ u.state = "applied")
  OBVIOUS
<1>5. ASSUME NEW q \in Queries
      PROVE  \/ /\ C[q] \in Query /\ C[q].rows = cache[q].rows /\ C[q].count = cache[q].count
                /\ C[q].next = cache[q].next /\ C[q].stale = cache[q].stale
                /\ C[q].behind = cache[q].behind
                /\ C[q].count > 0 => C[q].unsure
             \/ /\ C[q] \in Query /\ C[q].rows = u.before[q].rows /\ u.before[q].count > 0
                /\ C[q].next = u.before[q].next
                /\ ~C[q].behind => /\ ~u.before[q].behind /\ ~u.before[q].stale /\ ~u.edited
                /\ ~C[q].unsure => ~u.before[q].unsure /\ ~x
  <2>1. PICK c \in Query : c = cache[q]
    BY <1>0 DEF TypeOK
  <2>2. PICK old \in Query : old = u.before[q]
    BY MutFields
  <2>3. CASE old.count = 0
    <3>1. PICK w \in BOOLEAN : w = (c.unsure \/ HasData(q))
      OBVIOUS
    <3>2. C[q] = [cache[q] EXCEPT !.unsure = cache[q].unsure \/ HasData(q)]
      BY <1>1, <1>2, <2>2, <2>3 DEF PutBack
    <3>3. C[q] = [c EXCEPT !.unsure = w]
      BY <2>1, <3>1, <3>2, Zenon
    <3>4. /\ C[q] \in Query /\ C[q].rows = c.rows /\ C[q].count = c.count /\ C[q].next = c.next
          /\ C[q].stale = c.stale /\ C[q].behind = c.behind /\ C[q].unsure = w
      BY <3>3, QueryUnsure
    <3>5. c.count > 0 => w
      BY <2>1, <3>1 DEF HasData
    <3>. QED
      BY <2>1, <3>4, <3>5
  <2>4. CASE old.count # 0
    <3>1. PICK b \in BOOLEAN : b = (old.behind \/ old.stale \/ cache[q].stale \/ u.edited)
      OBVIOUS
    <3>2. PICK w \in BOOLEAN : w = (old.unsure \/ u.crossed \/ u.state = "applied")
      OBVIOUS
    <3>3. C[q] = [old EXCEPT !.stale = FALSE, !.error = FALSE,
                      !.behind = old.behind \/ old.stale \/ cache[q].stale \/ u.edited,
                      !.unsure = old.unsure \/ u.crossed \/ u.state = "applied"]
      BY <1>1, <1>2, <2>2, <2>4 DEF PutBack
    <3>4. C[q] = [old EXCEPT !.stale = FALSE, !.error = FALSE, !.behind = b, !.unsure = w]
      BY <3>1, <3>2, <3>3, Zenon
    <3>5. /\ C[q] \in Query /\ C[q].rows = old.rows /\ C[q].count = old.count
          /\ C[q].next = old.next /\ C[q].behind = b /\ C[q].unsure = w
      <4>1. PICK d : d = [old EXCEPT !.stale = FALSE, !.error = FALSE]
        OBVIOUS
      <4>2. d \in Query /\ d.rows = old.rows /\ d.count = old.count /\ d.next = old.next
        BY <4>1, QueryFresh
      <4>3. PICK e : e = [d EXCEPT !.behind = b]
        OBVIOUS
      <4>4. /\ e \in Query /\ e.rows = d.rows /\ e.count = d.count /\ e.next = d.next
            /\ e.behind = b
        BY <4>2, <4>3, QueryBehind
      <4>5. C[q] = [e EXCEPT !.unsure = w]
        BY <3>4, <4>1, <4>3
      <4>6. /\ C[q] \in Query /\ C[q].rows = e.rows /\ C[q].count = e.count
            /\ C[q].next = e.next /\ C[q].behind = e.behind /\ C[q].unsure = w
        BY <4>4, <4>5, QueryUnsure
      <4>. QED
        BY <4>2, <4>4, <4>6
    <3>6. ~b => ~old.behind /\ ~old.stale /\ ~u.edited
      BY <3>1
    <3>7. ~w => ~old.unsure /\ ~x
      BY <1>4, <3>2
    <3>8. old.count > 0
      <4>1. old.count \in Nat
        BY QueryFields
      <4>. QED
        BY <2>4, <4>1
    <3>. QED
      BY <2>2, <3>5, <3>6, <3>7, <3>8
  <2>. QED
    BY <2>3, <2>4
<1>6. C \in [Queries -> Query]
  BY <1>2, <1>5 DEF PutBack
<1>7. muts' = [n \in Slots |-> IF n = m THEN NoMut ELSE muts[n]]
      /\ UNCHANGED <<server, page, edit, undo>>
  BY DEF Refused
<1>8. undo' \subseteq Listings
  BY <1>0, <1>7 DEF TypeOK
<1>9. used' \in Used /\ used'.toggles = used.toggles
  <2>1. used \in Used /\ Count("errors")
    BY <1>0 DEF TypeOK, Used, Refused
  <2>. QED
    BY <2>1, Counted
<1>10. muts'[m].state = "idle" /\ \A n \in Slots \ {m} : muts'[n] = muts[n]
  BY <1>7 DEF NoMut
<1>11. ASSUME ~x, NEW r, AllMatch(r)
       PROVE  HeartsFit(r)'
  <2>1. ~u.crossed
    BY <1>4, <1>11
  <2>2. \A n \in Slots : muts'[n].state = "idle"
    BY <1>1, <1>10, <2>1 DEF MutFits
  <2>3. AllMatch(r)'
    BY <1>7, <1>11, ServerKept
  <2>. QED
    BY <2>2, <2>3 DEF HeartsFit, HeartFits, Carries, AllMatch
<1>12. ASSUME NEW q \in Queries \ {"mine"}, C[q].count > 0, ~C[q].unsure, NEW r \in {C[q].rows}
       PROVE  HeartsFit(r)'
  <2>1. /\ C[q].rows = u.before[q].rows /\ u.before[q].count > 0
        /\ ~u.before[q].unsure /\ ~x
    BY <1>5, <1>12
  <2>2. ~u.crossed /\ u.state = "sent"
    BY <1>1, <1>4, <2>1, MutFields
  <2>3. PICK b : b = u.before[q].rows
    OBVIOUS
  <2>4. AllMatch(b)
    BY <1>1, <2>1, <2>2, <2>3 DEF MutFits
  <2>. QED
    BY <1>11, <1>12, <2>1, <2>3, <2>4
<1>13. ASSUME NEW q \in Queries \ {"saved"}, Settled(q), C[q].count > 0, ~C[q].stale, ~C[q].behind
       PROVE  Holds(q, C[q].rows, C[q].next)
  <2>1. PICK c : c = cache[q] /\ CacheFits(q, c)
    BY DEF ListsInv, CachesFit
  <2>2. PICK r : r = C[q].rows
    OBVIOUS
  <2>3. PICK n : n = C[q].next
    OBVIOUS
  <2>4. CASE /\ C[q].rows = cache[q].rows /\ C[q].count = cache[q].count
             /\ C[q].next = cache[q].next /\ C[q].stale = cache[q].stale
             /\ C[q].behind = cache[q].behind
    <3>1. c.count > 0 /\ ~c.stale /\ ~c.behind /\ c.rows = r /\ c.next = n
      BY <1>13, <2>1, <2>2, <2>3, <2>4
    <3>2. Holds(q, r, n)
      BY <1>13, <2>1, <3>1 DEF CacheFits
    <3>. QED
      BY <2>2, <2>3, <3>2
  <2>5. CASE /\ C[q].rows = u.before[q].rows /\ u.before[q].count > 0
             /\ C[q].next = u.before[q].next
             /\ ~u.before[q].behind /\ ~u.before[q].stale /\ ~u.edited
    <3>1. Holds(q, r, n)
      BY <1>1, <2>2, <2>3, <2>5 DEF MutFits
    <3>. QED
      BY <2>2, <2>3, <3>1
  <2>. QED
    BY <1>5, <1>13, <2>4, <2>5
<1>14. UNCHANGED <<server, page, edit>>
  BY <1>7
<1>15. muts[m].state # "idle"
  BY <1>1
<1>. QED
  BY <1>3, <1>6, <1>7, <1>8, <1>9, <1>12, <1>13, <1>14, <1>15, EndKeeps

-----------------------------------------------------------------------------
(* The edits.                                                              *)

LEMMA StartEditKeeps ==
  ASSUME ListsInv, StartEdit
  PROVE  ListsInv'
<1>0. TypeOK
  BY DEF ListsInv
<1>1. UNCHANGED <<server, page, cache, fetch, undo>> /\ ~Editing
      /\ muts' = [m \in Slots |-> [muts[m] EXCEPT !.edited = muts[m].state # "idle"]]
  BY DEF StartEdit
<1>2. edit' \in Edit /\ edit'.what # "none" /\ edit'.id \in Listings /\ ~edit'.applied
  <2>1. PICK r \in Rows : r = cache["mine"].rows
    BY <1>0, QueryFields DEF TypeOK, Queries
  <2>2. PICK i \in DOMAIN r, delete \in BOOLEAN :
          edit' = [what |-> IF delete THEN "delete" ELSE IF r[i].on THEN "hide" ELSE "show",
                   id |-> r[i].id, applied |-> FALSE]
    BY <2>1 DEF StartEdit
  <2>3. r[i].id \in Listings
    BY RowsIds
  <2>. QED
    BY <2>2, <2>3 DEF Edit, Listings
<1>3. ASSUME NEW n \in Slots
      PROVE  /\ muts'[n] \in Mut /\ muts'[n].state = muts[n].state /\ muts'[n].id = muts[n].id
             /\ muts'[n].to = muts[n].to /\ muts'[n].before = muts[n].before
             /\ muts'[n].crossed = muts[n].crossed
             /\ muts[n].state # "idle" => muts'[n].edited
  <2>1. PICK u \in Mut : u = muts[n]
    BY <1>0 DEF TypeOK
  <2>2. PICK x \in BOOLEAN : x = (u.state # "idle")
    OBVIOUS
  <2>3. PICK v : v = [state |-> u.state, id |-> u.id, to |-> u.to, from |-> u.from,
                      before |-> u.before, crossed |-> u.crossed, edited |-> x]
    OBVIOUS
  <2>4. v \in Mut
    BY <2>3, MutFields, MutTyped
  <2>5. [u EXCEPT !.edited = x] = v
    BY <2>3, MutFields
  <2>6. muts'[n] = v
    <3>1. muts'[n] = [muts[n] EXCEPT !.edited = muts[n].state # "idle"]
      BY <1>1
    <3>. QED
      BY <2>1, <2>2, <2>5, <3>1, Zenon
  <2>7. /\ v.state = u.state /\ v.id = u.id /\ v.to = u.to /\ v.before = u.before
        /\ v.crossed = u.crossed /\ v.edited = x
    BY <2>3
  <2>8. u.state # "idle" => v.edited
    BY <2>2, <2>7
  <2>. QED
    BY <2>1, <2>4, <2>6, <2>7, <2>8
<1>4. muts' \in [Slots -> Mut]
  BY <1>1, <1>3
<1>5. used' \in Used /\ used'.toggles = used.toggles
  <2>1. used \in Used /\ Count("edits")
    BY <1>0 DEF TypeOK, Used, StartEdit
  <2>. QED
    BY <2>1, Counted
<1>6. TypeOK'
  BY <1>0, <1>1, <1>2, <1>4, <1>5 DEF TypeOK, Used, server
<1>7. Dated' /\ EditFits'
  <2>1. Pending' = Pending
    BY <1>3 DEF Pending, Sent, Slots
  <2>2. Dated'
    BY <1>1, <1>5, <2>1 DEF ListsInv, Dated, server
  <2>. QED
    BY <1>2, <2>2 DEF EditFits, Editing
<1>8. (Busy' <=> Busy) /\ \A q : (Settled(q)' <=> Settled(q))
  <2>1. ~edit.applied
    BY <1>1 DEF ListsInv, EditFits
  <2>. QED
    BY <1>2, <1>3, <2>1 DEF Busy, Settled
<1>9. \A q, r, n : (AllMatch(r) => AllMatch(r)') /\ (Holds(q, r, n) => Holds(q, r, n)')
  BY <1>1, ServerKept
<1>10. ASSUME NEW row, HeartFits(row)
       PROVE  HeartFits(row)'
  <2>1. \A n \in Slots : (Carries(n, row.id)' <=> Carries(n, row.id)) /\ (Disputed(n)' <=> Disputed(n))
    BY <1>3 DEF Carries, Disputed
  <2>2. Matches(row) => Matches(row)'
    BY <1>1 DEF Matches, Exists, server
  <2>. QED
    BY <1>3, <1>10, <2>1, <2>2 DEF HeartFits
<1>11. CachesFit'
  <2>1. ASSUME NEW q \in Queries, NEW c \in {cache[q]}
        PROVE  CacheFits(q, c)'
    <3>1. CacheFits(q, c)
      BY DEF ListsInv, CachesFit
    <3>2. PICK r : r = c.rows
      OBVIOUS
    <3>3. PICK x : x = c.next
      OBVIOUS
    <3>4. HeartsFit(r) => HeartsFit(r)'
      BY <1>10 DEF HeartsFit
    <3>. QED
      BY <1>8, <1>9, <3>1, <3>2, <3>3, <3>4 DEF CacheFits
  <2>. QED
    BY <1>1, <2>1 DEF CachesFit
<1>12. FetchesFit'
  <2>1. ASSUME NEW q \in Queries, NEW f \in {fetch[q]}
        PROVE  FetchFits(q, f)'
    <3>1. FetchFits(q, f)
      BY DEF ListsInv, FetchesFit
    <3>2. PICK r : r = f.rows
      OBVIOUS
    <3>3. PICK x : x = f.next
      OBVIOUS
    <3>. QED
      BY <1>8, <1>9, <3>1, <3>2, <3>3 DEF FetchFits
  <2>. QED
    BY <1>1, <2>1 DEF FetchesFit
<1>13. MutsFit'
  <2>1. ASSUME NEW n \in Slots, NEW v \in {muts'[n]}
        PROVE  MutFits(n, v)'
    <3>1. PICK u : u = muts[n] /\ MutFits(n, u)
      BY DEF ListsInv, MutsFit
    <3>2. /\ v.state = u.state /\ v.id = u.id /\ v.before = u.before /\ v.crossed = u.crossed
          /\ v.state # "idle" => v.edited
      BY <1>3, <3>1
    <3>3. \A k \in Slots : muts'[k].state = muts[k].state
      BY <1>3
    <3>. QED
      BY <1>9, <3>1, <3>2, <3>3 DEF MutFits
  <2>. QED
    BY <2>1 DEF MutsFit
<1>. QED
  BY <1>6, <1>7, <1>11, <1>12, <1>13 DEF ListsInv

LEMMA ApplyEditKeeps ==
  ASSUME ListsInv, ApplyEdit
  PROVE  ListsInv'
<1>0. TypeOK
  BY DEF ListsInv
<1>1. /\ Editing /\ Exists(edit.id) /\ edit' = [edit EXCEPT !.applied = TRUE]
      /\ UNCHANGED <<page, cache, fetch, muts, undo, used>>
  BY DEF ApplyEdit
<1>2. PICK l \in Listings : l = edit.id
  BY <1>1 DEF ListsInv, EditFits
<1>3. edit' \in Edit /\ edit'.what = edit.what /\ edit'.id = l /\ edit'.applied
  BY <1>0, <1>1, <1>2 DEF TypeOK, Edit
<1>4. PICK s \in {"on", "off", "gone"} :
        /\ status' = [status EXCEPT ![l] = s] /\ (s = "gone" <=> edit.what = "delete")
  <2>1. PICK s : s = IF edit.what = "delete" THEN "gone" ELSE IF edit.what = "show" THEN "on" ELSE "off"
    OBVIOUS
  <2>. QED
    BY <1>2, <2>1 DEF ApplyEdit
<1>5. savedAt' = IF edit.what = "delete" THEN [savedAt EXCEPT ![l] = 0] ELSE savedAt
  BY <1>2 DEF ApplyEdit
<1>6. savedAt \in Dates /\ MaxToggles \in Nat
  BY <1>0 DEF TypeOK, Dates
<1>7. savedAt' \in Dates /\ \A k \in Listings : savedAt'[k] = savedAt[k] \/ savedAt'[k] = 0
  <2>1. 0 \in 0 .. MaxToggles + 1
    BY <1>6
  <2>. QED
    BY <1>5, <1>6, <2>1 DEF Dates
<1>8. status' \in [Listings -> {"on", "off", "gone"}]
  BY <1>0, <1>4 DEF TypeOK
<1>9. TypeOK'
  BY <1>0, <1>1, <1>3, <1>7, <1>8 DEF TypeOK, Dates
<1>10. Dated'
  <2>1. Pending' = Pending /\ Pending \in Nat
    BY <1>1 DEF Pending, Sent
  <2>2. ASSUME NEW k \in Listings
        PROVE  savedAt'[k] + Pending' <= used'.toggles + 1
    <3>1. savedAt[k] \in Nat /\ savedAt[k] + Pending <= used.toggles + 1 /\ used.toggles \in Nat
      BY <1>0, <1>6 DEF ListsInv, Dated, Dates, TypeOK
    <3>. QED
      BY <1>1, <1>7, <2>1, <3>1
  <2>. QED
    BY <2>2 DEF Dated
<1>11. EditFits' /\ Editing'
  BY <1>1, <1>2, <1>3 DEF EditFits, Editing
<1>12. ASSUME NEW row, row.id \in Listings, Matches(row)
       PROVE  Matches(row)'
  <2>1. CASE row.id = l /\ edit.what = "delete"
    <3>1. status'[l] = "gone"
      BY <1>0, <1>4, <2>1 DEF TypeOK
    <3>. QED
      BY <2>1, <3>1 DEF Matches, Exists
  <2>2. CASE row.id = l /\ edit.what # "delete"
    BY <1>1, <1>2, <1>5, <1>12, <2>2 DEF Matches
  <2>3. CASE row.id # l
    <3>1. status'[row.id] = status[row.id] /\ savedAt'[row.id] = savedAt[row.id]
      BY <1>0, <1>4, <1>5, <1>6, <1>12, <2>3 DEF TypeOK, Dates
    <3>. QED
      BY <1>12, <3>1 DEF Matches, Exists
  <2>. QED
    BY <2>1, <2>2, <2>3
<1>13. ASSUME NEW r \in Rows
       PROVE  (AllMatch(r) => AllMatch(r)') /\ (HeartsFit(r) => HeartsFit(r)')
  <2>1. \A i \in DOMAIN r : r[i].id \in Listings
    BY RowsIds
  <2>2. ASSUME NEW row, row.id \in Listings, HeartFits(row)
        PROVE  HeartFits(row)'
    <3>1. \A n \in Slots : (Carries(n, row.id)' <=> Carries(n, row.id)) /\ (Disputed(n)' <=> Disputed(n))
      BY <1>1 DEF Carries, Disputed
    <3>. QED
      BY <1>1, <1>12, <2>2, <3>1 DEF HeartFits
  <2>. QED
    BY <1>12, <2>1, <2>2 DEF AllMatch, HeartsFit
<1>14. \A q : ~Settled(q)'
  BY <1>3 DEF Settled
<1>15. Busy' <=> Busy
  BY <1>1 DEF Busy
<1>16. CachesFit'
  <2>1. ASSUME NEW q \in Queries, NEW c \in {cache[q]}
        PROVE  CacheFits(q, c)'
    <3>1. CacheFits(q, c) /\ c \in Query
      BY <1>0 DEF ListsInv, CachesFit, TypeOK
    <3>2. PICK r \in Rows : r = c.rows
      BY <3>1, QueryFields
    <3>. QED
      BY <1>13, <1>14, <3>1, <3>2 DEF CacheFits
  <2>. QED
    BY <1>1, <2>1 DEF CachesFit
<1>17. FetchesFit'
  <2>1. ASSUME NEW q \in Queries, NEW f \in {fetch[q]}
        PROVE  FetchFits(q, f)'
    <3>1. FetchFits(q, f) /\ f \in Fetch
      BY <1>0 DEF ListsInv, FetchesFit, TypeOK
    <3>2. PICK r \in Rows : r = f.rows
      BY <3>1, FetchFields
    <3>. QED
      BY <1>13, <1>14, <1>15, <3>1, <3>2 DEF FetchFits
  <2>. QED
    BY <1>1, <2>1 DEF FetchesFit
<1>18. MutsFit'
  <2>1. ASSUME NEW n \in Slots, NEW u \in {muts[n]}
        PROVE  MutFits(n, u)'
    <3>1. MutFits(n, u) /\ u \in Mut
      BY <1>0 DEF ListsInv, MutsFit, TypeOK
    <3>2. \A q \in Queries : u.before[q].rows \in Rows
      BY <3>1, MutFields, QueryFields
    <3>3. \A q \in Queries : AllMatch(u.before[q].rows) => AllMatch(u.before[q].rows)'
      <4>1. ASSUME NEW q \in Queries
            PROVE  AllMatch(u.before[q].rows) => AllMatch(u.before[q].rows)'
        <5>1. PICK r \in Rows : r = u.before[q].rows
          BY <3>2
        <5>. QED
          BY <1>13, <5>1
      <4>. QED
        BY <4>1
    <3>4. \A k \in Slots : muts'[k] = muts[k]
      BY <1>1
    <3>. QED
      BY <1>1, <1>11, <3>1, <3>3, <3>4 DEF MutFits
  <2>. QED
    BY <1>1, <2>1 DEF MutsFit
<1>. QED
  BY <1>9, <1>10, <1>11, <1>16, <1>17, <1>18 DEF ListsInv

LEMMA EditDoneKeeps ==
  ASSUME ListsInv, EditDone
  PROVE  ListsInv'
<1>0. TypeOK
  BY DEF ListsInv
<1>1. /\ edit.applied /\ edit' = NoEdit /\ UNCHANGED <<server, page, muts, undo, used>>
  BY DEF EditDone
<1>2. PICK C : C = IF edit.what = "delete" /\ edit.id = Opened
                   THEN [cache EXCEPT !["detail"] = NoData] ELSE cache
  OBVIOUS
<1>3. Invalidate(Queries, C)
  BY <1>2 DEF EditDone
<1>4. NoData \in Query /\ NoData.count = 0
  BY RowsEmpty DEF NoData, Query
<1>5. C \in [Queries -> Query] /\ \A q \in Queries : C[q] = cache[q] \/ C[q].count = 0
  BY <1>0, <1>2, <1>4 DEF TypeOK
<1>6. ASSUME NEW q \in Queries
      PROVE  /\ cache'[q] \in Query /\ cache'[q].rows = C[q].rows
             /\ cache'[q].count = C[q].count /\ cache'[q].unsure = C[q].unsure
             /\ cache'[q].stale
  <2>1. cache'[q] = [C[q] EXCEPT !.stale = TRUE]
    BY <1>3 DEF Invalidate
  <2>. QED
    BY <1>5, <2>1, QueryStale
<1>7. cache' \in [Queries -> Query]
  BY <1>3, <1>6 DEF Invalidate
<1>8. NoEdit \in Edit /\ ~NoEdit.applied /\ NoEdit.what = "none"
  BY DEF NoEdit, Edit
<1>9. TypeOK'
  <2>1. fetch' \in [Queries -> Fetch]
    <3>1. Queries \in SUBSET Queries
      OBVIOUS
    <3>. QED
      BY <1>0, <1>3, <3>1, ReloadsTyped
  <2>. QED
    BY <1>0, <1>1, <1>7, <1>8, <2>1 DEF TypeOK, server
<1>10. Dated' /\ EditFits' /\ ~Editing'
  BY <1>1, <1>8 DEF ListsInv, Dated, Pending, Sent, server, EditFits, Editing
<1>11. Busy' <=> Busy
  BY <1>1 DEF Busy
<1>12. \A q, r, n : (AllMatch(r) => AllMatch(r)') /\ (Holds(q, r, n) => Holds(q, r, n)')
  BY <1>1, ServerKept
<1>13. CachesFit'
  <2>1. ASSUME NEW q \in Queries, NEW d \in {cache'[q]}
        PROVE  CacheFits(q, d)'
    <3>1. PICK c : c = cache[q] /\ CacheFits(q, c)
      BY DEF ListsInv, CachesFit
    <3>2. PICK r : r = c.rows
      OBVIOUS
    <3>3. HeartsFit(r) => HeartsFit(r)'
      BY <1>1 DEF server, HeartsFit, HeartFits, Carries, Disputed, Matches, Exists
    <3>4. d.stale /\ d.rows = C[q].rows /\ d.count = C[q].count /\ d.unsure = C[q].unsure
      BY <1>6
    <3>5. CASE C[q].count = 0
      BY <3>4, <3>5 DEF CacheFits
    <3>6. CASE C[q] = cache[q]
      BY <3>1, <3>2, <3>3, <3>4, <3>6 DEF CacheFits
    <3>. QED
      BY <1>5, <3>5, <3>6
  <2>. QED
    BY <2>1 DEF CachesFit
<1>14. FetchesFit'
  <2>1. ASSUME NEW q \in Queries, NEW g \in {fetch'[q]}
        PROVE  FetchFits(q, g)'
    <3>1. PICK f : f = fetch[q] /\ FetchFits(q, f)
      BY DEF ListsInv, FetchesFit
    <3>2. Queries \in SUBSET Queries
      OBVIOUS
    <3>3. CASE fetch'[q].kind = "none"
      BY <3>3 DEF FetchFits
    <3>4. CASE /\ fetch'[q].behind /\ fetch'[q].unsure
               /\ fetch'[q].kind = fetch[q].kind /\ fetch'[q].rows = fetch[q].rows
               /\ fetch'[q].count = fetch[q].count /\ fetch'[q].next = fetch[q].next
      BY <3>1, <3>4 DEF FetchFits
    <3>5. CASE fetch'[q] \in NoFetchYet /\ (fetch'[q].unsure <=> Busy')
      <4>1. g \in NoFetchYet /\ (g.unsure <=> Busy')
        BY <3>5
      <4>2. g.rows = <<>> /\ g.count = 0 /\ g.next = 0 /\ DOMAIN g.rows = {}
        BY <4>1, EmptySeq DEF NoFetchYet
      <4>3. PICK e : e = g.rows
        OBVIOUS
      <4>4. AllMatch(e)'
        BY <4>2, <4>3 DEF AllMatch
      <4>. QED
        BY <4>1, <4>2, <4>3, <4>4 DEF FetchFits
    <3>. QED
      BY <1>0, <1>3, <3>2, <3>3, <3>4, <3>5, Reloads
  <2>. QED
    BY <2>1 DEF FetchesFit
<1>15. MutsFit'
  <2>1. ASSUME NEW n \in Slots, NEW u \in {muts[n]}
        PROVE  MutFits(n, u)'
    <3>1. MutFits(n, u) /\ \A k \in Slots : muts'[k] = muts[k]
      BY <1>1 DEF ListsInv, MutsFit
    <3>2. u.state # "idle" => u.edited
      BY <1>1, <3>1 DEF MutFits, ListsInv, EditFits
    <3>. QED
      BY <1>10, <1>12, <3>1, <3>2 DEF MutFits
  <2>. QED
    BY <1>1, <2>1 DEF MutsFit
<1>. QED
  BY <1>9, <1>10, <1>13, <1>14, <1>15 DEF ListsInv

LEMMA FetchBehind ==
  ASSUME NEW f \in Fetch, NEW b \in BOOLEAN
  PROVE  LET g == [f EXCEPT !.behind = b] IN
         /\ g \in Fetch /\ g.behind = b /\ g.unsure = f.unsure /\ g.kind = f.kind
         /\ g.rows = f.rows /\ g.count = f.count /\ g.next = f.next
<1>1. PICK g : g = [f EXCEPT !.behind = b]
  OBVIOUS
<1>2. g = [kind |-> f.kind, rows |-> f.rows, count |-> f.count, next |-> f.next,
           need |-> f.need, behind |-> b, unsure |-> f.unsure]
  <2>1. f = [kind |-> f.kind, rows |-> f.rows, count |-> f.count, next |-> f.next,
             need |-> f.need, behind |-> f.behind, unsure |-> f.unsure]
    BY FetchFields
  <2>. QED
    BY <1>1, <2>1
<1>3. g \in Fetch
  BY <1>2, FetchFields, FetchTyped
<1>. QED
  BY <1>1, <1>2, <1>3

LEMMA EditFailsKeeps ==
  ASSUME ListsInv, EditFails
  PROVE  ListsInv'
<1>0. TypeOK
  BY DEF ListsInv
<1>1. Editing /\ edit' = NoEdit /\ UNCHANGED <<server, page, muts, undo>>
  BY DEF EditFails
<1>2. PICK a \in BOOLEAN : a = edit.applied
  BY <1>0 DEF TypeOK, Edit
<1>3. ASSUME NEW q \in Queries
      PROVE  /\ cache'[q] \in Query /\ cache'[q].rows = cache[q].rows
             /\ cache'[q].count = cache[q].count /\ cache'[q].next = cache[q].next
             /\ cache'[q].stale = cache[q].stale /\ cache'[q].unsure = cache[q].unsure
             /\ ~cache'[q].behind => ~cache[q].behind /\ ~a
  <2>1. PICK c \in Query : c = cache[q]
    BY <1>0 DEF TypeOK
  <2>2. PICK w \in BOOLEAN : w = (c.behind \/ a)
    OBVIOUS
  <2>3. cache'[q] = [c EXCEPT !.behind = w]
    <3>1. cache'[q] = [cache[q] EXCEPT !.behind = cache[q].behind \/ edit.applied]
      BY DEF EditFails
    <3>. QED
      BY <1>2, <2>1, <2>2, <3>1, Zenon
  <2>4. /\ cache'[q] \in Query /\ cache'[q].rows = c.rows /\ cache'[q].count = c.count
        /\ cache'[q].next = c.next /\ cache'[q].stale = c.stale
        /\ cache'[q].behind = w /\ cache'[q].unsure = c.unsure
    BY <2>3, QueryBehind
  <2>5. ~w => ~c.behind /\ ~a
    BY <2>2
  <2>. QED
    BY <2>1, <2>4, <2>5
<1>4. ASSUME NEW q \in Queries
      PROVE  /\ fetch'[q] \in Fetch /\ fetch'[q].rows = fetch[q].rows
             /\ fetch'[q].kind = fetch[q].kind /\ fetch'[q].count = fetch[q].count
             /\ fetch'[q].next = fetch[q].next /\ fetch'[q].unsure = fetch[q].unsure
             /\ fetch[q].kind # "none" /\ ~fetch'[q].behind => ~fetch[q].behind /\ ~a
  <2>1. PICK f \in Fetch : f = fetch[q]
    BY <1>0 DEF TypeOK
  <2>2. PICK w \in BOOLEAN : w = (f.kind # "none" /\ (f.behind \/ a))
    OBVIOUS
  <2>3. fetch'[q] = [f EXCEPT !.behind = w]
    <3>1. fetch'[q] = [fetch[q] EXCEPT !.behind = Fetching(q) /\ (fetch[q].behind \/ edit.applied)]
      BY DEF EditFails
    <3>. QED
      BY <1>2, <2>1, <2>2, <3>1, Zenon DEF Fetching
  <2>4. /\ fetch'[q] \in Fetch /\ fetch'[q].rows = f.rows /\ fetch'[q].count = f.count
        /\ fetch'[q].next = f.next /\ fetch'[q].kind = f.kind
        /\ fetch'[q].behind = w /\ fetch'[q].unsure = f.unsure
    BY <2>3, FetchBehind
  <2>5. f.kind # "none" /\ ~w => ~f.behind /\ ~a
    BY <2>2
  <2>. QED
    BY <2>1, <2>4, <2>5
<1>5. cache' \in [Queries -> Query] /\ fetch' \in [Queries -> Fetch]
  BY <1>3, <1>4 DEF EditFails
<1>6. used' \in Used /\ used'.toggles = used.toggles
  <2>1. used \in Used /\ Count("errors")
    BY <1>0 DEF TypeOK, Used, EditFails
  <2>. QED
    BY <2>1, Counted
<1>7. NoEdit \in Edit /\ ~NoEdit.applied /\ NoEdit.what = "none"
  BY DEF NoEdit, Edit
<1>8. TypeOK'
  BY <1>0, <1>1, <1>5, <1>6, <1>7 DEF TypeOK, Used, server
<1>9. Dated' /\ EditFits' /\ ~Editing'
  BY <1>1, <1>6, <1>7 DEF ListsInv, Dated, Pending, Sent, server, EditFits, Editing
<1>10. Busy' <=> Busy
  BY <1>1 DEF Busy
<1>11. \A q, r, n : (AllMatch(r) => AllMatch(r)') /\ (Holds(q, r, n) => Holds(q, r, n)')
  BY <1>1, ServerKept
<1>12. \A q : ~a /\ Settled(q)' => Settled(q)
  BY <1>1, <1>2 DEF Settled
<1>13. CachesFit'
  <2>1. ASSUME NEW q \in Queries, NEW d \in {cache'[q]}
        PROVE  CacheFits(q, d)'
    <3>1. PICK c : c = cache[q] /\ CacheFits(q, c)
      BY DEF ListsInv, CachesFit
    <3>2. PICK r : r = c.rows
      OBVIOUS
    <3>3. PICK n : n = c.next
      OBVIOUS
    <3>4. HeartsFit(r) => HeartsFit(r)'
      BY <1>1 DEF server, HeartsFit, HeartFits, Carries, Disputed, Matches, Exists
    <3>5. /\ d.rows = r /\ d.count = c.count /\ d.next = n /\ d.stale = c.stale
          /\ d.unsure = c.unsure /\ (~d.behind => ~c.behind /\ ~a)
      BY <1>3, <3>1, <3>2, <3>3
    <3>. QED
      BY <1>11, <1>12, <3>1, <3>2, <3>3, <3>4, <3>5 DEF CacheFits
  <2>. QED
    BY <2>1 DEF CachesFit
<1>14. FetchesFit'
  <2>1. ASSUME NEW q \in Queries, NEW g \in {fetch'[q]}
        PROVE  FetchFits(q, g)'
    <3>1. PICK f : f = fetch[q] /\ FetchFits(q, f)
      BY DEF ListsInv, FetchesFit
    <3>2. PICK r : r = f.rows
      OBVIOUS
    <3>3. PICK n : n = f.next
      OBVIOUS
    <3>4. /\ g.rows = r /\ g.count = f.count /\ g.next = n /\ g.kind = f.kind
          /\ g.unsure = f.unsure /\ (f.kind # "none" /\ ~g.behind => ~f.behind /\ ~a)
      BY <1>4, <3>1, <3>2, <3>3
    <3>. QED
      BY <1>10, <1>11, <1>12, <3>1, <3>2, <3>3, <3>4 DEF FetchFits
  <2>. QED
    BY <2>1 DEF FetchesFit
<1>15. MutsFit'
  <2>1. ASSUME NEW n \in Slots, NEW u \in {muts[n]}
        PROVE  MutFits(n, u)'
    <3>1. MutFits(n, u) /\ \A k \in Slots : muts'[k] = muts[k]
      BY <1>1 DEF ListsInv, MutsFit
    <3>2. u.state # "idle" => u.edited
      BY <1>1, <3>1 DEF MutFits
    <3>. QED
      BY <1>9, <1>11, <3>1, <3>2 DEF MutFits
  <2>. QED
    BY <1>1, <2>1 DEF MutsFit
<1>. QED
  BY <1>8, <1>9, <1>13, <1>14, <1>15 DEF ListsInv

-----------------------------------------------------------------------------
(* The invariant holds.                                                    *)

LEMMA InitKeeps ==
  ASSUME Init
  PROVE  ListsInv
<1>1. /\ status = [l \in Listings |-> "on"] /\ page = "search"
      /\ savedAt = [l \in Listings |-> IF l = Opened THEN 1 ELSE 0]
      /\ cache = [q \in Queries |-> NoData] /\ muts = [m \in Slots |-> NoMut]
      /\ fetch = [q \in Queries |-> IF q = "latest" THEN LoadAll(q) ELSE NoFetch]
      /\ edit = NoEdit /\ undo = {}
      /\ used = [toggles |-> 0, edits |-> 0, visits |-> 0, errors |-> 0]
  BY DEF Init
<1>2. NoData \in Query /\ NoData.count = 0
  BY RowsEmpty DEF NoData, Query
<1>3. NoMut \in Mut /\ NoMut.state = "idle"
  <2>1. PICK b \in [Queries -> Query] : b = [q \in Queries |-> NoData]
    BY <1>2
  <2>2. NoMut = [state |-> "idle", id |-> 0, to |-> FALSE, from |-> "search",
                 before |-> b, crossed |-> FALSE, edited |-> FALSE]
    BY <2>1 DEF NoMut
  <2>3. 0 \in 0 .. N /\ "search" \in Pages
    BY DEF Pages
  <2>. QED
    BY <2>2, <2>3, MutTyped
<1>4. NoEdit \in Edit /\ ~NoEdit.applied /\ NoEdit.what = "none"
  BY DEF NoEdit, Edit
<1>5. ~Busy
  BY <1>1, <1>3 DEF Busy
<1>6. LoadAll("latest") \in NoFetchYet
  <2>1. ~HasData("latest")
    BY <1>1, <1>2 DEF HasData, Queries
  <2>2. PICK u \in BOOLEAN : u = Busy
    BY DEF Busy
  <2>3. LoadAll("latest") = [NoFetch EXCEPT !.kind = "all", !.unsure = u, !.need = 1]
    <3>1. LoadAll("latest") = [NoFetch EXCEPT !.kind = "all", !.unsure = Busy, !.need = 1]
      BY <2>1 DEF LoadAll
    <3>. QED
      BY <2>2, <3>1, Zenon
  <2>4. PICK k \in Nat : k = 1
    OBVIOUS
  <2>5. LoadAll("latest") = [kind |-> "all", rows |-> <<>>, count |-> 0, next |-> 0, need |-> k,
                             behind |-> FALSE, unsure |-> u]
    BY <2>3, <2>4 DEF NoFetch
  <2>6. [kind |-> "all", rows |-> <<>>, count |-> 0, next |-> 0, need |-> k,
         behind |-> FALSE, unsure |-> u] \in NoFetchYet
    BY DEF NoFetchYet
  <2>. QED
    BY <2>5, <2>6, Zenon
<1>7. ASSUME NEW q \in Queries
      PROVE  fetch[q] \in Fetch /\ FetchFits(q, fetch[q])
  <2>1. CASE q = "latest"
    <3>1. PICK f : f = LoadAll("latest")
      OBVIOUS
    <3>2. f \in Fetch /\ FetchFits(q, f)
      BY <1>5, <1>6, <3>1, LoadFits
    <3>. QED
      BY <1>1, <2>1, <3>1, <3>2
  <2>2. CASE q # "latest"
    BY <1>1, <2>2, NoFetchFits
  <2>. QED
    BY <2>1, <2>2
<1>8. \A l \in Listings : savedAt[l] \in 0 .. MaxToggles + 1 /\ savedAt[l] <= 1
  BY <1>1 DEF Listings
<1>9. TypeOK
  <2>1. fetch \in [Queries -> Fetch]
    BY <1>1, <1>7
  <2>2. savedAt \in [Listings -> 0 .. MaxToggles + 1]
    BY <1>1, <1>8
  <2>3. used \in [toggles : 0 .. MaxToggles, edits : 0 .. MaxEdits,
                  visits : 0 .. MaxVisits, errors : 0 .. MaxErrors]
    BY <1>1
  <2>4. status \in [Listings -> {"on", "off", "gone"}] /\ page \in Pages
    BY <1>1 DEF Pages
  <2>. QED
    BY <1>1, <1>2, <1>3, <1>4, <2>1, <2>2, <2>3, <2>4 DEF TypeOK
<1>10. Dated
  <2>1. Pending = 0
    BY <1>1, <1>3 DEF Pending, Sent, Slots
  <2>2. used.toggles = 0
    BY <1>1
  <2>. QED
    BY <1>8, <2>1, <2>2 DEF Dated
<1>11. EditFits
  BY <1>1, <1>4 DEF EditFits, Editing
<1>12. CachesFit /\ MutsFit
  BY <1>1, <1>2, <1>3 DEF CachesFit, CacheFits, MutsFit, MutFits
<1>13. FetchesFit
  BY <1>7 DEF FetchesFit
<1>. QED
  BY <1>9, <1>10, <1>11, <1>12, <1>13 DEF ListsInv

LEMMA StepKeeps ==
  ASSUME ListsInv, [Next]_vars
  PROVE  ListsInv'
<1>1. ASSUME NEW p \in Pages, Open(p)
      PROVE  ListsInv'
  BY <1>1, OpenKeeps
<1>2. ASSUME NEW q \in Queries, LoadNext(q)
      PROVE  ListsInv'
  BY <1>2, LoadNextKeeps
<1>3. ASSUME NEW q \in Queries, Retry(q)
      PROVE  ListsInv'
  BY <1>3, RetryKeeps
<1>4. ASSUME NEW q \in Queries, ReadPage(q)
      PROVE  ListsInv'
  BY <1>4, ReadPageKeeps
<1>5. ASSUME NEW q \in Queries, Deliver(q)
      PROVE  ListsInv'
  BY <1>5, DeliverKeeps
<1>6. ASSUME NEW q \in Queries, FetchFails(q)
      PROVE  ListsInv'
  BY <1>6, FetchFailsKeeps
<1>7. ASSUME NEW m \in Slots, NEW l \in Listings, Undo(m, l)
      PROVE  ListsInv'
  BY <1>7, UndoKeeps
<1>8. ASSUME NEW m \in Slots, Toggle(m)
      PROVE  ListsInv'
  BY <1>8, ToggleKeeps
<1>9. ASSUME NEW m \in Slots, Apply(m)
      PROVE  ListsInv'
  BY <1>9, ApplyKeeps
<1>10. ASSUME NEW m \in Slots, Accepted(m)
       PROVE  ListsInv'
  BY <1>10, AcceptedKeeps
<1>11. ASSUME NEW m \in Slots, Refused(m)
       PROVE  ListsInv'
  BY <1>11, RefusedKeeps
<1>12. CASE StartEdit
  BY <1>12, StartEditKeeps
<1>13. CASE ApplyEdit
  BY <1>13, ApplyEditKeeps
<1>14. CASE EditDone
  BY <1>14, EditDoneKeeps
<1>15. CASE EditFails
  BY <1>15, EditFailsKeeps
<1>16. CASE UNCHANGED vars
  <2>1. /\ UNCHANGED <<server, muts, edit>> /\ page' = page /\ used' = used /\ undo' = undo
        /\ cache' = cache /\ fetch' = fetch
    BY <1>16 DEF vars
  <2>2. /\ page \in Pages /\ used \in Used /\ cache \in [Queries -> Query]
        /\ fetch \in [Queries -> Fetch]
    BY DEF ListsInv, TypeOK, Used
  <2>3. /\ \A q \in Queries : \A c \in {cache'[q]} : CacheFits(q, c)
        /\ \A q \in Queries : \A f \in {fetch'[q]} : FetchFits(q, f)
    BY <2>1 DEF ListsInv, CachesFit, FetchesFit
  <2>. QED
    BY <2>1, <2>2, <2>3, Quiet
<1>. QED
  BY <1>1, <1>2, <1>3, <1>4, <1>5, <1>6, <1>7, <1>8, <1>9, <1>10, <1>11, <1>12, <1>13,
     <1>14, <1>15, <1>16 DEF Next

LEMMA Always == Spec => []ListsInv
<1>1. Init => ListsInv
  BY InitKeeps
<1>2. ListsInv /\ [Next]_vars => ListsInv'
  BY StepKeeps
<1>. QED
  BY <1>1, <1>2, PTL DEF Spec

\* What the browser and the server hold always has the shape the code gives it,
\* and the dates of the favourites stay within the changes made: the bound of
\* the hearts pressed is also one of the server's table.
THEOREM ListsTyping == Spec => []TypeOK
<1>1. ListsInv => TypeOK
  BY DEF ListsInv
<1>. QED
  BY <1>1, Always, PTL

\* Whatever hearts are pressed, put back or taken back while the lists load, are
\* read again or lose their answers: when nothing is on its way, every heart the
\* cache holds is the server's, but for those useSetListingSaved cannot know.
THEOREM HeartsAreExplained == Spec => []HeartsExplained
<1>1. ASSUME ListsInv
      PROVE  HeartsExplained
  <2>1. ASSUME NEW q \in Queries \ {"mine"}, AtRest(q), ~cache[q].unsure
        PROVE  AllMatch(cache[q].rows)
    <3>1. PICK c : c = cache[q] /\ CacheFits(q, c)
      BY <1>1 DEF ListsInv, CachesFit
    <3>2. HeartsFit(c.rows) /\ ~Busy
      BY <2>1, <3>1 DEF AtRest, HasData, CacheFits
    <3>. QED
      BY <3>1, <3>2, IdleHearts
  <2>. QED
    BY <2>1 DEF HeartsExplained, AllMatch, Matches
<1>. QED
  BY <1>1, Always, PTL

\* The rows of a list read to its end are those the server would answer, in
\* its order, each once, however its pages were read, re-read and put back.
THEOREM ListsAreWhole == Spec => []ListsWhole
<1>1. ASSUME ListsInv
      PROVE  ListsWhole
  <2>1. SUFFICES ASSUME NEW q \in Queries, AtRest(q), cache[q].next = 0,
                        ~cache[q].stale, ~cache[q].behind
                 PROVE  [i \in DOMAIN cache[q].rows |-> cache[q].rows[i].id] = After(q, 0)
    BY DEF ListsWhole
  <2>2. PICK c \in Query : c = cache[q] /\ CacheFits(q, c)
    BY <1>1 DEF ListsInv, TypeOK, CachesFit
  <2>3. PICK r \in Rows : r = c.rows
    BY QueryFields
  <2>4. Settled(q)
    BY <1>1, <2>1 DEF AtRest, Busy, Settled, ListsInv, EditFits
  <2>5. Holds(q, r, 0)
    BY <2>1, <2>2, <2>3, <2>4 DEF AtRest, HasData, CacheFits
  <2>6. savedAt \in Dates
    BY <1>1 DEF ListsInv, TypeOK, Dates
  <2>7. PICK S : S = Beyond(q, 0)
    OBVIOUS
  <2>8. S = Upto(q, 0) /\ S \in SUBSET Listings
    BY <2>6, <2>7, Keys DEF Beyond, Upto
  <2>9. PICK K : K = KeyOf(q)
    OBVIOUS
  <2>10. K \in [Listings -> Nat] /\ \A l \in Listings : K[l] = Key(q, l)
    BY <2>6, <2>9, Ordered DEF KeyOf
  <2>11. PICK s : s = [i \in DOMAIN r |-> r[i].id]
    OBVIOUS
  <2>12. PICK k \in Nat : DOMAIN r = 1 .. k
    BY LenProperties DEF Rows
  <2>13. s \in [1 .. k -> S] /\ \A i \in 1 .. k : s[i] = r[i].id
    BY <2>5, <2>8, <2>11, <2>12 DEF Holds
  <2>14. s \in Seq(S) /\ Len(s) = k
    BY <2>13, IsASeq
  <2>15. \A x \in S : \E i \in 1 .. Len(s) : s[i] = x
    BY <2>5, <2>8, <2>12, <2>13, <2>14 DEF Holds
  <2>16. \A i, j \in 1 .. Len(s) : i < j => K[s[i]] < K[s[j]]
    <3>1. ASSUME NEW i \in 1 .. k, NEW j \in 1 .. k, i < j
          PROVE  K[s[i]] < K[s[j]]
      <4>1. Key(q, r[i].id) < Key(q, r[j].id)
        BY <2>5, <2>12, <3>1 DEF Holds
      <4>2. s[i] \in Listings /\ s[j] \in Listings /\ s[i] = r[i].id /\ s[j] = r[j].id
        BY <2>8, <2>13
      <4>. QED
        BY <2>10, <4>1, <4>2
    <3>. QED
      BY <2>14, <3>1
  <2>17. Enumerates(s, S, K)
    BY <2>14, <2>15, <2>16 DEF Enumerates
  <2>18. PICK a : a = After(q, 0)
    OBVIOUS
  <2>19. Enumerates(a, S, K)
    BY <2>6, <2>7, <2>9, <2>18, AfterSorted
  <2>20. s = a
    BY <2>8, <2>10, <2>17, <2>19, OneOrder
  <2>. QED
    BY <2>2, <2>3, <2>11, <2>18, <2>20
<1>. QED
  BY <1>1, Always, PTL
=============================================================================
