-------------------------- MODULE FlvTags_proofs --------------------------
(***************************************************************************)
(* About MemIndex and FlvTags, for both modes of the demuxer: what         *)
(* the lookup in the index returns, that the demuxer's record keeps its    *)
(* type, and what a tag does to what has gone out of a pad.                *)
(***************************************************************************)
EXTENDS FlvTags, FiniteSetTheorems, WellFoundedInduction, TLAPS

(***************************************************************************)
(* Induction over the natural numbers, without an operator for the         *)
(* hypothesis: what fails for some number fails for a least one.           *)
(***************************************************************************)
LEMMA LeastNumber ==
  ASSUME NEW T, T \subseteq Nat, T # {}
  PROVE  \E n \in T : \A k \in T : n <= k
<1>1. \A x, y \in Nat : <<y, x>> \in OpToRel(<, Nat) <=> y < x
  BY DEF OpToRel
<1>2. PICK R : IsWellFoundedOn(R, Nat) /\ \A x, y \in Nat : <<y, x>> \in R <=> y < x
  BY <1>1, NatLessThanWellFounded, Zenon
<1>3. \E x \in T : \A y \in T : ~(<<y, x>> \in R)
  BY <1>2, WFMin
<1>4. PICK n \in T : \A y \in T : ~(<<y, n>> \in R)
  BY <1>3
<1>5. ASSUME NEW k \in T PROVE n <= k
  <2>1. k \in Nat /\ n \in Nat
    OBVIOUS
  <2>2. ~(k < n)
    BY <1>2, <1>4, <2>1, Zenon
  <2>. QED BY <2>1, <2>2
<1>. QED BY <1>5

LEMMA MinOf ==
  ASSUME NEW S, S \subseteq Int, S # {}, NEW b \in Int, \A x \in S : b <= x
  PROVE  Min(S) \in S /\ \A x \in S : Min(S) <= x
<1> DEFINE T == {x - b : x \in S}
<1>1. T \subseteq Nat
  OBVIOUS
<1>0. T # {}
  OBVIOUS
<1>2. PICK n \in T : \A k \in T : n <= k
  BY <1>0, <1>1, LeastNumber
<1>3. n + b \in S /\ \A x \in S : n + b <= x
  BY <1>2
<1>4. \E x \in S : \A y \in S : x <= y
  BY <1>3
<1>. QED BY <1>4 DEF Min

LEMMA MaxOf ==
  ASSUME NEW S, S \subseteq Int, S # {}, NEW b \in Int, \A x \in S : x <= b
  PROVE  Max(S) \in S /\ \A x \in S : x <= Max(S)
<1> DEFINE T == {b - x : x \in S}
<1>1. T \subseteq Nat
  OBVIOUS
<1>0. T # {}
  OBVIOUS
<1>2. PICK n \in T : \A k \in T : n <= k
  BY <1>0, <1>1, LeastNumber
<1>3. b - n \in S /\ \A x \in S : x <= b - n
  BY <1>2
<1>4. \E x \in S : \A y \in S : x >= y
  BY <1>3
<1>. QED BY <1>4 DEF Max

LEMMA MaxOfTwo ==
  ASSUME NEW a \in Int, NEW b \in Int
  PROVE  Max({a, b}) \in Int /\ a <= Max({a, b}) /\ b <= Max({a, b})
<1>1. CASE a <= b
  BY <1>1, MaxOf
<1>2. CASE b <= a
  BY <1>2, MaxOf
<1>. QED BY <1>1, <1>2

\* The values of a sequence have a largest one.
LEMMA SequenceBounded ==
  ASSUME NEW v, NEW n \in Nat, \A k \in 1..n : v[k] \in Int
  PROVE  \E b \in Int : \A k \in 1..n : v[k] <= b
<1> DEFINE T == {m \in 0..n : \A b \in Int : \E k \in 1..m : v[k] > b}
<1>1. SUFFICES ASSUME T # {} PROVE FALSE
  <2>1. n \notin T
    BY <1>1
  <2>2. n \in 0..n
    OBVIOUS
  <2>3. PICK b \in Int : \A k \in 1..n : ~(v[k] > b)
    BY <2>1, <2>2
  <2>. QED BY <2>3
<1>2. PICK m \in T : \A k \in T : m <= k
  <2>1. T \subseteq Nat
    OBVIOUS
  <2>. QED BY <1>1, <2>1, LeastNumber
<1>3. m \in 0..n /\ \A b \in Int : \E k \in 1..m : v[k] > b
  OBVIOUS
<1>4. m # 0
  BY <1>3
<1>5. m - 1 \in 0..n
  BY <1>3, <1>4
<1>6. m - 1 \notin T
  <2>1. ~(m <= m - 1)
    BY <1>3
  <2>. HIDE DEF T
  <2>. QED BY <1>2, <2>1
<1>7. PICK b \in Int : \A k \in 1..(m - 1) : ~(v[k] > b)
  BY <1>5, <1>6
<1>8. v[m] \in Int
  BY <1>3, <1>4
<1>9. PICK c \in Int : c >= b /\ c >= v[m]
  <2>1. CASE b >= v[m]
    BY <2>1, <1>8
  <2>2. CASE v[m] >= b
    BY <2>2, <1>8
  <2>. QED BY <2>1, <2>2, <1>8
<1>10. ASSUME NEW k \in 1..m PROVE ~(v[k] > c)
  <2>1. CASE k = m
    BY <2>1, <1>8, <1>9
  <2>2. CASE k # m
    <3>1. k \in 1..(m - 1)
      BY <2>2, <1>3
    <3>2. v[k] \in Int
      BY <1>3
    <3>. QED BY <3>1, <3>2, <1>7, <1>9
  <2>. QED BY <2>1, <2>2
<1>. QED BY <1>3, <1>10

(***************************************************************************)
(* A set of numbers within bounds can be put in order.                     *)
(***************************************************************************)
Ordered(S, s) ==
  /\ s \in [1..Cardinality(S) -> S]
  /\ \A j, k \in DOMAIN s : j < k => s[j] < s[k]

LEMMA EmptyOrdered == \E s : Ordered({}, s)
<1>1. Cardinality({}) = 0
  BY FS_EmptySet
<1>2. <<>> \in [1..0 -> {}]
  OBVIOUS
<1>. QED BY <1>1, <1>2 DEF Ordered

LEMMA OneMoreOrdered ==
  ASSUME NEW S, S \subseteq Int, IsFiniteSet(S), NEW m \in S, \A x \in S : x <= m,
         NEW s, Ordered(S \ {m}, s)
  PROVE  \E t : Ordered(S, t)
<1> DEFINE n == Cardinality(S)
           t == [k \in 1..n |-> IF k = n THEN m ELSE s[k]]
<1>1. n \in Nat /\ n > 0 /\ Cardinality(S \ {m}) = n - 1
  BY FS_RemoveElement, FS_CardinalityType, FS_EmptySet
<1>2. s \in [1..(n - 1) -> S \ {m}]
  BY <1>1 DEF Ordered
<1>3. \A k \in 1..n : k # n => k \in 1..(n - 1)
  BY <1>1
<1> HIDE DEF n
<1>4. t \in [1..n -> S]
  BY <1>2, <1>3
<1>5. ASSUME NEW j \in 1..n, NEW k \in 1..n, j < k PROVE t[j] < t[k]
  <2>1. j # n /\ j \in 1..(n - 1)
    BY <1>1, <1>5
  <2>2. t[j] = s[j] /\ s[j] \in S \ {m}
    BY <2>1, <1>2
  <2>3. CASE k = n
    <3>1. t[k] = m
      BY <2>3
    <3>2. s[j] # m
      BY <2>2
    <3>3. s[j] <= m /\ s[j] \in Int /\ m \in Int
      BY <2>2
    <3>4. s[j] < m
      BY <3>2, <3>3
    <3>. QED BY <3>1, <3>4, <2>2
  <2>4. CASE k # n
    <3>1. k \in 1..(n - 1) /\ t[k] = s[k]
      BY <2>4, <1>3
    <3>. QED BY <3>1, <2>1, <2>2, <1>2, <1>5 DEF Ordered
  <2>. QED BY <2>3, <2>4
<1>. QED BY <1>4, <1>5 DEF Ordered, n

LEMMA InOrderIs ==
  ASSUME NEW a \in Int, NEW b \in Int, NEW S, S \subseteq a..b
  PROVE  Ordered(S, InOrder(S))
<1> DEFINE Fails(n) == \E R \in SUBSET (a..b) : Cardinality(R) = n /\ ~\E s : Ordered(R, s)
           T == {n \in Nat : Fails(n)}
<1>1. ASSUME NEW R \in SUBSET (a..b)
      PROVE  IsFiniteSet(R) /\ Cardinality(R) \in Nat /\ R \subseteq Int
  <2>1. IsFiniteSet(a..b)
    BY FS_Interval
  <2>2. IsFiniteSet(R)
    BY <2>1, FS_Subset
  <2>. QED BY <2>2, FS_CardinalityType
<1>2. SUFFICES ASSUME ~\E s : Ordered(S, s) PROVE FALSE
  <2> DEFINE In(s) == \A j, k \in DOMAIN s : j < k => s[j] < s[k]
  <2>1. \E s \in [1..Cardinality(S) -> S] : In(s)
    BY <1>2 DEF Ordered
  <2>2. InOrder(S) = CHOOSE s \in [1..Cardinality(S) -> S] : In(s)
    BY DEF InOrder
  <2>. HIDE DEF In
  <2>3. InOrder(S) \in [1..Cardinality(S) -> S] /\ In(InOrder(S))
    BY <2>1, <2>2
  <2>. QED BY <2>3 DEF Ordered, In
<1>3. Cardinality(S) \in T
  BY <1>1, <1>2
<1>4. PICK n \in T : \A k \in T : n <= k
  <2>1. T \subseteq Nat
    OBVIOUS
  <2>. QED BY <1>3, <2>1, LeastNumber
<1>5. PICK R \in SUBSET (a..b) : Cardinality(R) = n /\ ~\E s : Ordered(R, s)
  BY <1>4
<1>6. R # {}
  BY <1>5, EmptyOrdered
<1>7. PICK m \in R : \A x \in R : x <= m
  <2>1. R \subseteq Int /\ \A x \in R : x <= b
    BY <1>5
  <2>. QED BY <2>1, <1>6, MaxOf
<1>8. IsFiniteSet(R) /\ Cardinality(R \ {m}) = n - 1 /\ n \in Nat
  BY <1>1, <1>5, FS_RemoveElement
<1>9. n - 1 \notin T
  <2>1. ~(n <= n - 1)
    BY <1>8
  <2>. HIDE DEF T
  <2>. QED BY <1>4, <2>1
<1>10. n - 1 \in Nat
  BY <1>1, <1>8
<1>11. PICK s : Ordered(R \ {m}, s)
  BY <1>8, <1>9, <1>10
<1>12. \E t : Ordered(R, t)
  BY <1>1, <1>7, <1>11, OneMoreOrdered
<1>. QED BY <1>5, <1>12

---------------------------------------------------------------------------
(* The index. *)

LEMMA EntriesHold ==
  ASSUME NEW index \in Seq(Entries), NEW i \in DOMAIN index, NEW format \in Formats
  PROVE  index[i] \in Entries /\ index[i][format] \in Nat
<1>1. index[i] \in Entries
  OBVIOUS
<1>2. CASE format = "time"
  BY <1>1, <1>2 DEF Entries
<1>3. CASE format = "pos"
  BY <1>1, <1>3 DEF Entries
<1>. QED BY <1>1, <1>2, <1>3 DEF Formats

\* Of the entries with a value, there is a newest and an oldest one.
LEMMA HolderEnds ==
  ASSUME NEW index \in Seq(Entries), NEW format \in Formats,
         NEW value \in Values(index, format)
  PROVE  LET H == Holders(index, format, value) IN
         /\ Max(H) \in H /\ \A i \in H : i <= Max(H)
         /\ Oldest(index, format, value) \in H
         /\ \A i \in H : Oldest(index, format, value) <= i
<1> DEFINE H == Holders(index, format, value)
<1>1. DOMAIN index = 1..Len(index) /\ Len(index) \in Nat
  OBVIOUS
<1>2. H = {i \in DOMAIN index : index[i][format] = value}
  BY DEF Holders
<1>3. H # {}
  <2>1. PICK i \in DOMAIN index : index[i][format] = value
    BY DEF Values
  <2>. QED BY <2>1, <1>2
<1> HIDE DEF H
<1>4. H \subseteq Int /\ \A x \in H : x <= Len(index)
  BY <1>1, <1>2
<1>5. Max(H) \in H /\ \A x \in H : x <= Max(H)
  <2>1. Len(index) \in Int
    BY <1>1
  <2>. QED BY <2>1, <1>3, <1>4, MaxOf
<1>6. Min(H) \in H /\ \A x \in H : Min(H) <= x
  <2>1. PICK one \in Int : one = 1
    OBVIOUS
  <2>2. H \subseteq Int /\ \A x \in H : one <= x
    BY <1>1, <1>2, <2>1
  <2>. QED BY <2>2, <1>3, MinOf
<1>. QED BY <1>5, <1>6 DEF Oldest, H

LEMMA HoldersIn ==
  ASSUME NEW index \in Seq(Entries), NEW format \in Formats,
         NEW value \in Values(index, format)
  PROVE  /\ Max(Holders(index, format, value)) \in DOMAIN index
         /\ Oldest(index, format, value) \in DOMAIN index
<1>1. Holders(index, format, value) \subseteq DOMAIN index
  BY DEF Holders
<1>2. /\ Max(Holders(index, format, value)) \in Holders(index, format, value)
      /\ Oldest(index, format, value) \in Holders(index, format, value)
  BY HolderEnds
<1>. QED BY <1>1, <1>2

\* A lookup gives an entry of the index or NULL.
LEMMA SearchIn ==
  ASSUME NEW index \in Seq(Entries), NEW method, NEW format \in Formats,
         NEW value \in Int
  PROVE  Search(index, method, format, value) \in {NULL} \cup DOMAIN index
<1> DEFINE V == Values(index, format)
           lower == {v \in V : v < value}
           higher == {v \in V : v > value}
<1>1. V \subseteq Int
  <2>1. \A i \in DOMAIN index : index[i][format] \in Nat
    BY EntriesHold
  <2>. QED BY <2>1 DEF Values
<1>2. CASE value \in V
  BY <1>2, HoldersIn DEF Search
<1>3. CASE value \notin V
  <2>1. lower # {} => Max(lower) \in V
    <3>1. lower \subseteq Int /\ \A v \in lower : v <= value
      BY <1>1
    <3>2. lower \subseteq V
      OBVIOUS
    <3>. HIDE DEF lower
    <3>. QED BY <3>1, <3>2, MaxOf
  <2>2. higher # {} => Min(higher) \in V
    <3>1. higher \subseteq Int /\ \A v \in higher : value <= v
      BY <1>1
    <3>2. higher \subseteq V
      OBVIOUS
    <3>. HIDE DEF higher
    <3>. QED BY <3>1, <3>2, MinOf
  <2>3. lower # {} => Oldest(index, format, Max(lower)) \in DOMAIN index
    BY <2>1, HoldersIn
  <2>4. higher # {} => Oldest(index, format, Min(higher)) \in DOMAIN index
    BY <2>2, HoldersIn
  <2>. QED BY <1>3, <2>3, <2>4 DEF Search
<1>. QED BY <1>2, <1>3

LEMMA WalkIn ==
  ASSUME NEW index \in Seq(Entries), NEW method, NEW i \in DOMAIN index
  PROVE  Walk(index, method, i) \in DOMAIN index
<1> DEFINE keys == {j \in DOMAIN index : index[j].key}
           older == {j \in keys : j <= i}
           newer == {j \in keys : j >= i}
<1>1. DOMAIN index = 1..Len(index) /\ Len(index) \in Nat /\ i \in Int
  OBVIOUS
<1>2. 1 \in DOMAIN index /\ Len(index) \in DOMAIN index
  BY <1>1
<1>3. older # {} => Max(older) \in DOMAIN index
  <2>1. older \subseteq DOMAIN index
    OBVIOUS
  <2>2. older \subseteq Int /\ \A j \in older : j <= i
    BY <1>1
  <2>. HIDE DEF older
  <2>. QED BY <1>1, <2>1, <2>2, MaxOf
<1>4. newer # {} => Min(newer) \in DOMAIN index
  <2>1. newer \subseteq DOMAIN index
    OBVIOUS
  <2>2. newer \subseteq Int /\ \A j \in newer : i <= j
    BY <1>1
  <2>. HIDE DEF newer
  <2>. QED BY <1>1, <2>1, <2>2, MinOf
<1>. QED BY <1>2, <1>3, <1>4 DEF Walk

LEMMA LookupIn ==
  ASSUME NEW index \in Seq(Entries), NEW method, NEW flags \in BOOLEAN,
         NEW format \in Formats, NEW value \in Int
  PROVE  gst_mem_index_get_assoc_entry(index, method, flags, format, value)
           \in {NULL} \cup DOMAIN index
BY SearchIn, WalkIn DEF gst_mem_index_get_assoc_entry

\* The tree's lookup before a value gives an entry of the greatest value that is
\* not above it, the newest one when it is that value; there is none to give
\* only when all are above.
LEMMA SearchBefore ==
  ASSUME NEW index \in Seq(Entries), NEW format \in Formats, NEW value \in Int,
         NEW e, e = Search(index, "BEFORE", format, value)
  PROVE  \/ e = NULL /\ \A i \in DOMAIN index : index[i][format] > value
         \/ /\ e \in DOMAIN index
            /\ index[e][format] <= value
            /\ \A i \in DOMAIN index :
                 index[i][format] <= value => index[i][format] <= index[e][format]
            /\ \A i \in DOMAIN index :
                 index[i][format] = value => i <= e
<1> DEFINE V == Values(index, format)
           lower == {v \in V : v < value}
<1>1. \A i \in DOMAIN index : index[i][format] \in Nat /\ index[i][format] \in V
  BY EntriesHold DEF Values
<1>2. V \subseteq Int
  BY <1>1 DEF Values
<1>3. CASE value \in V
  <2>1. e = Max(Holders(index, format, value))
    BY <1>3 DEF Search
  <2>2. e \in Holders(index, format, value)
        /\ \A i \in Holders(index, format, value) : i <= e
    BY <1>3, <2>1, HolderEnds
  <2>. QED BY <1>1, <2>2 DEF Holders
<1>4. CASE value \notin V /\ lower # {}
  <2>1. e = Oldest(index, format, Max(lower))
    BY <1>4 DEF Search
  <2>2. Max(lower) \in lower /\ \A v \in lower : v <= Max(lower)
    <3>1. lower \subseteq Int /\ \A v \in lower : v <= value
      BY <1>2
    <3>. HIDE DEF lower
    <3>. QED BY <1>4, <3>1, MaxOf
  <2>3. e \in Holders(index, format, Max(lower))
    BY <2>1, <2>2, HolderEnds
  <2>4. e \in DOMAIN index /\ index[e][format] = Max(lower)
    BY <2>3 DEF Holders
  <2>5. ASSUME NEW i \in DOMAIN index, index[i][format] <= value
        PROVE  index[i][format] <= index[e][format]
    <3>1. index[i][format] \in V /\ index[i][format] # value
      BY <1>1, <1>4
    <3>2. index[i][format] \in lower
      BY <1>1, <2>5, <3>1
    <3>. QED BY <2>2, <2>4, <3>2
  <2>6. index[e][format] <= value
    BY <1>2, <2>2, <2>4
  <2>. QED BY <1>1, <1>4, <2>4, <2>5, <2>6
<1>5. CASE value \notin V /\ lower = {}
  BY <1>1, <1>5 DEF Search
<1>. QED BY <1>3, <1>4, <1>5

\* The lookup after a value, with the smallest that is not below it.
LEMMA SearchAfter ==
  ASSUME NEW index \in Seq(Entries), NEW format \in Formats, NEW value \in Int,
         NEW e, e = Search(index, "AFTER", format, value)
  PROVE  \/ e = NULL /\ \A i \in DOMAIN index : index[i][format] < value
         \/ /\ e \in DOMAIN index
            /\ index[e][format] >= value
            /\ \A i \in DOMAIN index :
                 index[i][format] >= value => index[i][format] >= index[e][format]
            /\ index[e][format] > value =>
                 \A i \in DOMAIN index :
                   index[i][format] = index[e][format] => e <= i
<1> DEFINE V == Values(index, format)
           higher == {v \in V : v > value}
<1>1. \A i \in DOMAIN index : index[i][format] \in Nat /\ index[i][format] \in V
  BY EntriesHold DEF Values
<1>2. V \subseteq Int
  BY <1>1 DEF Values
<1>3. CASE value \in V
  <2>1. e = Max(Holders(index, format, value))
    BY <1>3 DEF Search
  <2>2. e \in Holders(index, format, value)
    BY <1>3, <2>1, HolderEnds
  <2>3. e \in DOMAIN index /\ index[e][format] = value
    BY <2>2 DEF Holders
  <2>. QED BY <1>1, <2>3
<1>4. CASE value \notin V /\ higher # {}
  <2>1. e = Oldest(index, format, Min(higher))
    BY <1>4 DEF Search
  <2>2. Min(higher) \in higher /\ \A v \in higher : Min(higher) <= v
    <3>1. higher \subseteq Int /\ \A v \in higher : value <= v
      BY <1>2
    <3>. HIDE DEF higher
    <3>. QED BY <1>4, <3>1, MinOf
  <2>3. e \in Holders(index, format, Min(higher))
        /\ \A i \in Holders(index, format, Min(higher)) : e <= i
    BY <2>1, <2>2, HolderEnds
  <2>4. e \in DOMAIN index /\ index[e][format] = Min(higher)
    BY <2>3 DEF Holders
  <2>5. ASSUME NEW i \in DOMAIN index, index[i][format] >= value
        PROVE  index[i][format] >= index[e][format]
    <3>1. index[i][format] \in V /\ index[i][format] # value
      BY <1>1, <1>4
    <3>2. index[i][format] \in higher
      BY <1>1, <2>5, <3>1
    <3>3. Min(higher) <= index[i][format]
      BY <2>2, <3>2
    <3>4. index[e][format] \in Int /\ index[i][format] \in Int
      BY <1>1, <2>4
    <3>. HIDE DEF higher
    <3>. QED BY <2>4, <3>3, <3>4
  <2>6. index[e][format] >= value
    BY <1>2, <2>2, <2>4
  <2>7. ASSUME NEW i \in DOMAIN index, index[i][format] = index[e][format]
        PROVE  e <= i
    BY <2>3, <2>4, <2>7 DEF Holders
  <2>. QED BY <2>4, <2>5, <2>6, <2>7
<1>5. CASE value \notin V /\ higher = {}
  BY <1>1, <1>5 DEF Search
<1>. QED BY <1>3, <1>4, <1>5

\* A walk to older entries stops at the first key unit it meets, or at the oldest
\* entry; one to newer entries likewise.
LEMMA WalkStops ==
  ASSUME NEW index \in Seq(Entries), NEW i \in DOMAIN index
  PROVE  /\ LET w == Walk(index, "BEFORE", i) IN
            /\ w \in DOMAIN index /\ w <= i
            /\ index[w].key \/ w = 1
            /\ \A k \in DOMAIN index : index[k].key /\ w < k => i < k
         /\ LET w == Walk(index, "AFTER", i) IN
            /\ w \in DOMAIN index /\ i <= w
            /\ index[w].key \/ w = Len(index)
            /\ \A k \in DOMAIN index : index[k].key /\ k < w => k < i
<1> DEFINE keys == {j \in DOMAIN index : index[j].key}
           older == {j \in keys : j <= i}
           newer == {j \in keys : j >= i}
<1>1. DOMAIN index = 1..Len(index) /\ Len(index) \in Nat /\ i \in Int
  OBVIOUS
<1>2. Walk(index, "BEFORE", i) = (IF older # {} THEN Max(older) ELSE 1)
      /\ Walk(index, "AFTER", i) = (IF newer # {} THEN Min(newer) ELSE Len(index))
  BY DEF Walk
<1>3. older # {} => Max(older) \in older /\ \A j \in older : j <= Max(older)
  <2>1. older \subseteq Int /\ \A j \in older : j <= i
    BY <1>1
  <2>. HIDE DEF older
  <2>. QED BY <1>1, <2>1, MaxOf
<1>4. newer # {} => Min(newer) \in newer /\ \A j \in newer : Min(newer) <= j
  <2>1. newer \subseteq Int /\ \A j \in newer : i <= j
    BY <1>1
  <2>. HIDE DEF newer
  <2>. QED BY <1>1, <2>1, MinOf
<1>5. LET w == Walk(index, "BEFORE", i) IN
      /\ w \in DOMAIN index /\ w <= i
      /\ index[w].key \/ w = 1
      /\ \A k \in DOMAIN index : index[k].key /\ w < k => i < k
  <2>1. CASE older # {}
    <3>1. PICK w : w = Walk(index, "BEFORE", i)
      OBVIOUS
    <3>2. w \in older /\ \A j \in older : j <= w
      BY <1>2, <1>3, <2>1, <3>1
    <3>. QED BY <1>1, <3>1, <3>2
  <2>2. CASE older = {}
    BY <1>1, <1>2, <2>2
  <2>. QED BY <2>1, <2>2
<1>6. LET w == Walk(index, "AFTER", i) IN
      /\ w \in DOMAIN index /\ i <= w
      /\ index[w].key \/ w = Len(index)
      /\ \A k \in DOMAIN index : index[k].key /\ k < w => k < i
  <2>1. CASE newer # {}
    <3>1. PICK w : w = Walk(index, "AFTER", i)
      OBVIOUS
    <3>2. w \in newer /\ \A j \in newer : w <= j
      BY <1>2, <1>4, <2>1, <3>1
    <3>. QED BY <1>1, <3>1, <3>2
  <2>2. CASE newer = {}
    BY <1>1, <1>2, <2>2
  <2>. QED BY <2>1, <2>2
<1>. QED BY <1>5, <1>6

\* The entries were added in the order of their values.
Ascending(index, format) ==
  \A i, j \in DOMAIN index : i < j => index[i][format] <= index[j][format]

\* A seek to the key unit before a time.  In an index whose entries were added in
\* order gst_mem_index_get_assoc_entry gives none only when all are later, never
\* a later one, and the last key unit that is not later: it passes over a key
\* unit only when that is of the time of the entry found, which is not the very
\* time looked for, and the entry found is an older one.  It gives what is no key
\* unit only when the walk has come to the oldest entry.
THEOREM LookupBefore ==
  ASSUME NEW index \in Seq(Entries), NEW format \in Formats, NEW value \in Int,
         Ascending(index, format)
  PROVE  LET r == gst_mem_index_get_assoc_entry(index, "BEFORE", TRUE, format, value) IN
         \/ r = NULL /\ \A i \in DOMAIN index : index[i][format] > value
         \/ /\ r \in DOMAIN index
            /\ index[r][format] <= value
            /\ index[r].key \/ r = 1
            /\ \A k \in DOMAIN index :
                 index[k].key /\ r < k =>
                   \/ index[k][format] > value
                   \/ /\ index[k][format] < value
                      /\ \A i \in DOMAIN index :
                           index[i][format] <= value =>
                             index[i][format] <= index[k][format]
<1>1. PICK e : e = Search(index, "BEFORE", format, value)
  OBVIOUS
<1>2. PICK r : r = gst_mem_index_get_assoc_entry(index, "BEFORE", TRUE, format, value)
  OBVIOUS
<1>3. \A i \in DOMAIN index : i \in Int /\ index[i][format] \in Int
  BY EntriesHold
<1>4. CASE e = NULL
  <2>1. NULL \notin DOMAIN index
    BY DEF NULL
  <2>2. \A i \in DOMAIN index : index[i][format] > value
    BY <1>1, <1>4, <2>1, SearchBefore
  <2>3. r = NULL
    BY <1>1, <1>2, <1>4 DEF gst_mem_index_get_assoc_entry
  <2>. QED BY <1>2, <2>2, <2>3
<1>5. CASE e # NULL
  <2>1. /\ e \in DOMAIN index
        /\ index[e][format] <= value
        /\ \A i \in DOMAIN index :
             index[i][format] <= value => index[i][format] <= index[e][format]
        /\ \A i \in DOMAIN index : index[i][format] = value => i <= e
    BY <1>1, <1>5, SearchBefore
  <2>2. /\ r \in DOMAIN index /\ r <= e
        /\ index[r].key \/ r = 1
        /\ \A k \in DOMAIN index : index[k].key /\ r < k => e < k
    <3>1. CASE index[e].key
      <4>1. r = e
        BY <1>1, <1>2, <3>1 DEF gst_mem_index_get_assoc_entry
      <4>. QED BY <1>3, <2>1, <3>1, <4>1
    <3>2. CASE ~index[e].key
      <4>1. r = Walk(index, "BEFORE", e)
        BY <1>1, <1>2, <1>5, <3>2 DEF gst_mem_index_get_assoc_entry
      <4>. QED BY <2>1, <4>1, WalkStops
    <3>. QED BY <3>1, <3>2
  <2>3. index[r][format] <= index[e][format]
    BY <1>3, <2>1, <2>2 DEF Ascending
  <2>4. index[r][format] <= value
    BY <1>3, <2>1, <2>2, <2>3
  <2>5. ASSUME NEW k \in DOMAIN index, index[k].key, r < k,
               ~(index[k][format] > value)
        PROVE  /\ index[k][format] < value
               /\ \A i \in DOMAIN index :
                    index[i][format] <= value => index[i][format] <= index[k][format]
    <3>1. e < k
      BY <2>2, <2>5
    <3>2. index[e][format] <= index[k][format]
      BY <2>1, <3>1 DEF Ascending
    <3>3. index[k][format] # value
      BY <1>3, <2>1, <3>1
    <3>4. index[k][format] < value
      BY <1>3, <2>5, <3>3
    <3>5. ASSUME NEW i \in DOMAIN index, index[i][format] <= value
          PROVE  index[i][format] <= index[k][format]
      BY <1>3, <2>1, <3>2, <3>5
    <3>. QED BY <3>4, <3>5
  <2>. QED BY <1>2, <2>2, <2>4, <2>5
<1>. QED BY <1>4, <1>5

\* A seek to the key unit after a time: likewise, but what is passed over is of
\* the very time looked for, since of the entries with that time the newest is
\* found.
THEOREM LookupAfter ==
  ASSUME NEW index \in Seq(Entries), NEW format \in Formats, NEW value \in Int,
         Ascending(index, format)
  PROVE  LET r == gst_mem_index_get_assoc_entry(index, "AFTER", TRUE, format, value) IN
         \/ r = NULL /\ \A i \in DOMAIN index : index[i][format] < value
         \/ /\ r \in DOMAIN index
            /\ index[r][format] >= value
            /\ index[r].key \/ r = Len(index)
            /\ \A k \in DOMAIN index :
                 index[k].key /\ k < r => index[k][format] <= value
<1>1. PICK e : e = Search(index, "AFTER", format, value)
  OBVIOUS
<1>2. PICK r : r = gst_mem_index_get_assoc_entry(index, "AFTER", TRUE, format, value)
  OBVIOUS
<1>3. \A i \in DOMAIN index : i \in Int /\ index[i][format] \in Int
  BY EntriesHold
<1>4. CASE e = NULL
  <2>1. NULL \notin DOMAIN index
    BY DEF NULL
  <2>2. \A i \in DOMAIN index : index[i][format] < value
    BY <1>1, <1>4, <2>1, SearchAfter
  <2>3. r = NULL
    BY <1>1, <1>2, <1>4 DEF gst_mem_index_get_assoc_entry
  <2>. QED BY <1>2, <2>2, <2>3
<1>5. CASE e # NULL
  <2>1. /\ e \in DOMAIN index
        /\ index[e][format] >= value
        /\ \A i \in DOMAIN index :
             index[i][format] >= value => index[i][format] >= index[e][format]
        /\ index[e][format] > value =>
             \A i \in DOMAIN index : index[i][format] = index[e][format] => e <= i
    BY <1>1, <1>5, SearchAfter
  <2>2. /\ r \in DOMAIN index /\ e <= r
        /\ index[r].key \/ r = Len(index)
        /\ \A k \in DOMAIN index : index[k].key /\ k < r => k < e
    <3>1. CASE index[e].key
      <4>1. r = e
        BY <1>1, <1>2, <3>1 DEF gst_mem_index_get_assoc_entry
      <4>. QED BY <1>3, <2>1, <3>1, <4>1
    <3>2. CASE ~index[e].key
      <4>1. r = Walk(index, "AFTER", e)
        BY <1>1, <1>2, <1>5, <3>2 DEF gst_mem_index_get_assoc_entry
      <4>. QED BY <2>1, <4>1, WalkStops
    <3>. QED BY <3>1, <3>2
  <2>3. index[e][format] <= index[r][format]
    BY <1>3, <2>1, <2>2 DEF Ascending
  <2>4. index[r][format] >= value
    BY <1>3, <2>1, <2>2, <2>3
  <2>5. ASSUME NEW k \in DOMAIN index, index[k].key, k < r
        PROVE  index[k][format] <= value
    <3>1. k < e
      BY <2>2, <2>5
    <3>2. index[k][format] <= index[e][format]
      BY <2>1, <3>1 DEF Ascending
    <3>3. SUFFICES ASSUME index[k][format] > value
                   PROVE  FALSE
      BY <1>3
    <3>4. index[k][format] = index[e][format]
      BY <1>3, <2>1, <3>2, <3>3
    <3>5. e <= k
      BY <1>3, <2>1, <3>3, <3>4
    <3>. QED BY <1>3, <2>1, <3>1, <3>5
  <2>. QED BY <1>2, <2>2, <2>4, <2>5
<1>. QED BY <1>4, <1>5

---------------------------------------------------------------------------
(* The demuxer's record. *)

LEMMA PadOf ==
  ASSUME NEW d \in DemuxType, NEW p \in Streams
  PROVE  d.pad[p] \in PadType
BY DEF DemuxType

\* The place in the file is the same.
SamePlace(d, e) ==
  /\ e.state = d.state /\ e.offset = d.offset /\ e.tag = d.tag
  /\ e.cur_tag_offset = d.cur_tag_offset

\* No other stream than p changed.
OnlyPad(d, e, p) == \A q \in Streams \ {p} : e.pad[q] = d.pad[q]

LEMMA PushEventType ==
  ASSUME NEW d \in DemuxType, NEW event \in {"EOS", "FLUSH_STOP"}
  PROVE  LET e == gst_flv_demux_push_src_event(d, event) IN
         /\ e \in DemuxType
         /\ e = [d EXCEPT !.pad = e.pad]
         /\ \A p \in Streams :
              e.pad[p] = IF d.pad[p].exists
                         THEN [d.pad[p] EXCEPT !.out = EventOut(@, event)]
                         ELSE d.pad[p]
<1>1. ASSUME NEW p \in Streams
      PROVE  EventOut(d.pad[p].out, event) \in OutType
  <2>1. d.pad[p] \in PadType
    BY PadOf
  <2>2. d.pad[p].out \in OutType
    BY <2>1 DEF PadType
  <2>3. [d.pad[p].out EXCEPT !.eos = TRUE] \in OutType
    BY <2>2 DEF OutType
  <2>4. NothingOut \in OutType
    BY DEF NothingOut, NoSegment, TIME_NONE, Segments, OutType
  <2>. QED BY <2>3, <2>4 DEF EventOut
<1>2. ASSUME NEW p \in Streams
      PROVE  [d.pad[p] EXCEPT !.out = EventOut(d.pad[p].out, event)] \in PadType
  <2>1. d.pad[p] \in PadType
    BY PadOf
  <2>. QED BY <1>1, <2>1 DEF PadType
<1>. QED BY <1>2, PadOf DEF gst_flv_demux_push_src_event, DemuxType

LEMMA DiscontType ==
  ASSUME NEW d \in DemuxType
  PROVE  /\ Discont(d) \in DemuxType
         /\ Discont(d) = [d EXCEPT !.pad = Discont(d).pad]
         /\ \A p \in Streams :
              Discont(d).pad[p] = [d.pad[p] EXCEPT !.need_discont = TRUE]
<1>1. ASSUME NEW p \in Streams
      PROVE  [d.pad[p] EXCEPT !.need_discont = TRUE] \in PadType
  <2>1. d.pad[p] \in PadType
    BY PadOf
  <2>. QED BY <2>1 DEF PadType
<1>. QED BY <1>1 DEF Discont, DemuxType

LEMMA CombinerResetType ==
  ASSUME NEW d \in DemuxType
  PROVE  LET e == gst_flow_combiner_reset(d) IN
         /\ e \in DemuxType
         /\ e = [d EXCEPT !.pad = e.pad]
         /\ \A p \in Streams : e.pad[p] = [d.pad[p] EXCEPT !.flow = "OK"]
<1>1. ASSUME NEW p \in Streams PROVE [d.pad[p] EXCEPT !.flow = "OK"] \in PadType
  <2>1. d.pad[p] \in PadType
    BY PadOf
  <2>. QED BY <2>1 DEF PadType, FlowReturns
<1>. QED BY <1>1 DEF gst_flow_combiner_reset, DemuxType

LEMMA NeedSegmentType ==
  ASSUME NEW d \in DemuxType, NEW event \in Segments
  PROVE  LET e == NeedSegment(d, event) IN
         /\ e \in DemuxType
         /\ e = [d EXCEPT !.new_seg_event = event, !.pad = e.pad]
         /\ \A p \in Streams : e.pad[p] = [d.pad[p] EXCEPT !.need_segment = TRUE]
<1>1. ASSUME NEW p \in Streams
      PROVE  [d.pad[p] EXCEPT !.need_segment = TRUE] \in PadType
  <2>1. d.pad[p] \in PadType
    BY PadOf
  <2>. QED BY <2>1 DEF PadType
<1>. QED BY <1>1 DEF NeedSegment, DemuxType

---------------------------------------------------------------------------
(* What is added to the index. *)

LEMMA AddEntriesType ==
  ASSUME NEW d \in DemuxType, NEW entries \in Seq(Entries)
  PROVE  LET e == AddEntries(d, entries) IN
         /\ e \in DemuxType
         /\ e = [d EXCEPT !.index = d.index \o entries,
                          !.index_max_pos = e.index_max_pos,
                          !.index_max_time = e.index_max_time]
<1> DEFINE n == Len(entries)
           added == {entries[k] : k \in DOMAIN entries}
<1>1. n \in Nat /\ DOMAIN entries = 1..n
  OBVIOUS
<1>2. ASSUME NEW k \in 1..n PROVE entries[k].pos \in Nat /\ entries[k].time \in Nat
  <2>1. entries[k] \in Entries
    BY <1>1
  <2>. QED BY <2>1 DEF Entries
<1>3. d.index_max_pos \in Nat /\ d.index_max_time \in Nat
  BY DEF DemuxType
<1>4. ASSUME NEW v, \A k \in 1..n : v[k] \in Nat, NEW m \in Nat
      PROVE  Max({m} \cup {v[k] : k \in 1..n}) \in Nat
  <2> DEFINE S == {m} \cup {v[k] : k \in 1..n}
  <2>0. n \in Nat /\ \A k \in 1..n : v[k] \in Int
    BY <1>1, <1>4
  <2>. HIDE DEF n
  <2>1. PICK b \in Int : \A k \in 1..n : v[k] <= b
    BY <2>0, SequenceBounded
  <2>2. PICK c \in Int : b <= c /\ m <= c
    <3>1. CASE b <= m
      BY <3>1
    <3>2. CASE m <= b
      BY <3>2
    <3>. QED BY <3>1, <3>2
  <2>3. S \subseteq Nat /\ \A x \in S : x <= c
    BY <1>4, <2>1, <2>2
  <2>4. S # {}
    OBVIOUS
  <2>. HIDE DEF S
  <2>5. S \subseteq Int
    BY <2>3
  <2>6. Max(S) \in S
    BY <2>3, <2>4, <2>5, MaxOf
  <2>. QED BY <2>3, <2>6 DEF S
<1>5. Max({d.index_max_pos} \cup {entry.pos : entry \in added}) \in Nat
  <2> DEFINE v == [k \in 1..n |-> entries[k].pos]
  <2>1. {entry.pos : entry \in added} = {v[k] : k \in 1..n}
    BY <1>1
  <2>2. \A k \in 1..n : v[k] \in Nat
    BY <1>2
  <2>. HIDE DEF v
  <2>. QED BY <1>3, <1>4, <2>1, <2>2
<1>6. Max({d.index_max_time} \cup {entry.time : entry \in added}) \in Nat
  <2> DEFINE v == [k \in 1..n |-> entries[k].time]
  <2>1. {entry.time : entry \in added} = {v[k] : k \in 1..n}
    BY <1>1
  <2>2. \A k \in 1..n : v[k] \in Nat
    BY <1>2
  <2>. HIDE DEF v
  <2>. QED BY <1>3, <1>4, <2>1, <2>2
<1>7. d.index \o entries \in Seq(Entries)
  BY DEF DemuxType
<1> DEFINE pos == Max({d.index_max_pos} \cup {entry.pos : entry \in added})
           time == Max({d.index_max_time} \cup {entry.time : entry \in added})
<1>8. AddEntries(d, entries) = [d EXCEPT !.index = d.index \o entries,
                                  !.index_max_pos = pos, !.index_max_time = time]
  BY DEF AddEntries, gst_mem_index_add_associations
<1>9. pos \in Nat /\ time \in Nat
  BY <1>5, <1>6
<1> HIDE DEF pos, time
<1>. QED BY <1>7, <1>8, <1>9 DEF DemuxType

\* What an addition to the index leaves alone.
IndexOnly(d, e) ==
  e = [d EXCEPT !.index = e.index, !.index_max_pos = e.index_max_pos,
                !.index_max_time = e.index_max_time]

\* Every entry that was added is at the start of one of some tags.
AddsAt(d, e, tags) ==
  \E entries \in Seq(Entries) :
    /\ e.index = d.index \o entries
    /\ \A k \in DOMAIN entries : \E i \in tags : entries[k].pos = Position(i)

\* And has the time of its tag, and is a key unit if the tag is one.
TableEntry(f, i) ==
  [time |-> f[i].time, pos |-> Position(i), key |-> f[i].type # "video" \/ f[i].key]

Lists(d, e, f, tags) ==
  \E entries \in Seq(Entries) :
    /\ e.index = d.index \o entries
    /\ \A k \in DOMAIN entries : \E i \in tags : entries[k] = TableEntry(f, i)

LEMMA ListsAdds ==
  ASSUME NEW d, NEW e, NEW f, NEW tags, Lists(d, e, f, tags)
  PROVE  AddsAt(d, e, tags)
BY DEF Lists, AddsAt, TableEntry

LEMMA IndexOnlyKeeps ==
  ASSUME NEW d \in DemuxType, NEW e \in DemuxType, IndexOnly(d, e)
  PROVE  /\ SamePlace(d, e) /\ e.pad = d.pad /\ e.ret = d.ret /\ e.segment = d.segment
         /\ e.got_par = d.got_par /\ e.file_size = d.file_size /\ e.has = d.has
         /\ e.no_more_pads = d.no_more_pads /\ e.indexed = d.indexed
BY DEF IndexOnly, SamePlace, DemuxType

LEMMA SelfAdds ==
  ASSUME NEW d \in DemuxType, NEW tags
  PROVE  IndexOnly(d, d) /\ AddsAt(d, d, tags) /\ \A f : Lists(d, d, f, tags)
<1>1. d.index = d.index \o <<>> /\ <<>> \in Seq(Entries)
  BY DEF DemuxType
<1>2. \A k \in DOMAIN <<>> : FALSE
  OBVIOUS
<1>3. AddsAt(d, d, tags) /\ \A f : Lists(d, d, f, tags)
  BY <1>1, <1>2 DEF AddsAt, Lists
<1>4. IndexOnly(d, d)
  BY DEF IndexOnly, DemuxType
<1>. QED BY <1>3, <1>4

LEMMA AddEntryType ==
  ASSUME NEW d \in DemuxType, NEW entry \in Entries
  PROVE  LET e == gst_flv_demux_parse_and_add_index_entry(d, entry) IN
         /\ e \in DemuxType
         /\ IndexOnly(d, e)
         /\ \/ e.index = d.index
            \/ e.index = Append(d.index, entry)
<1>1. <<entry>> \in Seq(Entries)
  OBVIOUS
<1>2. d \in DemuxType => d.index \o <<entry>> = Append(d.index, entry)
  BY DEF DemuxType
<1> DEFINE a == AddEntries(d, <<entry>>)
<1>3. /\ a \in DemuxType
      /\ a = [d EXCEPT !.index = d.index \o <<entry>>, !.index_max_pos = a.index_max_pos,
                       !.index_max_time = a.index_max_time]
  BY <1>1, AddEntriesType
<1>4. a.index = Append(d.index, entry)
  BY <1>2, <1>3 DEF DemuxType
<1> HIDE DEF a
<1>5. CASE d.upstream_seekable /\ Missing(d, entry.pos)
  <2>1. gst_flv_demux_parse_and_add_index_entry(d, entry) = a
    BY <1>5 DEF gst_flv_demux_parse_and_add_index_entry, a
  <2>2. IndexOnly(d, a)
    BY <1>3 DEF DemuxType, IndexOnly
  <2>. QED BY <1>3, <1>4, <2>1, <2>2
<1>6. CASE ~(d.upstream_seekable /\ Missing(d, entry.pos))
  <2>1. gst_flv_demux_parse_and_add_index_entry(d, entry) = d
    BY <1>6 DEF gst_flv_demux_parse_and_add_index_entry
  <2>2. IndexOnly(d, d)
    BY SelfAdds
  <2>. QED BY <2>1, <2>2
<1>. QED BY <1>5, <1>6

LEMMA PositionIs ==
  ASSUME NEW i \in Int
  PROVE  Position(i) \in Int /\ Position(i) = 3 * i - 2
BY DEF Position, FLV_HEADER_SIZE

LEMMA TagAtPosition ==
  ASSUME NEW f, NEW i \in Int
  PROVE  TagAt(f, Position(i)) = i /\ TagAt(f, Position(i) + 1) = i
BY DEF TagAt, Position, FLV_HEADER_SIZE

\* The entries some tags of a file get are at the starts of those tags.
LEMMA AddTagsType ==
  ASSUME NEW d \in DemuxType, NEW f \in Seq(Tags), NEW tags \in SUBSET DOMAIN f
  PROVE  LET e == AddTags(d, f, tags) IN
         /\ e \in DemuxType
         /\ IndexOnly(d, e)
         /\ AddsAt(d, e, tags) /\ Lists(d, e, f, tags)
<1> DEFINE S == {i \in tags : Missing(d, Position(i))}
           new == InOrder(S)
           entries == [k \in DOMAIN new |->
                         [time |-> f[new[k]].time, pos |-> Position(new[k]),
                          key |-> f[new[k]].type # "video" \/ f[new[k]].key]]
<1>1. PICK a, b \in Int : DOMAIN f = a..b
  <2>1. DOMAIN f = 1..Len(f) /\ Len(f) \in Int /\ 1 \in Int
    OBVIOUS
  <2>. QED BY <2>1
<1>2. S \subseteq a..b /\ S \subseteq tags /\ S \subseteq DOMAIN f
  BY <1>1
<1>3. Ordered(S, new)
  <2>. HIDE DEF S
  <2>. QED BY <1>2, InOrderIs
<1>4. Cardinality(S) \in Nat
  <2>1. IsFiniteSet(a..b)
    BY FS_Interval
  <2>. HIDE DEF S
  <2>. QED BY <2>1, <1>2, FS_Subset, FS_CardinalityType
<1> HIDE DEF S
<1>5. new \in [1..Cardinality(S) -> S]
  BY <1>3 DEF Ordered
<1> HIDE DEF new
<1>6. ASSUME NEW k \in DOMAIN new
      PROVE  /\ new[k] \in S
             /\ [time |-> f[new[k]].time, pos |-> Position(new[k]),
                 key |-> f[new[k]].type # "video" \/ f[new[k]].key] \in Entries
  <2>1. new[k] \in S /\ new[k] \in DOMAIN f
    BY <1>2, <1>5
  <2>2. f[new[k]] \in Tags
    BY <2>1
  <2>3. f[new[k]].time \in Nat /\ f[new[k]].key \in BOOLEAN
    BY <2>2, TagsAssumption DEF Tags
  <2>4. Position(new[k]) \in Nat
    <3>1. new[k] \in Nat /\ new[k] >= 1
      BY <2>1
    <3>. QED BY <3>1, PositionIs
  <2>. QED BY <2>1, <2>3, <2>4 DEF Entries
<1>7. entries \in Seq(Entries)
  <2>1. DOMAIN new = 1..Cardinality(S)
    BY <1>5
  <2>2. entries \in [1..Cardinality(S) -> Entries]
    BY <1>6, <2>1
  <2>. HIDE DEF entries
  <2>. QED BY <1>4, <2>2
<1>8. \A k \in DOMAIN entries : entries[k] = TableEntry(f, new[k]) /\ new[k] \in tags
  BY <1>2, <1>6 DEF TableEntry
<1>9. CASE ~d.upstream_seekable
  <2>1. AddTags(d, f, tags) = d
    BY <1>9 DEF AddTags
  <2>. QED BY <2>1, SelfAdds
<1>10. CASE d.upstream_seekable
  <2> DEFINE e == AddEntries(d, entries)
  <2>1. AddTags(d, f, tags) = e
    BY <1>10 DEF AddTags, new, S
  <2>. HIDE DEF entries
  <2>2. /\ e \in DemuxType
        /\ e = [d EXCEPT !.index = d.index \o entries, !.index_max_pos = e.index_max_pos,
                         !.index_max_time = e.index_max_time]
    BY <1>7, AddEntriesType
  <2>. HIDE DEF e
  <2>3. e.index = d.index \o entries
    BY <2>2 DEF DemuxType
  <2>4. IndexOnly(d, e)
    BY <2>2, <2>3 DEF IndexOnly
  <2>5. AddsAt(d, e, tags) /\ Lists(d, e, f, tags)
    BY <1>7, <1>8, <2>3, ListsAdds DEF Lists
  <2>. QED BY <2>1, <2>2, <2>4, <2>5
<1>. QED BY <1>9, <1>10

LEMMA ScriptType ==
  ASSUME NEW d \in DemuxType, NEW f \in Seq(Tags), NEW tag \in Tags
  PROVE  LET e == gst_flv_demux_parse_tag_script(d, f, tag) IN
         /\ e \in DemuxType /\ SamePlace(d, e) /\ AddsAt(d, e, DOMAIN f)
         /\ e.pad = d.pad /\ e.ret = "OK" /\ e.segment = d.segment
         /\ e.got_par = (d.got_par \/ "par" \in tag.items)
         /\ e.file_size = d.file_size /\ e.has = d.has
         /\ d.indexed => e.indexed
         /\ Lists(d, e, f, Keyframes(f))
<1> DEFINE a == gst_flv_demux_parse_metadata_item([d EXCEPT !.ret = "OK"], tag)
           b == AddTags(a, f, Keyframes(f))
<1>1. tag.time \in Int
  BY TagsAssumption DEF Tags
<1>2. /\ a \in DemuxType /\ SamePlace(d, a) /\ a.pad = d.pad /\ a.ret = "OK"
      /\ a.segment = d.segment /\ a.got_par = (d.got_par \/ "par" \in tag.items)
      /\ a.file_size = d.file_size /\ a.has = d.has /\ a.index = d.index
      /\ a.indexed = d.indexed
  BY <1>1 DEF gst_flv_demux_parse_metadata_item, DemuxType, SamePlace, FlowReturns
<1>3. Keyframes(f) \in SUBSET DOMAIN f
  BY DEF Keyframes
<1>4. b \in DemuxType /\ IndexOnly(a, b) /\ Lists(a, b, f, Keyframes(f))
  <2>. HIDE DEF a
  <2>. QED BY <1>2, <1>3, AddTagsType
<1>5. gst_flv_demux_parse_tag_script(d, f, tag)
        = IF a.times /\ a.filepositions THEN [b EXCEPT !.indexed = TRUE] ELSE a
  BY DEF gst_flv_demux_parse_tag_script
<1> HIDE DEF a, b
<1>6. CASE a.times /\ a.filepositions
  <2>1. gst_flv_demux_parse_tag_script(d, f, tag) = [b EXCEPT !.indexed = TRUE]
    BY <1>5, <1>6
  <2>2. /\ SamePlace(a, b) /\ b.pad = a.pad /\ b.ret = a.ret /\ b.segment = a.segment
        /\ b.got_par = a.got_par /\ b.file_size = a.file_size /\ b.has = a.has
    BY <1>2, <1>4, IndexOnlyKeeps
  <2>3. [b EXCEPT !.indexed = TRUE] \in DemuxType
    BY <1>4 DEF DemuxType
  <2>4. PICK entries \in Seq(Entries) :
           /\ b.index = a.index \o entries
           /\ \A k \in DOMAIN entries : \E i \in Keyframes(f) : entries[k] = TableEntry(f, i)
    BY <1>4 DEF Lists
  <2> DEFINE e == [b EXCEPT !.indexed = TRUE]
  <2>5. e.index = d.index \o entries
    BY <1>2, <1>4, <2>4 DEF DemuxType
  <2>6. AddsAt(d, e, DOMAIN f) /\ Lists(d, e, f, Keyframes(f))
    <3>. HIDE DEF e
    <3>1. Lists(d, e, f, Keyframes(f))
      BY <2>4, <2>5 DEF Lists
    <3>2. AddsAt(d, e, Keyframes(f))
      BY <3>1, ListsAdds
    <3>. QED BY <1>3, <3>1, <3>2 DEF AddsAt
  <2>. QED BY <1>2, <1>4, <2>1, <2>2, <2>3, <2>6 DEF SamePlace, DemuxType
<1>7. CASE ~(a.times /\ a.filepositions)
  <2>1. gst_flv_demux_parse_tag_script(d, f, tag) = a
    BY <1>5, <1>7
  <2>2. AddsAt(d, a, DOMAIN f) /\ Lists(d, a, f, Keyframes(f))
    <3>1. AddsAt(d, d, DOMAIN f) /\ Lists(d, d, f, Keyframes(f))
      BY SelfAdds
    <3>2. a.index = d.index
      BY <1>2
    <3>. QED BY <3>1, <3>2 DEF AddsAt, Lists
  <2>. QED BY <1>2, <2>1, <2>2
<1>. QED BY <1>6, <1>7

---------------------------------------------------------------------------
(* Audio and video tags. *)

\* One pad of the record is another one.
LEMMA PadChange ==
  ASSUME NEW d \in DemuxType, NEW p \in Streams, NEW pad \in PadType
  PROVE  LET e == [d EXCEPT !.pad[p] = pad] IN
         /\ e \in DemuxType /\ e.pad[p] = pad /\ OnlyPad(d, e, p)
         /\ IndexOnly(d, [e EXCEPT !.pad = d.pad])
BY DEF DemuxType, OnlyPad, IndexOnly

\* The time a stream had last and how far its times are shifted are the same.
SameTimes(x, y) == y.last = x.last /\ y.time_offset = x.time_offset

\* All that a step of the caps may do to one stream.
CapsOnly(d, e, p) ==
  /\ e \in DemuxType /\ SamePlace(d, e) /\ OnlyPad(d, e, p)
  /\ e.index = d.index /\ e.segment = d.segment /\ e.has = d.has
  /\ e.file_size = d.file_size /\ e.upstream_seekable = d.upstream_seekable
  /\ e.got_par \in BOOLEAN /\ (e.got_par => d.got_par)
  /\ e.pad[p].out = d.pad[p].out
  /\ e.pad[p].need_discont = d.pad[p].need_discont
  /\ SameTimes(d.pad[p], e.pad[p]) /\ e.indexed = d.indexed
  /\ e.pad[p].exists \in BOOLEAN /\ (d.pad[p].exists => e.pad[p].exists)
  /\ e.ret \in {d.ret, "ERROR"}

LEMMA CapsOnlySelf ==
  ASSUME NEW d \in DemuxType, NEW p \in Streams
  PROVE  CapsOnly(d, d, p)
<1>1. d.pad[p] \in PadType
  BY PadOf
<1>. QED BY <1>1 DEF CapsOnly, SameTimes, SamePlace, OnlyPad, DemuxType, PadType

LEMMA CapsOnlyTrans ==
  ASSUME NEW d \in DemuxType, NEW e, NEW g, NEW p \in Streams,
         CapsOnly(d, e, p), CapsOnly(e, g, p)
  PROVE  CapsOnly(d, g, p)
BY DEF CapsOnly, SameTimes, SamePlace, OnlyPad

LEMMA NegotiateType ==
  ASSUME NEW d \in DemuxType, NEW p \in Streams, NEW codec \in Codecs
  PROVE  LET e == Negotiate(d, p, codec) IN
         /\ CapsOnly(d, e, p)
         /\ e.pad[p].exists = d.pad[p].exists
         /\ e.pad[p].codec_data = d.pad[p].codec_data
         /\ e.got_par = d.got_par
         /\ codec # "unsupported" => e.ret = d.ret /\ e.pad[p].codec = codec
         /\ codec = "unsupported" => e.ret = "ERROR" /\ e.pad = d.pad
<1> DEFINE e == Negotiate(d, p, codec)
           caps == [codec |-> codec, codec_data |-> d.pad[p].codec_data,
                    par |-> p = "video" /\ d.got_par]
<1>1. d.pad[p] \in PadType /\ d.got_par \in BOOLEAN
  BY PadOf DEF DemuxType
<1>2. CASE codec = "unsupported"
  <2>1. e = [d EXCEPT !.ret = "ERROR"]
    BY <1>2 DEF Negotiate
  <2>. HIDE DEF e
  <2>2. e \in DemuxType
    BY <2>1 DEF DemuxType, FlowReturns
  <2>. QED BY <1>1, <1>2, <2>1, <2>2 DEF CapsOnly, SameTimes, SamePlace, OnlyPad, DemuxType, PadType, e
<1>3. CASE codec = "configured" /\ ~d.pad[p].codec_data
  <2> DEFINE pad == [d.pad[p] EXCEPT !.codec = codec]
  <2>1. e = [d EXCEPT !.pad[p] = pad]
    BY <1>3, <1>1 DEF Negotiate, DemuxType
  <2>2. pad \in PadType
    BY <1>1 DEF PadType
  <2>3. /\ pad.codec = codec /\ pad.codec_data = d.pad[p].codec_data
        /\ pad.out = d.pad[p].out /\ pad.need_discont = d.pad[p].need_discont
        /\ pad.exists = d.pad[p].exists /\ pad.exists \in BOOLEAN
        /\ SameTimes(d.pad[p], pad)
    BY <1>1 DEF PadType, SameTimes
  <2>. HIDE DEF pad, e
  <2>4. e \in DemuxType /\ e.pad[p] = pad /\ OnlyPad(d, e, p)
    BY <2>1, <2>2, PadChange
  <2>. QED BY <1>1, <1>3, <2>1, <2>3, <2>4 DEF CapsOnly, SamePlace, DemuxType, e
<1>4. CASE codec # "unsupported" /\ ~(codec = "configured" /\ ~d.pad[p].codec_data)
  <2> DEFINE pad == [d.pad[p] EXCEPT !.codec = codec, !.caps = caps]
  <2>1. e = [d EXCEPT !.pad[p] = pad]
    BY <1>4, <1>1 DEF Negotiate, DemuxType
  <2>2. pad \in PadType
    BY <1>1 DEF PadType
  <2>3. /\ pad.codec = codec /\ pad.codec_data = d.pad[p].codec_data
        /\ pad.out = d.pad[p].out /\ pad.need_discont = d.pad[p].need_discont
        /\ pad.exists = d.pad[p].exists /\ pad.exists \in BOOLEAN
        /\ SameTimes(d.pad[p], pad)
    BY <1>1 DEF PadType, SameTimes
  <2>. HIDE DEF pad, e
  <2>4. e \in DemuxType /\ e.pad[p] = pad /\ OnlyPad(d, e, p)
    BY <2>1, <2>2, PadChange
  <2>. QED BY <1>1, <1>4, <2>1, <2>3, <2>4 DEF CapsOnly, SamePlace, DemuxType, e
<1>. QED BY <1>2, <1>3, <1>4

LEMMA GotParType ==
  ASSUME NEW d \in DemuxType, NEW p \in Streams
  PROVE  LET e == GotPar(d, p) IN
         /\ CapsOnly(d, e, p) /\ e.pad = d.pad /\ e.ret = d.ret
         /\ p = "video" => ~e.got_par
<1>1. d.pad[p] \in PadType
  BY PadOf
<1>. QED BY <1>1 DEF GotPar, CapsOnly, SameTimes, SamePlace, OnlyPad, DemuxType, PadType

LEMMA AddPadType ==
  ASSUME NEW d \in DemuxType, NEW p \in Streams, NEW codec \in Codecs,
         d.ret # "ERROR"
  PROVE  LET e == AddPad(d, p, codec) IN
         /\ CapsOnly(d, e, p)
         /\ d.pad[p].exists => e = d
         /\ e.pad[p].codec_data = d.pad[p].codec_data
         /\ ~d.pad[p].exists =>
              \/ e.ret = "ERROR" /\ e.pad = d.pad
              \/ /\ e.ret = d.ret /\ e.pad[p].exists /\ e.pad[p].codec = codec
                 /\ p = "video" => ~e.got_par
<1> DEFINE e == AddPad(d, p, codec)
           n == Negotiate(d, p, codec)
           g == GotPar(n, p)
<1>1. CASE d.pad[p].exists
  <2>1. e = d
    BY <1>1 DEF AddPad
  <2>. QED BY <1>1, <2>1, CapsOnlySelf
<1>2. /\ CapsOnly(d, n, p)
      /\ n.pad[p].codec_data = d.pad[p].codec_data
      /\ codec # "unsupported" => n.ret = d.ret /\ n.pad[p].codec = codec
      /\ codec = "unsupported" => n.ret = "ERROR" /\ n.pad = d.pad
  BY NegotiateType
<1>3. CASE ~d.pad[p].exists /\ n.ret = "ERROR"
  <2>1. e = n
    BY <1>3 DEF AddPad
  <2>2. codec = "unsupported"
    BY <1>2, <1>3
  <2>. QED BY <1>2, <1>3, <2>1, <2>2
<1>4. CASE ~d.pad[p].exists /\ n.ret # "ERROR"
  <2>1. n \in DemuxType
    BY <1>2 DEF CapsOnly
  <2>2. /\ CapsOnly(n, g, p) /\ g.pad = n.pad /\ g.ret = n.ret
        /\ p = "video" => ~g.got_par
    BY <2>1, GotParType
  <2>3. CapsOnly(d, g, p)
    BY <1>2, <2>2, CapsOnlyTrans
  <2>4. e = [g EXCEPT !.pad[p].exists = TRUE,
              !.no_more_pads = @ \/ \A q \in Streams \ {p} : d.pad[q].exists]
    BY <1>4 DEF AddPad
  <2>5. codec # "unsupported"
    BY <1>2, <1>4
  <2>. HIDE DEF e, g, n
  <2>6. g \in DemuxType
    BY <2>3 DEF CapsOnly
  <2>7. g.pad[p] \in PadType
    BY <2>6, PadOf
  <2> DEFINE pad == [g.pad[p] EXCEPT !.exists = TRUE]
             h == [g EXCEPT !.pad[p] = pad]
             more == g.no_more_pads \/ \A q \in Streams \ {p} : d.pad[q].exists
  <2>8. pad \in PadType /\ pad.exists
        /\ pad.codec = g.pad[p].codec /\ pad.codec_data = g.pad[p].codec_data
        /\ pad.out = g.pad[p].out /\ pad.need_discont = g.pad[p].need_discont
        /\ SameTimes(g.pad[p], pad)
    BY <2>7 DEF PadType, SameTimes
  <2>. HIDE DEF pad
  <2>9. h \in DemuxType /\ h.pad[p] = pad /\ OnlyPad(g, h, p)
    BY <2>6, <2>8, PadChange
  <2>10. more \in BOOLEAN
    <3>1. d.pad["audio"] \in PadType /\ d.pad["video"] \in PadType
      BY PadOf DEF Streams
    <3>. QED BY <2>6, <3>1 DEF DemuxType
  <2>11. e = [h EXCEPT !.no_more_pads = more]
    BY <2>4, <2>6 DEF DemuxType, pad
  <2>12. /\ SamePlace(g, h) /\ h.index = g.index /\ h.segment = g.segment
         /\ h.has = g.has /\ h.file_size = g.file_size /\ h.got_par = g.got_par
         /\ h.upstream_seekable = g.upstream_seekable /\ h.ret = g.ret
         /\ h.indexed = g.indexed
    BY <2>6 DEF DemuxType, SamePlace
  <2>. HIDE DEF h, more
  <2>13. /\ e \in DemuxType /\ e.pad = h.pad /\ SamePlace(h, e) /\ e.index = h.index
         /\ e.segment = h.segment /\ e.has = h.has /\ e.file_size = h.file_size
         /\ e.got_par = h.got_par /\ e.upstream_seekable = h.upstream_seekable
         /\ e.ret = h.ret /\ e.indexed = h.indexed
    BY <2>9, <2>10, <2>11 DEF DemuxType, SamePlace
  <2>14. CapsOnly(g, e, p)
    <3>1. SamePlace(g, e)
      BY <2>12, <2>13 DEF SamePlace
    <3>2. OnlyPad(g, e, p)
      BY <2>9, <2>13 DEF OnlyPad
    <3>3. e.pad[p] = pad /\ e.pad[p].exists \in BOOLEAN
      BY <2>8, <2>9, <2>13, PadOf DEF PadType
    <3>4. g.got_par \in BOOLEAN
      BY <2>6 DEF DemuxType
    <3>. QED BY <2>8, <2>12, <2>13, <3>1, <3>2, <3>3, <3>4 DEF CapsOnly
  <2>15. CapsOnly(d, e, p)
    BY <2>3, <2>14, CapsOnlyTrans
  <2>. QED BY <1>2, <1>4, <2>2, <2>5, <2>8, <2>9, <2>12, <2>13, <2>15 DEF e
<1>. QED BY <1>1, <1>3, <1>4

LEMMA RenewCapsType ==
  ASSUME NEW d \in DemuxType, NEW p \in Streams, NEW codec \in Codecs,
         d.ret # "ERROR"
  PROVE  LET e == RenewCaps(d, p, codec) IN
         /\ CapsOnly(d, e, p)
         /\ e.pad[p].exists = d.pad[p].exists
         /\ codec = d.pad[p].codec /\ ~(p = "video" /\ d.got_par) => e = d
         /\ e.pad[p].codec \in {d.pad[p].codec, codec}
         /\ e.ret # "ERROR" => e.ret = d.ret /\ e.pad[p].codec = codec
<1> DEFINE e == RenewCaps(d, p, codec)
           pad == [d.pad[p] EXCEPT !.codec_data = FALSE]
           a == [d EXCEPT !.pad[p].codec_data = FALSE]
           n == Negotiate(a, p, codec)
<1>1. CASE codec = d.pad[p].codec /\ ~(p = "video" /\ d.got_par)
  <2>1. e = d
    BY <1>1 DEF RenewCaps
  <2>. QED BY <1>1, <2>1, CapsOnlySelf
<1>2. CASE ~(codec = d.pad[p].codec /\ ~(p = "video" /\ d.got_par))
  <2>1. e = IF n.ret = "ERROR" THEN n ELSE GotPar(n, p)
    BY <1>2 DEF RenewCaps
  <2>2. d.pad[p] \in PadType
    BY PadOf
  <2>3. /\ pad \in PadType /\ pad.out = d.pad[p].out /\ pad.exists = d.pad[p].exists
        /\ pad.need_discont = d.pad[p].need_discont /\ pad.codec = d.pad[p].codec
        /\ pad.exists \in BOOLEAN /\ SameTimes(d.pad[p], pad)
    BY <2>2 DEF PadType, SameTimes
  <2>4. a = [d EXCEPT !.pad[p] = pad]
    BY DEF DemuxType
  <2>. HIDE DEF e, a, pad
  <2>5. a \in DemuxType /\ a.pad[p] = pad /\ OnlyPad(d, a, p)
    BY <2>3, <2>4, PadChange
  <2>6. CapsOnly(d, a, p) /\ a.ret = d.ret
    BY <2>3, <2>4, <2>5 DEF CapsOnly, SamePlace, DemuxType
  <2>7. /\ CapsOnly(a, n, p) /\ n.pad[p].exists = a.pad[p].exists
        /\ codec # "unsupported" => n.ret = a.ret /\ n.pad[p].codec = codec
        /\ codec = "unsupported" => n.ret = "ERROR" /\ n.pad = a.pad
    BY <2>5, NegotiateType
  <2>. HIDE DEF n
  <2>8. CapsOnly(d, n, p) /\ n \in DemuxType
    BY <2>6, <2>7, CapsOnlyTrans DEF CapsOnly
  <2>9. CASE n.ret = "ERROR"
    <3>1. e = n
      BY <2>1, <2>9
    <3>2. codec = "unsupported" /\ n.pad = a.pad
      BY <2>6, <2>7, <2>9
    <3>3. e.pad[p].exists = d.pad[p].exists /\ e.pad[p].codec = d.pad[p].codec
      BY <2>3, <2>5, <3>1, <3>2
    <3>. QED BY <1>2, <2>8, <2>9, <3>1, <3>3 DEF e
  <2>10. CASE n.ret # "ERROR"
    <3>1. e = GotPar(n, p)
      BY <2>1, <2>10
    <3>2. CapsOnly(n, e, p) /\ e.pad = n.pad /\ e.ret = n.ret
      BY <2>8, <3>1, GotParType
    <3>3. CapsOnly(d, e, p)
      BY <2>8, <3>2, CapsOnlyTrans
    <3>4. codec # "unsupported"
      BY <2>7, <2>10
    <3>. QED BY <1>2, <2>3, <2>5, <2>6, <2>7, <3>2, <3>3, <3>4 DEF e
  <2>. QED BY <2>9, <2>10
<1>. QED BY <1>1, <1>2

LEMMA DdtsInt ==
  ASSUME NEW dts \in Int, NEW last \in Int
  PROVE  Ddts(dts, last) \in Int
<1>1. U32 \in Nat /\ U32 > 0
  BY TagsAssumption
<1>2. U32 \div 2 \in Int
  BY <1>1
<1> DEFINE x == dts - last + U32 \div 2
<1>3. x \in Int
  BY <1>2
<1> HIDE DEF x
<1>4. x % U32 \in Int
  BY <1>1, <1>3
<1>. QED BY <1>2, <1>4 DEF Ddts, x

LEMMA PtsNat ==
  ASSUME NEW tag \in Tags
  PROVE  Pts(tag) \in Nat
<1>1. U32 \in Nat /\ U32 > 0
  BY TagsAssumption
<1>2. tag.time \in Nat /\ tag.cts \in Int
  BY TagsAssumption DEF Tags
<1> DEFINE x == tag.time + (IF tag.cts < -tag.time THEN -tag.time ELSE tag.cts)
<1>3. x \in Nat
  BY <1>2
<1>4. Pts(tag) = x % U32
  BY DEF Pts
<1> HIDE DEF x
<1>. QED BY <1>1, <1>3, <1>4

\* How far the times of a stream are shifted from a tag of that time on.
Shift(pad, dts) ==
  IF Resyncs(pad, dts) THEN pad.time_offset - Ddts(dts, pad.last) ELSE pad.time_offset

LEMMA ResyncType ==
  ASSUME NEW pad \in PadType, NEW dts \in 0..(U32 - 1)
  PROVE  LET r == gst_flv_demux_update_resync(pad, dts) IN
         /\ r \in PadType
         /\ r = [pad EXCEPT !.last = dts, !.time_offset = r.time_offset]
         /\ r.time_offset = Shift(pad, dts)
<1>1. pad.last \in Int /\ pad.time_offset \in Nat
  BY TagsAssumption DEF PadType
<1>2. dts \in Int
  BY TagsAssumption
<1>3. Ddts(dts, pad.last) \in Int
  BY <1>1, <1>2, DdtsInt
<1>4. RESYNC_THRESHOLD \in Nat
  <2>1. U32 \div 2 \in Int
    BY TagsAssumption
  <2>. QED BY <2>1, TagsAssumption
<1> DEFINE offset == Shift(pad, dts)
<1>5. offset \in Nat
  BY <1>1, <1>3, <1>4 DEF Resyncs, Shift
<1>6. gst_flv_demux_update_resync(pad, dts)
        = [pad EXCEPT !.last = dts, !.time_offset = offset]
  BY DEF gst_flv_demux_update_resync, PadType, Shift
<1> HIDE DEF offset
<1>7. gst_flv_demux_update_resync(pad, dts).time_offset = offset
  BY <1>6 DEF PadType
<1>. QED BY <1>5, <1>6, <1>7 DEF PadType, offset

\* What pushing a buffer to one pad leaves alone.
PushOnly(d, e, p) ==
  /\ e \in DemuxType /\ SamePlace(d, e) /\ OnlyPad(d, e, p)
  /\ e.has = d.has /\ e.file_size = d.file_size /\ e.got_par = d.got_par
  /\ e.upstream_seekable = d.upstream_seekable /\ e.indexed = d.indexed
  /\ e.pad[p].exists = d.pad[p].exists /\ e.pad[p].codec = d.pad[p].codec
  /\ e.pad[p].codec_data = d.pad[p].codec_data

LEMMA PushOnlyTrans ==
  ASSUME NEW d, NEW e, NEW g, NEW p, PushOnly(d, e, p), PushOnly(e, g, p)
  PROVE  PushOnly(d, g, p)
BY DEF PushOnly, SamePlace, OnlyPad

\* What has gone out, but for the segment.
SameOut(x, y) ==
  /\ y.need_discont = x.need_discont
  /\ y.out.tag = x.out.tag /\ y.out.discont = x.out.discont /\ y.out.eos = x.out.eos
  /\ SameTimes(x, y)

LEMMA SameOutTrans ==
  ASSUME NEW x, NEW y, NEW z, SameOut(x, y), SameOut(y, z)
  PROVE  SameOut(x, z)
BY DEF SameOut, SameTimes

LEMMA PadPush ==
  ASSUME NEW d \in DemuxType, NEW p \in Streams, NEW pad \in PadType,
         pad.exists = d.pad[p].exists, pad.codec = d.pad[p].codec,
         pad.codec_data = d.pad[p].codec_data
  PROVE  LET e == [d EXCEPT !.pad[p] = pad] IN
         /\ PushOnly(d, e, p) /\ e.pad[p] = pad
         /\ e.index = d.index /\ e.ret = d.ret /\ e.segment = d.segment
<1> DEFINE e == [d EXCEPT !.pad[p] = pad]
<1>1. e \in DemuxType /\ e.pad[p] = pad /\ OnlyPad(d, e, p)
  BY PadChange
<1>. QED BY <1>1 DEF PushOnly, SamePlace, DemuxType

LEMMA LengthenType ==
  ASSUME NEW d \in DemuxType, NEW ts \in Nat, NEW p \in Streams
  PROVE  LET e == Lengthen(d, ts) IN
         PushOnly(d, e, p) /\ e.pad = d.pad /\ e.index = d.index
<1>1. Max({d.duration, ts}) \in Int
  <2>1. d.duration \in Int /\ ts \in Int
    BY DEF DemuxType
  <2>. QED BY <2>1, MaxOfTwo
<1>. QED BY <1>1 DEF Lengthen, PushOnly, SamePlace, OnlyPad, DemuxType

LEMMA AnnounceType ==
  ASSUME NEW d \in DemuxType, NEW p \in Streams, NEW ts \in Nat
  PROVE  LET e == Announce(d, p, ts) IN
         /\ PushOnly(d, e, p) /\ SameOut(d.pad[p], e.pad[p]) /\ e.index = d.index
<1> DEFINE s == [d.segment EXCEPT !.position = ts]
           t == [s EXCEPT !.start = ts]
           e == [d EXCEPT !.segment.position = ts]
           g == IF d.new_seg_event = NoSegment
                THEN [e EXCEPT !.segment.start = ts, !.new_seg_event = [e.segment EXCEPT !.start = ts]]
                ELSE e
<1>1. d.segment \in Segments /\ d.pad[p] \in PadType /\ d.new_seg_event \in Segments
  BY PadOf DEF DemuxType
<1>2. s \in Segments /\ t \in Segments
  <2>1. ts \in Int
    OBVIOUS
  <2>2. s \in Segments
    BY <1>1, <2>1 DEF Segments
  <2>. HIDE DEF s
  <2>3. t \in Segments
    BY <2>1, <2>2 DEF Segments
  <2>. QED BY <2>2, <2>3
<1>3. e = [d EXCEPT !.segment = s]
  BY DEF DemuxType
<1> HIDE DEF s, t
<1>4. /\ PushOnly(d, e, p) /\ e.pad = d.pad /\ e.index = d.index
      /\ e.segment = s /\ e.new_seg_event = d.new_seg_event
  BY <1>2, <1>3 DEF PushOnly, SamePlace, OnlyPad, DemuxType
<1>5. CASE ~d.pad[p].need_segment
  <2>1. Announce(d, p, ts) = e
    BY <1>5 DEF Announce
  <2>. HIDE DEF e
  <2>. QED BY <1>4, <2>1 DEF SameOut, SameTimes
<1>6. CASE d.pad[p].need_segment
  <2>1. Announce(d, p, ts) = [g EXCEPT !.pad[p].need_segment = FALSE,
                                       !.pad[p].out.segment = g.new_seg_event]
    BY <1>6 DEF Announce
  <2>. HIDE DEF e
  <2>2. e \in DemuxType
    BY <1>4 DEF PushOnly
  <2>3. [e EXCEPT !.segment.start = ts, !.new_seg_event = [e.segment EXCEPT !.start = ts]]
          = [e EXCEPT !.segment = t, !.new_seg_event = t]
    BY <1>4, <2>2 DEF DemuxType, t
  <2>4. PushOnly(e, g, p) /\ g.pad = e.pad /\ g.index = e.index
    <3>1. CASE d.new_seg_event = NoSegment
      <4>1. g = [e EXCEPT !.segment = t, !.new_seg_event = t]
        BY <2>3, <3>1
      <4>. QED BY <1>2, <2>2, <4>1 DEF PushOnly, SamePlace, OnlyPad, DemuxType
    <3>2. CASE d.new_seg_event # NoSegment
      <4>1. g = e
        BY <3>2
      <4>. QED BY <2>2, <4>1 DEF PushOnly, SamePlace, OnlyPad
    <3>. QED BY <3>1, <3>2
  <2>. HIDE DEF g
  <2>5. g \in DemuxType /\ g.new_seg_event \in Segments /\ g.pad[p] = d.pad[p]
    BY <1>4, <2>4 DEF PushOnly, DemuxType
  <2> DEFINE out == [d.pad[p].out EXCEPT !.segment = g.new_seg_event]
             pad == [d.pad[p] EXCEPT !.need_segment = FALSE, !.out = out]
  <2>6. out \in OutType /\ out.tag = d.pad[p].out.tag /\ out.eos = d.pad[p].out.eos
        /\ out.discont = d.pad[p].out.discont
    BY <1>1, <2>5 DEF PadType, OutType
  <2>7. [g EXCEPT !.pad[p].need_segment = FALSE, !.pad[p].out.segment = g.new_seg_event]
          = [g EXCEPT !.pad[p] = pad]
    BY <1>1, <2>5 DEF DemuxType, PadType
  <2>. HIDE DEF out
  <2>8. /\ pad \in PadType /\ pad.exists = g.pad[p].exists /\ pad.codec = g.pad[p].codec
        /\ pad.codec_data = g.pad[p].codec_data
    BY <1>1, <2>5, <2>6 DEF PadType
  <2>9. SameOut(d.pad[p], pad)
    BY <1>1, <2>6 DEF PadType, SameOut, SameTimes
  <2>. HIDE DEF pad
  <2> DEFINE h == [g EXCEPT !.pad[p] = pad]
  <2>10. PushOnly(g, h, p) /\ h.pad[p] = pad /\ h.index = g.index
    BY <2>5, <2>8, PadPush
  <2>. HIDE DEF h
  <2>11. PushOnly(d, h, p)
    BY <1>4, <2>4, <2>10, PushOnlyTrans
  <2>12. Announce(d, p, ts) = h
    BY <2>1, <2>7 DEF h
  <2>. QED BY <1>4, <2>4, <2>9, <2>10, <2>11, <2>12
<1>. QED BY <1>5, <1>6

LEMMA GiveUpWaitingType ==
  ASSUME NEW d \in DemuxType, NEW p \in Streams, NEW ts \in Nat
  PROVE  LET e == GiveUpWaiting(d, p, ts) IN
         /\ PushOnly(d, e, p) /\ SameOut(d.pad[p], e.pad[p]) /\ e.index = d.index
<1> DEFINE start == IF d.pad[p].start = TIME_NONE THEN ts ELSE d.pad[p].start
           pad == [d.pad[p] EXCEPT !.start = start]
           more == d.no_more_pads \/ ts - start > NO_MORE_PADS_THRESHOLD
           h == [d EXCEPT !.pad[p] = pad]
           e == [h EXCEPT !.no_more_pads = more]
<1>1. d.pad[p] \in PadType /\ d.no_more_pads \in BOOLEAN
  BY PadOf DEF DemuxType
<1>2. start \in Int
  BY <1>1 DEF PadType
<1>3. GiveUpWaiting(d, p, ts) = e
  BY DEF GiveUpWaiting, DemuxType
<1> HIDE DEF start
<1>4. /\ pad \in PadType /\ pad.exists = d.pad[p].exists /\ pad.codec = d.pad[p].codec
      /\ pad.codec_data = d.pad[p].codec_data /\ SameOut(d.pad[p], pad)
  BY <1>1, <1>2 DEF PadType, SameOut, SameTimes
<1>5. more \in BOOLEAN
  BY <1>1
<1> HIDE DEF pad, more
<1>6. PushOnly(d, h, p) /\ h.pad[p] = pad /\ h.index = d.index
  BY <1>4, PadPush
<1> HIDE DEF h
<1>7. PushOnly(h, e, p) /\ e.pad = h.pad /\ e.index = h.index
  BY <1>5, <1>6 DEF PushOnly, SamePlace, OnlyPad, DemuxType
<1> HIDE DEF e
<1>8. PushOnly(d, e, p)
  BY <1>6, <1>7, PushOnlyTrans
<1>. QED BY <1>3, <1>4, <1>6, <1>7, <1>8

LEMMA FirstTsType ==
  ASSUME NEW d \in DemuxType, NEW p \in Streams, NEW ts \in Nat
  PROVE  LET e == FirstTs(d, p, ts) IN
         /\ PushOnly(d, e, p) /\ SameOut(d.pad[p], e.pad[p]) /\ e.index = d.index
<1> DEFINE pad == [d.pad[p] EXCEPT !.first_ts = ts]
           h == [d EXCEPT !.pad[p] = pad]
<1>1. d.pad[p] \in PadType
  BY PadOf
<1>2. CASE d.pad["audio"].first_ts # TIME_NONE
  <2>1. FirstTs(d, p, ts) = d
    BY <1>2 DEF FirstTs
  <2>. QED BY <2>1 DEF PushOnly, SamePlace, OnlyPad, SameOut, SameTimes
<1>3. CASE d.pad["audio"].first_ts = TIME_NONE
  <2>1. FirstTs(d, p, ts) = h
    BY <1>3 DEF FirstTs, DemuxType
  <2>2. /\ pad \in PadType /\ pad.exists = d.pad[p].exists /\ pad.codec = d.pad[p].codec
        /\ pad.codec_data = d.pad[p].codec_data /\ SameOut(d.pad[p], pad)
    BY <1>1 DEF PadType, SameOut, SameTimes
  <2>. HIDE DEF pad
  <2>3. PushOnly(d, h, p) /\ h.pad[p] = pad /\ h.index = d.index
    BY <2>2, PadPush
  <2>. QED BY <2>1, <2>2, <2>3
<1>. QED BY <1>2, <1>3

LEMMA FlowType ==
  ASSUME NEW d \in DemuxType, NEW p \in Streams, NEW flow \in FlowReturns
  PROVE  LET e == Flow(d, p, flow) IN
         /\ PushOnly(d, e, p) /\ SameOut(d.pad[p], e.pad[p]) /\ e.index = d.index
         /\ e.ret = "FLUSHING" => flow = "FLUSHING"
<1> DEFINE e == Flow(d, p, flow)
<1>1. d.pad[p] \in PadType
  BY PadOf
<1>2. CASE flow = "EOS" /\ d.segment.rate < 0 /\ d.segment.position > d.segment.stop
  <2> DEFINE pad == [d.pad[p] EXCEPT !.done = TRUE]
             h == [d EXCEPT !.pad[p] = pad]
  <2>1. e = [h EXCEPT !.ret = "OK"]
    BY <1>2 DEF Flow, DemuxType
  <2>2. /\ pad \in PadType /\ pad.exists = d.pad[p].exists /\ pad.codec = d.pad[p].codec
        /\ pad.codec_data = d.pad[p].codec_data /\ SameOut(d.pad[p], pad)
    BY <1>1 DEF PadType, SameOut, SameTimes
  <2>. HIDE DEF pad, e
  <2>3. PushOnly(d, h, p) /\ h.pad[p] = pad /\ h.index = d.index
    BY <2>2, PadPush
  <2>. HIDE DEF h
  <2>4. PushOnly(h, e, p) /\ e.pad = h.pad /\ e.index = h.index /\ e.ret = "OK"
    BY <2>1, <2>3 DEF PushOnly, SamePlace, OnlyPad, DemuxType, FlowReturns
  <2>5. PushOnly(d, e, p)
    BY <2>3, <2>4, PushOnlyTrans
  <2>. QED BY <2>2, <2>3, <2>4, <2>5 DEF e
<1>3. CASE ~(flow = "EOS" /\ d.segment.rate < 0 /\ d.segment.position > d.segment.stop)
  <2> DEFINE pad == [d.pad[p] EXCEPT !.flow = flow]
             h == [d EXCEPT !.pad[p] = pad]
             flows == {h.pad[q].flow : q \in Existing(h)}
             ret == IF flow \in {"FLUSHING", "ERROR"} THEN flow
                    ELSE IF flows = {"NOT_LINKED"} THEN "NOT_LINKED"
                    ELSE IF flows \subseteq {"EOS", "NOT_LINKED"} THEN "EOS" ELSE "OK"
  <2>0. h = [d EXCEPT !.pad[p].flow = flow]
    BY DEF DemuxType
  <2>1. e = [h EXCEPT !.ret = ret]
    BY <1>3, <2>0 DEF Flow, gst_flow_combiner_update_pad_flow
  <2>2. /\ pad \in PadType /\ pad.exists = d.pad[p].exists /\ pad.codec = d.pad[p].codec
        /\ pad.codec_data = d.pad[p].codec_data /\ SameOut(d.pad[p], pad)
    BY <1>1 DEF PadType, SameOut, SameTimes
  <2>3. ret \in FlowReturns /\ (ret = "FLUSHING" => flow = "FLUSHING")
    <3>. HIDE DEF flows
    <3>. QED BY DEF FlowReturns
  <2>. HIDE DEF pad, e, ret
  <2>4. PushOnly(d, h, p) /\ h.pad[p] = pad /\ h.index = d.index
    BY <2>2, PadPush
  <2>. HIDE DEF h
  <2>5. PushOnly(h, e, p) /\ e.pad = h.pad /\ e.index = h.index /\ e.ret = ret
    BY <2>1, <2>3, <2>4 DEF PushOnly, SamePlace, OnlyPad, DemuxType
  <2>6. PushOnly(d, e, p)
    BY <2>4, <2>5, PushOnlyTrans
  <2>. QED BY <2>2, <2>3, <2>4, <2>5, <2>6 DEF e
<1>. QED BY <1>2, <1>3

Returns == FlowReturns \cup {"AFTER_EOS"}

\* A buffer in the index.
Indexes(d, e, p, tag) ==
  \E entry \in Entries :
    /\ e.index = Append(d.index, entry) /\ entry.pos = d.cur_tag_offset
    /\ entry.time = Pts(tag) + Shift(d.pad[p], tag.time)
    /\ entry.key = (p = "audio" \/ tag.key)

\* What a buffer of tag i does to its stream.
BufferDoes(d, e, p, i, tag, flow) ==
  /\ PushOnly(d, e, p)
  /\ e.ret = "FLUSHING" => flow = "FLUSHING"
  /\ ~e.pad[p].need_discont
  /\ e.pad[p].out.eos = d.pad[p].out.eos
  /\ flow \in Closed =>
       /\ e.pad[p].out.tag = d.pad[p].out.tag
       /\ e.pad[p].out.discont = d.pad[p].out.discont
  /\ flow \notin Closed =>
       /\ e.pad[p].out.tag = i
       /\ e.pad[p].out.discont = d.pad[p].need_discont
  /\ e.pad[p].last = tag.time
  /\ e.pad[p].time_offset = Shift(d.pad[p], tag.time)
  /\ e.index = d.index \/ (~d.indexed /\ Indexes(d, e, p, tag))

LEMMA PushBufferDoes ==
  ASSUME NEW d \in DemuxType, NEW p \in Streams, NEW i \in Nat, NEW tag \in Tags,
         NEW flow \in Returns
  PROVE  BufferDoes(d, PushBuffer(d, p, i, tag, flow), p, i, tag, flow)
<1> DEFINE synced == gst_flv_demux_update_resync(d.pad[p], tag.time)
           pts == Pts(tag) + synced.time_offset
           pad == [synced EXCEPT !.need_discont = FALSE]
           a0 == [d EXCEPT !.pad[p] = pad]
           a == Lengthen(a0, pts)
           entry == [time |-> pts, pos |-> d.cur_tag_offset,
                     key |-> p = "audio" \/ tag.key]
           b == IF IndexesBuffer(d, p)
                THEN gst_flv_demux_parse_and_add_index_entry(a, entry) ELSE a
           c1 == Announce(b, p, pts)
           c2 == FirstTs(c1, p, pts)
           c == GiveUpWaiting(c2, p, pts)
           out == [c.pad[p].out EXCEPT !.tag = i, !.dts = tag.time + synced.time_offset,
                                       !.pts = pts, !.discont = d.pad[p].need_discont,
                                       !.resync = Resyncs(d.pad[p], tag.time)]
           g == IF flow \in Closed THEN c ELSE [c EXCEPT !.pad[p].out = out]
           ret == IF flow = "AFTER_EOS" THEN "EOS" ELSE flow
           e == Flow(g, p, ret)
<1>1. PushBuffer(d, p, i, tag, flow) = e
  BY DEF PushBuffer
<1>2. tag.time \in 0..(U32 - 1) /\ tag.time \in Nat /\ tag.key \in BOOLEAN
  BY TagsAssumption DEF Tags
<1>3. d.pad[p] \in PadType
  BY PadOf
<1>4. synced \in PadType
      /\ synced = [d.pad[p] EXCEPT !.last = tag.time, !.time_offset = synced.time_offset]
      /\ synced.time_offset = Shift(d.pad[p], tag.time)
  BY <1>2, <1>3, ResyncType
<1> HIDE DEF synced
<1>5. pts \in Nat /\ synced.time_offset \in Nat
  BY <1>4, PtsNat DEF PadType
<1> HIDE DEF pts
<1>6. /\ pad \in PadType /\ pad.exists = d.pad[p].exists /\ pad.codec = d.pad[p].codec
      /\ pad.codec_data = d.pad[p].codec_data /\ ~pad.need_discont
      /\ pad.out = d.pad[p].out /\ pad.last = tag.time
      /\ pad.time_offset = synced.time_offset
  BY <1>3, <1>4 DEF PadType
<1> HIDE DEF pad
<1>7. PushOnly(d, a0, p) /\ a0.pad[p] = pad /\ a0.index = d.index
  BY <1>6, PadPush
<1> HIDE DEF a0
<1>8. PushOnly(a0, a, p) /\ a.pad = a0.pad /\ a.index = a0.index
  <2>1. a0 \in DemuxType
    BY <1>7 DEF PushOnly
  <2>. QED BY <1>5, <2>1, LengthenType
<1> HIDE DEF a
<1>9. PushOnly(d, a, p) /\ a \in DemuxType /\ a.pad[p] = pad /\ a.index = d.index
  BY <1>7, <1>8, PushOnlyTrans DEF PushOnly
<1>10. entry \in Entries
  BY <1>2, <1>5 DEF Entries, DemuxType
<1>11. /\ entry.pos = d.cur_tag_offset /\ entry.key = (p = "audio" \/ tag.key)
       /\ entry.time = pts
  OBVIOUS
<1> HIDE DEF entry
<1>12. /\ PushOnly(a, b, p) /\ b.pad[p] = a.pad[p] /\ b \in DemuxType
       /\ b.index = a.index \/ (~d.indexed /\ b.index = Append(a.index, entry))
  <2>1. CASE IndexesBuffer(d, p)
    <3>1. b = gst_flv_demux_parse_and_add_index_entry(a, entry)
      BY <2>1
    <3>2. /\ b \in DemuxType /\ IndexOnly(a, b)
          /\ b.index = a.index \/ b.index = Append(a.index, entry)
      BY <1>9, <1>10, <3>1, AddEntryType
    <3>. HIDE DEF b
    <3>3. PushOnly(a, b, p) /\ b.pad = a.pad
      BY <1>9, <3>2 DEF PushOnly, IndexOnly, SamePlace, OnlyPad, DemuxType
    <3>. QED BY <2>1, <3>2, <3>3 DEF IndexesBuffer
  <2>2. CASE ~IndexesBuffer(d, p)
    <3>1. b = a
      BY <2>2
    <3>. QED BY <1>9, <3>1 DEF PushOnly, SamePlace, OnlyPad
  <2>. QED BY <2>1, <2>2
<1> HIDE DEF b
<1>13. PushOnly(b, c1, p) /\ SameOut(b.pad[p], c1.pad[p]) /\ c1.index = b.index
  BY <1>5, <1>12, AnnounceType
<1> HIDE DEF c1
<1>14. PushOnly(c1, c2, p) /\ SameOut(c1.pad[p], c2.pad[p]) /\ c2.index = c1.index
  <2>1. c1 \in DemuxType
    BY <1>13 DEF PushOnly
  <2>. QED BY <1>5, <2>1, FirstTsType
<1> HIDE DEF c2
<1>15. PushOnly(c2, c, p) /\ SameOut(c2.pad[p], c.pad[p]) /\ c.index = c2.index
  <2>1. c2 \in DemuxType
    BY <1>14 DEF PushOnly
  <2>. QED BY <1>5, <2>1, GiveUpWaitingType
<1> HIDE DEF c
<1>16. /\ PushOnly(d, c, p) /\ SameOut(pad, c.pad[p]) /\ c \in DemuxType
       /\ c.index = b.index
  <2>1. PushOnly(a, c, p)
    BY <1>12, <1>13, <1>14, <1>15, PushOnlyTrans
  <2>2. SameOut(b.pad[p], c.pad[p])
    BY <1>13, <1>14, <1>15, SameOutTrans
  <2>3. b.pad[p] = pad
    BY <1>9, <1>12
  <2>. QED BY <1>9, <1>13, <1>14, <1>15, <2>1, <2>2, <2>3, PushOnlyTrans DEF PushOnly
<1>17. /\ PushOnly(d, g, p) /\ g \in DemuxType /\ ~g.pad[p].need_discont
       /\ g.index = b.index /\ g.pad[p].out.eos = d.pad[p].out.eos
       /\ SameTimes(pad, g.pad[p])
       /\ flow \in Closed =>
            /\ g.pad[p].out.tag = d.pad[p].out.tag
            /\ g.pad[p].out.discont = d.pad[p].out.discont
       /\ flow \notin Closed =>
            /\ g.pad[p].out.tag = i
            /\ g.pad[p].out.discont = d.pad[p].need_discont
  <2>1. CASE flow \in Closed
    <3>1. g = c
      BY <2>1
    <3>. QED BY <1>6, <1>16, <2>1, <3>1 DEF SameOut
  <2>2. CASE flow \notin Closed
    <3>1. c.pad[p] \in PadType
      BY <1>16, PadOf
    <3>2. /\ out \in OutType /\ out.tag = i /\ out.discont = d.pad[p].need_discont
          /\ out.eos = c.pad[p].out.eos
      <4>1. c.pad[p].out \in OutType /\ d.pad[p].need_discont \in BOOLEAN
        BY <1>3, <3>1 DEF PadType
      <4>2. Resyncs(d.pad[p], tag.time) \in BOOLEAN
        BY <1>3 DEF Resyncs, PadType
      <4>3. tag.time + synced.time_offset \in Nat
        BY <1>2, <1>5
      <4>. QED BY <1>5, <4>1, <4>2, <4>3 DEF OutType
    <3>. HIDE DEF out
    <3> DEFINE new == [c.pad[p] EXCEPT !.out = out]
    <3>3. g = [c EXCEPT !.pad[p] = new]
      BY <1>16, <2>2 DEF DemuxType
    <3>4. /\ new \in PadType /\ new.exists = c.pad[p].exists
          /\ new.codec = c.pad[p].codec /\ new.codec_data = c.pad[p].codec_data
          /\ new.out = out /\ new.need_discont = c.pad[p].need_discont
          /\ SameTimes(c.pad[p], new)
      BY <3>1, <3>2 DEF PadType, SameTimes
    <3>. HIDE DEF new, g
    <3>5. PushOnly(c, g, p) /\ g.pad[p] = new /\ g.index = c.index
      BY <1>16, <3>3, <3>4, PadPush
    <3>6. PushOnly(d, g, p)
      BY <1>16, <3>5, PushOnlyTrans
    <3>. QED BY <1>6, <1>16, <2>2, <3>2, <3>4, <3>5, <3>6
          DEF SameOut, SameTimes, PushOnly
  <2>. QED BY <2>1, <2>2
<1> HIDE DEF g
<1>18. ret \in FlowReturns /\ (ret = "FLUSHING" => flow = "FLUSHING")
  BY DEF Returns, FlowReturns
<1> HIDE DEF ret
<1>19. /\ PushOnly(g, e, p) /\ SameOut(g.pad[p], e.pad[p]) /\ e.index = g.index
       /\ e.ret = "FLUSHING" => ret = "FLUSHING"
  BY <1>17, <1>18, FlowType
<1> HIDE DEF e
<1>20. PushOnly(d, e, p)
  BY <1>17, <1>19, PushOnlyTrans
<1>21. e.index = d.index \/ (~d.indexed /\ Indexes(d, e, p, tag))
  BY <1>4, <1>9, <1>10, <1>11, <1>12, <1>17, <1>19 DEF pts, Indexes
<1>22. /\ ~e.pad[p].need_discont /\ e.pad[p].out.eos = d.pad[p].out.eos
       /\ flow \in Closed =>
            /\ e.pad[p].out.tag = d.pad[p].out.tag
            /\ e.pad[p].out.discont = d.pad[p].out.discont
       /\ flow \notin Closed =>
            /\ e.pad[p].out.tag = i
            /\ e.pad[p].out.discont = d.pad[p].need_discont
       /\ e.pad[p].last = tag.time
       /\ e.pad[p].time_offset = Shift(d.pad[p], tag.time)
  BY <1>4, <1>6, <1>17, <1>19 DEF SameOut, SameTimes
<1>. QED BY <1>1, <1>18, <1>19, <1>20, <1>21, <1>22 DEF BufferDoes

\* The pad and the caps a tag needs.
Renewed(d, p, codec) ==
  LET g == AddPad(d, p, codec) IN IF g.ret = "ERROR" THEN g ELSE RenewCaps(g, p, codec)

\* Its configuration outlives a tag of the codec the pad has, unless the pixel
\* aspect ratio has come.
Keeps(d, p, codec) ==
  d.pad[p].exists => d.pad[p].codec = codec /\ ~(p = "video" /\ d.got_par)

LEMMA RenewedType ==
  ASSUME NEW d \in DemuxType, NEW p \in Streams, NEW codec \in Codecs, d.ret # "ERROR"
  PROVE  LET e == Renewed(d, p, codec) IN
         /\ CapsOnly(d, e, p)
         /\ e.ret # "ERROR" => e.ret = d.ret /\ e.pad[p].exists /\ e.pad[p].codec = codec
         /\ e.pad[p].codec \in {d.pad[p].codec, codec}
         /\ ~d.pad[p].exists /\ e.pad[p].exists => e.pad[p].codec = codec
         /\ Keeps(d, p, codec) => e.pad[p].codec_data = d.pad[p].codec_data
<1> DEFINE g == AddPad(d, p, codec)
           e == Renewed(d, p, codec)
<1>1. /\ CapsOnly(d, g, p)
      /\ d.pad[p].exists => g = d
      /\ g.pad[p].codec_data = d.pad[p].codec_data
      /\ ~d.pad[p].exists =>
           \/ g.ret = "ERROR" /\ g.pad = d.pad
           \/ /\ g.ret = d.ret /\ g.pad[p].exists /\ g.pad[p].codec = codec
              /\ p = "video" => ~g.got_par
  BY AddPadType
<1>2. e = IF g.ret = "ERROR" THEN g ELSE RenewCaps(g, p, codec)
  BY DEF Renewed
<1> HIDE DEF g, e
<1>3. CASE g.ret = "ERROR"
  <2>1. e = g /\ ~d.pad[p].exists /\ g.pad = d.pad
    BY <1>1, <1>2, <1>3
  <2>2. e.ret = "ERROR" /\ e.pad = d.pad /\ CapsOnly(d, e, p)
    BY <1>1, <1>3, <2>1
  <2>. QED BY <2>1, <2>2 DEF e
<1>4. CASE g.ret # "ERROR"
  <2>1. e = RenewCaps(g, p, codec) /\ g \in DemuxType
    BY <1>1, <1>2, <1>4 DEF CapsOnly
  <2>2. /\ CapsOnly(g, e, p)
        /\ e.pad[p].exists = g.pad[p].exists
        /\ codec = g.pad[p].codec /\ ~(p = "video" /\ g.got_par) => e = g
        /\ e.pad[p].codec \in {g.pad[p].codec, codec}
        /\ e.ret # "ERROR" => e.ret = g.ret /\ e.pad[p].codec = codec
    BY <1>4, <2>1, RenewCapsType
  <2>3. CapsOnly(d, e, p)
    BY <1>1, <2>2, CapsOnlyTrans
  <2>4. CASE d.pad[p].exists
    <3>1. g = d
      BY <1>1, <2>4
    <3>2. Keeps(d, p, codec) => e = d
      BY <2>2, <2>4, <3>1 DEF Keeps
    <3>3. e.pad[p].exists
      BY <2>2, <2>4, <3>1
    <3>. QED BY <2>2, <2>3, <2>4, <3>1, <3>2, <3>3 DEF e
  <2>5. CASE ~d.pad[p].exists
    <3>1. /\ g.ret = d.ret /\ g.pad[p].exists /\ g.pad[p].codec = codec
          /\ p = "video" => ~g.got_par
      BY <1>1, <1>4, <2>5
    <3>2. e = g
      BY <2>2, <3>1
    <3>3. e.pad[p].exists /\ e.pad[p].codec = codec /\ e.ret = d.ret
          /\ e.pad[p].codec_data = d.pad[p].codec_data
      BY <1>1, <3>1, <3>2
    <3>. QED BY <2>3, <2>5, <3>3 DEF e
  <2>. QED BY <2>4, <2>5
<1>. QED BY <1>3, <1>4

\* What a media tag does to its stream.
MediaDoes(d, e, i, tag, flow) ==
  LET p == tag.type
      pad == d.pad[p]
      new == e.pad[p]
  IN /\ e \in DemuxType /\ SamePlace(d, e) /\ OnlyPad(d, e, p)
     /\ e.has = d.has /\ e.file_size = d.file_size
     /\ e.upstream_seekable = d.upstream_seekable /\ e.indexed = d.indexed
     /\ e.got_par => d.got_par
     /\ e.ret = "FLUSHING" => flow = "FLUSHING"
     /\ pad.exists => new.exists
     /\ new.codec \in {pad.codec, tag.codec}
     /\ ~pad.exists /\ new.exists => new.codec = tag.codec
     /\ Keeps(d, p, tag.codec) /\ pad.codec_data => new.codec_data
     /\ e.index = d.index \/ (~d.indexed /\ HasPayload(tag) /\ Indexes(d, e, p, tag))
     /\ new.out.eos = pad.out.eos
     /\ \/ /\ new.out = pad.out /\ new.need_discont = pad.need_discont
           /\ SameTimes(pad, new) /\ e.index = d.index
           /\ HasPayload(tag) => Dropped(d, p, tag) \/ e.ret = "ERROR"
        \/ /\ HasPayload(tag) /\ new.exists /\ ~new.need_discont
           /\ new.codec = tag.codec
           /\ new.last = tag.time /\ new.time_offset = Shift(pad, tag.time)
           /\ tag.codec = "configured" => pad.codec_data
           /\ flow \in Closed =>
                new.out.tag = pad.out.tag /\ new.out.discont = pad.out.discont
           /\ flow \notin Closed =>
                new.out.tag = i /\ new.out.discont = pad.need_discont

LEMMA ParseMediaDoes ==
  ASSUME NEW d \in DemuxType, NEW i \in Nat, NEW tag \in Tags, tag.type \in Streams,
         NEW flow \in Returns
  PROVE  MediaDoes(d, ParseMedia(d, i, tag, flow), i, tag, flow)
<1> DEFINE p == tag.type
           a == [d EXCEPT !.ret = "OK"]
           r == Renewed(a, p, tag.codec)
           e == ParseMedia(d, i, tag, flow)
<1>1. p \in Streams /\ tag.codec \in Codecs /\ tag.packet \in {"raw", "config", "end", "none"}
  BY DEF Tags
<1>2. /\ a \in DemuxType /\ SamePlace(d, a) /\ a.pad = d.pad /\ a.index = d.index
      /\ a.has = d.has /\ a.file_size = d.file_size /\ a.got_par = d.got_par
      /\ a.upstream_seekable = d.upstream_seekable /\ a.ret = "OK"
      /\ a.cur_tag_offset = d.cur_tag_offset /\ a.indexed = d.indexed
  BY DEF DemuxType, SamePlace, FlowReturns
<1>3. d.pad[p] \in PadType /\ d.got_par \in BOOLEAN
  BY <1>1, PadOf DEF DemuxType
<1>4. e = IF Dropped(d, p, tag) THEN a
          ELSE IF tag.packet = "none" THEN [a EXCEPT !.ret = "ERROR"]
          ELSE IF tag.codec = "configured" /\ tag.packet = "config"
          THEN LET g == [a EXCEPT !.pad[p].codec_data = TRUE]
               IN IF d.pad[p].exists THEN Negotiate(g, p, tag.codec) ELSE g
          ELSE IF r.ret = "ERROR" \/ tag.packet # "raw" THEN r
          ELSE PushBuffer(r, p, i, tag, flow)
  BY DEF ParseMedia, Renewed
<1> HIDE DEF a, r, e
<1> SUFFICES MediaDoes(d, e, i, tag, flow)
  BY DEF e
<1>5. CASE Dropped(d, p, tag)
  <2>1. e = a
    BY <1>4, <1>5
  <2>. QED BY <1>2, <1>3, <1>5, <2>1 DEF MediaDoes, OnlyPad, SameTimes
<1>6. CASE ~Dropped(d, p, tag) /\ tag.packet = "none"
  <2>1. e = [a EXCEPT !.ret = "ERROR"]
    BY <1>4, <1>6
  <2>2. /\ e \in DemuxType /\ SamePlace(d, e) /\ e.pad = d.pad /\ e.index = d.index
        /\ e.has = d.has /\ e.file_size = d.file_size /\ e.got_par = d.got_par
        /\ e.upstream_seekable = d.upstream_seekable /\ e.ret = "ERROR"
        /\ e.indexed = d.indexed
    BY <1>2, <2>1 DEF DemuxType, SamePlace, FlowReturns
  <2>. QED BY <1>3, <1>6, <2>2 DEF MediaDoes, OnlyPad, SameTimes
<1>7. CASE ~Dropped(d, p, tag) /\ tag.codec = "configured" /\ tag.packet = "config"
  <2> DEFINE pad == [d.pad[p] EXCEPT !.codec_data = TRUE]
             g == [a EXCEPT !.pad[p] = pad]
  <2>1. g = [a EXCEPT !.pad[p].codec_data = TRUE]
    BY <1>2 DEF DemuxType
  <2>2. e = IF d.pad[p].exists THEN Negotiate(g, p, tag.codec) ELSE g
    BY <1>4, <1>7, <2>1
  <2>3. /\ pad \in PadType /\ pad.out = d.pad[p].out /\ pad.exists = d.pad[p].exists
        /\ pad.need_discont = d.pad[p].need_discont /\ pad.codec = d.pad[p].codec
        /\ pad.codec_data /\ SameTimes(d.pad[p], pad)
    BY <1>3 DEF PadType, SameTimes
  <2>. HIDE DEF pad
  <2>4. g \in DemuxType /\ g.pad[p] = pad /\ OnlyPad(a, g, p)
    BY <1>1, <1>2, <2>3, PadChange
  <2>5. /\ SamePlace(a, g) /\ g.index = a.index /\ g.has = a.has
        /\ g.file_size = a.file_size /\ g.got_par = a.got_par
        /\ g.upstream_seekable = a.upstream_seekable /\ g.ret = a.ret
        /\ g.indexed = a.indexed
    BY <1>2 DEF DemuxType, SamePlace
  <2>. HIDE DEF g
  <2>6. ~HasPayload(tag)
    BY <1>7 DEF HasPayload
  <2>7. CASE d.pad[p].exists
    <3>1. e = Negotiate(g, p, tag.codec)
      BY <2>2, <2>7
    <3>2. /\ CapsOnly(g, e, p) /\ e.pad[p].exists = g.pad[p].exists
          /\ e.pad[p].codec_data = g.pad[p].codec_data /\ e.got_par = g.got_par
          /\ e.ret = g.ret /\ e.pad[p].codec = tag.codec
      BY <1>1, <1>7, <2>4, <3>1, NegotiateType
    <3>3. SamePlace(d, e) /\ OnlyPad(d, e, p)
      BY <1>2, <2>4, <2>5, <3>2 DEF CapsOnly, SamePlace, OnlyPad
    <3>. QED BY <1>2, <1>3, <2>3, <2>4, <2>5, <2>6, <2>7, <3>2, <3>3
          DEF MediaDoes, CapsOnly, SameTimes
  <2>8. CASE ~d.pad[p].exists
    <3>1. e = g
      BY <2>2, <2>8
    <3>2. SamePlace(d, e) /\ OnlyPad(d, e, p)
      BY <1>2, <2>4, <2>5, <3>1 DEF SamePlace, OnlyPad
    <3>. QED BY <1>2, <1>3, <2>3, <2>4, <2>5, <2>6, <2>8, <3>1, <3>2 DEF MediaDoes
  <2>. QED BY <2>7, <2>8
<1>8. CASE /\ ~Dropped(d, p, tag) /\ tag.packet # "none"
           /\ ~(tag.codec = "configured" /\ tag.packet = "config")
  <2>1. /\ CapsOnly(a, r, p)
        /\ r.ret # "ERROR" => r.ret = a.ret /\ r.pad[p].exists /\ r.pad[p].codec = tag.codec
        /\ r.pad[p].codec \in {a.pad[p].codec, tag.codec}
        /\ ~a.pad[p].exists /\ r.pad[p].exists => r.pad[p].codec = tag.codec
        /\ Keeps(a, p, tag.codec) => r.pad[p].codec_data = a.pad[p].codec_data
    BY <1>1, <1>2, RenewedType DEF r
  <2>2. /\ r \in DemuxType /\ SamePlace(d, r) /\ OnlyPad(d, r, p)
        /\ r.has = d.has /\ r.file_size = d.file_size /\ r.index = d.index
        /\ r.upstream_seekable = d.upstream_seekable
        /\ r.got_par \in BOOLEAN /\ (r.got_par => d.got_par)
        /\ r.pad[p].out = d.pad[p].out /\ r.pad[p].need_discont = d.pad[p].need_discont
        /\ (d.pad[p].exists => r.pad[p].exists)
        /\ r.cur_tag_offset = d.cur_tag_offset /\ r.indexed = d.indexed
        /\ SameTimes(d.pad[p], r.pad[p])
    BY <1>2, <2>1 DEF CapsOnly, SamePlace, OnlyPad
  <2>3. Keeps(a, p, tag.codec) <=> Keeps(d, p, tag.codec)
    BY <1>2 DEF Keeps
  <2>4. tag.codec = "configured" /\ tag.packet = "raw" => d.pad[p].codec_data
    BY <1>8 DEF Dropped
  <2>5. r.ret \in {"OK", "ERROR"}
    BY <1>2, <2>1
  <2>6. CASE r.ret = "ERROR" \/ tag.packet # "raw"
    <3>1. e = r
      BY <1>4, <1>8, <2>6
    <3>2. HasPayload(tag) => e.ret = "ERROR"
      BY <2>6, <3>1 DEF HasPayload
    <3>. QED BY <1>2, <1>3, <2>1, <2>2, <2>3, <2>5, <3>1, <3>2 DEF MediaDoes
  <2>7. CASE r.ret # "ERROR" /\ tag.packet = "raw"
    <3>1. e = PushBuffer(r, p, i, tag, flow)
      BY <1>4, <1>8, <2>7
    <3>2. BufferDoes(r, e, p, i, tag, flow)
      BY <1>1, <2>2, <3>1, PushBufferDoes
    <3>3. /\ e \in DemuxType /\ SamePlace(d, e) /\ OnlyPad(d, e, p)
          /\ e.has = d.has /\ e.file_size = d.file_size
          /\ e.upstream_seekable = d.upstream_seekable /\ (e.got_par => d.got_par)
          /\ e.indexed = d.indexed
      BY <2>2, <3>2 DEF BufferDoes, PushOnly, SamePlace, OnlyPad
    <3>4. /\ e.pad[p].exists /\ e.pad[p].codec = tag.codec
          /\ e.pad[p].codec_data = r.pad[p].codec_data
      BY <2>1, <2>7, <3>2 DEF BufferDoes, PushOnly
    <3>5. HasPayload(tag)
      BY <1>1, <2>7 DEF HasPayload
    <3>0. Shift(r.pad[p], tag.time) = Shift(d.pad[p], tag.time)
      BY <2>2 DEF Shift, Resyncs, SameTimes
    <3>6. e.index = d.index \/ (~d.indexed /\ Indexes(d, e, p, tag))
      BY <2>2, <3>0, <3>2 DEF BufferDoes, Indexes
    <3>7. Keeps(d, p, tag.codec) /\ d.pad[p].codec_data => e.pad[p].codec_data
      BY <1>2, <2>1, <2>3, <3>4
    <3>8. e.pad[p].out.eos = d.pad[p].out.eos
      BY <2>2, <3>2 DEF BufferDoes
    <3>. HIDE DEF p
    <3>9. /\ tag.codec = "configured" => d.pad[p].codec_data
          /\ flow \in Closed =>
               /\ e.pad[p].out.tag = d.pad[p].out.tag
               /\ e.pad[p].out.discont = d.pad[p].out.discont
          /\ flow \notin Closed =>
               /\ e.pad[p].out.tag = i
               /\ e.pad[p].out.discont = d.pad[p].need_discont
          /\ e.pad[p].last = tag.time /\ e.pad[p].time_offset = Shift(d.pad[p], tag.time)
      BY <2>2, <2>4, <2>7, <3>0, <3>2 DEF BufferDoes
    <3>. QED BY <3>2, <3>3, <3>4, <3>5, <3>6, <3>7, <3>8, <3>9 DEF MediaDoes, BufferDoes, p
  <2>. QED BY <2>6, <2>7
<1>. QED BY <1>1, <1>5, <1>6, <1>7, <1>8

LEMMA TagTypeType ==
  ASSUME NEW d \in DemuxType, NEW tag \in Tags
  PROVE  LET e == gst_flv_demux_parse_tag_type(d, tag) IN
         /\ e \in DemuxType
         /\ e.state = (CASE tag.type = "video" -> "TAG_VIDEO"
                         [] tag.type = "audio" -> "TAG_AUDIO"
                         [] tag.type = "script" -> "TAG_SCRIPT"
                         [] OTHER -> "SKIP")
         /\ e.ret = "OK" /\ e.pad = d.pad /\ e.index = d.index
         /\ e.offset = d.offset /\ e.cur_tag_offset = d.cur_tag_offset
         /\ e.got_par = d.got_par /\ e.segment = d.segment /\ e.file_size = d.file_size
BY DEF gst_flv_demux_parse_tag_type, DemuxType, States, FlowReturns, Tags

LEMMA HeaderType ==
  ASSUME NEW d \in DemuxType, NEW flags \in SUBSET Streams, NEW seekable \in BOOLEAN
  PROVE  LET e == gst_flv_demux_parse_header(d, flags, seekable) IN
         /\ e \in DemuxType
         /\ e = [d EXCEPT !.has = flags, !.upstream_seekable = seekable, !.ret = "OK"]
BY DEF gst_flv_demux_parse_header, DemuxType, FlowReturns

LEMMA NewPadType ==
  NewPad \in PadType /\ WholeSegment \in Segments /\ NoSegment \in Segments
<1>1. WholeSegment \in Segments /\ NoSegment \in Segments
  BY DEF WholeSegment, NoSegment, Segments, TIME_NONE
<1>2. NothingOut \in OutType
  BY <1>1 DEF NothingOut, OutType
<1>3. NoCaps \in [codec : Codecs \cup {"none"}, codec_data : BOOLEAN, par : BOOLEAN]
  BY DEF NoCaps, Codecs
<1>4. 0 \in 0..(U32 - 1)
  BY TagsAssumption
<1>. QED BY <1>1, <1>2, <1>3, <1>4 DEF NewPad, PadType, FlowReturns, TIME_NONE

LEMMA NewDemuxType == NewDemux \in DemuxType
<1>1. <<>> \in Seq(Entries)
  OBVIOUS
<1>. QED BY <1>1, NewPadType DEF NewDemux, DemuxType, States, FlowReturns, TIME_NONE

LEMMA CleanupType ==
  ASSUME NEW d \in DemuxType
  PROVE  LET e == gst_flv_demux_cleanup(d) IN
         /\ e \in DemuxType /\ e.state = "HEADER" /\ e.offset = 0 /\ e.index = <<>>
         /\ e.ret = "OK" /\ ~e.got_par /\ e.has = {}
         /\ ~e.indexed /\ e.file_size = 0
         /\ \A p \in Streams : /\ ~e.pad[p].exists /\ e.pad[p].need_discont
                               /\ e.pad[p].codec = d.pad[p].codec
                               /\ ~e.pad[p].codec_data
                               /\ e.pad[p].out = NothingOut
                               /\ e.pad[p].time_offset = 0
<1> DEFINE pads == [p \in Streams |-> [NewPad EXCEPT !.codec = d.pad[p].codec,
                                                     !.first_ts = d.pad[p].first_ts,
                                                     !.done = d.pad[p].done]]
<1>1. NewPad \in PadType
  BY NewPadType
<1>2. ASSUME NEW p \in Streams
      PROVE  /\ pads[p] \in PadType
             /\ ~pads[p].exists /\ pads[p].need_discont /\ ~pads[p].codec_data
             /\ pads[p].codec = d.pad[p].codec /\ pads[p].out = NothingOut
             /\ pads[p].time_offset = 0
  <2>1. d.pad[p] \in PadType
    BY PadOf
  <2>2. pads[p] \in PadType
    BY <1>1, <2>1 DEF PadType
  <2>3. ~NewPad.exists /\ NewPad.need_discont /\ ~NewPad.codec_data
        /\ NewPad.out = NothingOut /\ NewPad.time_offset = 0
    BY DEF NewPad
  <2>4. pads[p] = [NewPad EXCEPT !.codec = d.pad[p].codec,
                                 !.first_ts = d.pad[p].first_ts, !.done = d.pad[p].done]
    OBVIOUS
  <2>. HIDE DEF pads
  <2>. QED BY <1>1, <2>2, <2>3, <2>4 DEF PadType
<1>3. gst_flv_demux_cleanup(d) = [NewDemux EXCEPT !.pad = pads]
  BY DEF gst_flv_demux_cleanup
<1>4. pads \in [Streams -> PadType]
  BY <1>2
<1>5. /\ NewDemux.state = "HEADER" /\ NewDemux.offset = 0 /\ NewDemux.index = <<>>
      /\ NewDemux.ret = "OK" /\ ~NewDemux.got_par /\ NewDemux.has = {}
      /\ ~NewDemux.indexed /\ NewDemux.file_size = 0
  BY DEF NewDemux
<1> HIDE DEF pads
<1> DEFINE e == [NewDemux EXCEPT !.pad = pads]
<1>6. e \in DemuxType /\ e.pad = pads
  BY <1>4, NewDemuxType DEF DemuxType
<1>7. /\ e.state = "HEADER" /\ e.offset = 0 /\ e.index = <<>>
      /\ e.ret = "OK" /\ ~e.got_par /\ e.has = {} /\ ~e.indexed /\ e.file_size = 0
  BY <1>5, NewDemuxType DEF DemuxType
<1>. QED BY <1>2, <1>3, <1>6, <1>7

---------------------------------------------------------------------------
(* Seeking. *)

LEMMA DoSeekType ==
  ASSUME NEW segment \in Segments, NEW target \in Int, NEW rate \in {-1, 1}
  PROVE  gst_segment_do_seek(segment, target, rate) \in Segments
<1>1. rate \in {-1, 0, 1}
  OBVIOUS
<1>2. 0 \in Int /\ TIME_NONE \in Int
  BY DEF TIME_NONE
<1>. QED BY <1>1, <1>2 DEF gst_segment_do_seek, Segments

LEMMA FoundEntryIn ==
  ASSUME NEW d \in DemuxType, NEW segment \in Segments, NEW after \in BOOLEAN
  PROVE  FoundEntry(d, segment, after) \in {NULL} \cup DOMAIN d.index
<1>1. segment.position \in Int /\ "time" \in Formats /\ d.index \in Seq(Entries)
  BY DEF Segments, Formats, DemuxType
<1>. QED BY <1>1, LookupIn DEF FoundEntry

\* The offset found is that of an entry, or the start of the file.
LEMMA FindOffsetType ==
  ASSUME NEW d \in DemuxType, NEW segment \in Segments, NEW after \in BOOLEAN
  PROVE  LET offset == gst_flv_demux_find_offset(d, segment, after) IN
         /\ offset \in Nat
         /\ offset = 0 \/ \E k \in DOMAIN d.index : offset = d.index[k].pos
<1> DEFINE entry == FoundEntry(d, segment, after)
<1>1. entry \in {NULL} \cup DOMAIN d.index
  BY FoundEntryIn
<1>2. \A k \in DOMAIN d.index : d.index[k].pos \in Nat
  BY EntriesHold DEF DemuxType, Formats
<1> HIDE DEF entry
<1>. QED BY <1>1, <1>2 DEF gst_flv_demux_find_offset, entry

LEMMA KeyUnitSegmentType ==
  ASSUME NEW d \in DemuxType, NEW segment \in Segments, NEW key_unit \in BOOLEAN,
         NEW after \in BOOLEAN
  PROVE  KeyUnitSegment(d, segment, key_unit, after) \in Segments
<1> DEFINE entry == FoundEntry(d, segment, after)
           time == d.index[entry].time
           moved == [segment EXCEPT !.start = time, !.position = time]
<1>1. entry \in {NULL} \cup DOMAIN d.index
  BY FoundEntryIn
<1>2. \A k \in DOMAIN d.index : d.index[k].time \in Nat
  BY EntriesHold DEF DemuxType, Formats
<1>3. KeyUnitSegment(d, segment, key_unit, after)
        = IF entry = NULL \/ ~key_unit THEN segment ELSE moved
  BY DEF KeyUnitSegment
<1> HIDE DEF entry
<1>4. CASE entry = NULL \/ ~key_unit
  BY <1>3, <1>4
<1>5. CASE ~(entry = NULL \/ ~key_unit)
  <2>1. time \in Int
    BY <1>1, <1>2, <1>5
  <2>. HIDE DEF time
  <2>2. moved \in Segments
    BY <2>1 DEF Segments
  <2>. QED BY <1>3, <1>5, <2>2
<1>. QED BY <1>4, <1>5

===========================================================================
