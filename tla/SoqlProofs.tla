------------------------------ MODULE SoqlProofs ------------------------------
(***************************************************************************)
(* Proofs about Soql: what the passes of run_query compute is the order    *)
(* of SOQL, for any store and any query.                                   *)
(***************************************************************************)
EXTENDS Soql, FiniteSetTheorems, SequenceTheorems, WellFoundedInduction, TLAPS

\* Induction over the natural numbers: the least one for which something fails.
LEMMA LeastNatural ==
  ASSUME NEW T, T \subseteq Nat, T # {}
  PROVE  \E n \in T : \A m \in T : n <= m
<1> DEFINE Less == {p \in Nat \X Nat : p[1] < p[2]}
<1>1. IsWellFoundedOn(Less, Nat)
  BY NatLessThanWellFounded DEF OpToRel
<1>2. PICK n \in T : \A m \in T : ~(<<m, n>> \in Less)
  BY <1>1, WFMin
<1>3. ASSUME NEW m \in T PROVE n <= m
  <2>1. m \in Nat /\ n \in Nat /\ ~(<<m, n>> \in Less)
    BY <1>2
  <2>. QED
    BY <2>1
<1>. QED
  BY <1>3

\* The passes are defined: each is the sort of the one before it.
LEMMA PassesDefined ==
  ASSUME NEW accounts, NEW opps, NEW rows, NEW order_by, Len(order_by) \in Nat
  PROVE  LET passed == Passes(accounts, opps, rows, order_by) IN
         /\ passed[0] = Listed(rows)
         /\ \A n \in 1..Len(order_by) :
               passed[n] = SortedBy(accounts, opps, passed[n - 1],
                                    order_by[Len(order_by) + 1 - n])
<1> DEFINE Pass(list, n) == SortedBy(accounts, opps, list, order_by[Len(order_by) + 1 - n])
           IsPasses(f, b) == f = [n \in 0..b |-> IF n = 0 THEN Listed(rows) ELSE Pass(f[n - 1], n)]
           Undefined == {b \in Nat : ~\E f : IsPasses(f, b)}
<1>1. Undefined = {}
  <2> SUFFICES ASSUME Undefined # {} PROVE FALSE
    OBVIOUS
  <2>1. PICK b \in Undefined : \A m \in Undefined : b <= m
    BY LeastNatural
  <2>2. CASE b = 0
    <3> DEFINE f == [n \in 0..b |-> Listed(rows)]
    <3>1. IsPasses(f, b)
      BY <2>2
    <3>. QED
      BY <3>1, <2>1
  <2>3. CASE b # 0
    <3>1. b \in Nat /\ b - 1 \in Nat /\ b - 1 \notin Undefined
      BY <2>1, <2>3
    <3>2. PICK f : IsPasses(f, b - 1)
      BY <3>1
    <3> DEFINE g == [n \in 0..b |-> IF n = b THEN Pass(f[b - 1], b) ELSE f[n]]
    <3> HIDE DEF Pass
    <3>3. ASSUME NEW n \in 0..b
          PROVE  g[n] = IF n = 0 THEN Listed(rows) ELSE Pass(g[n - 1], n)
      <4>1. CASE n = b
        BY <3>1, <4>1, <2>3
      <4>2. CASE n # b
        <5>1. n \in 0..(b - 1) /\ g[n] = f[n] /\ (n # 0 => n - 1 \in 0..b /\ n - 1 # b /\ g[n - 1] = f[n - 1])
          BY <3>1, <4>2
        <5>. QED
          BY <3>2, <5>1
      <4>. QED
        BY <4>1, <4>2
    <3>4. IsPasses(g, b)
      BY <3>3
    <3>. QED
      BY <3>4, <2>1
  <2>. QED
    BY <2>2, <2>3
<1> HIDE DEF Pass
<1>2. \E f : IsPasses(f, Len(order_by))
  BY <1>1
<1>3. IsPasses(Passes(accounts, opps, rows, order_by), Len(order_by))
  BY <1>2 DEF Passes, Pass
<1>. QED
  BY <1>3 DEF Pass
-----------------------------------------------------------------------------
\* Orders as sets of pairs, and the place of each element of S in such an order.

StrictOrder(R, S) ==
    /\ \A i \in S : <<i, i>> \notin R
    /\ \A i, j, k \in S : <<i, j>> \in R /\ <<j, k>> \in R => <<i, k>> \in R
    /\ \A i, j \in S : i # j => <<i, j>> \in R \/ <<j, i>> \in R

UpTo(R, S, i) == {j \in S : j = i \/ <<j, i>> \in R}
Places(R, S) == [i \in S |-> Cardinality(UpTo(R, S, i))]

LEMMA UpToIsFinite ==
  ASSUME NEW S, IsFiniteSet(S), NEW R, NEW i \in S
  PROVE  /\ IsFiniteSet(UpTo(R, S, i))
         /\ Places(R, S)[i] = Cardinality(UpTo(R, S, i))
         /\ Places(R, S)[i] \in 1..Cardinality(S)
<1>1. UpTo(R, S, i) \in SUBSET S /\ UpTo(R, S, i) # {}
  BY DEF UpTo
<1>2. /\ IsFiniteSet(UpTo(R, S, i))
      /\ Cardinality(UpTo(R, S, i)) <= Cardinality(S)
  BY <1>1, FS_Subset
<1>3. Cardinality(UpTo(R, S, i)) \in Nat /\ Cardinality(S) \in Nat
      /\ Cardinality(UpTo(R, S, i)) # 0
  BY <1>1, <1>2, FS_CardinalityType, FS_EmptySet
<1>. QED
  BY <1>2, <1>3 DEF Places

\* What comes first has the smaller place.
LEMMA PlacesGrow ==
  ASSUME NEW S, IsFiniteSet(S), NEW R, StrictOrder(R, S),
         NEW i \in S, NEW j \in S, <<i, j>> \in R
  PROVE  Places(R, S)[i] < Places(R, S)[j]
<1>1. UpTo(R, S, i) \subseteq UpTo(R, S, j) \ {j}
  BY DEF UpTo, StrictOrder
<1>2. j \in UpTo(R, S, j)
  BY DEF UpTo
<1>3. /\ IsFiniteSet(UpTo(R, S, j) \ {j})
      /\ Cardinality(UpTo(R, S, j) \ {j}) = Cardinality(UpTo(R, S, j)) - 1
  BY <1>2, UpToIsFinite, FS_RemoveElement
<1>4. Cardinality(UpTo(R, S, i)) <= Cardinality(UpTo(R, S, j)) - 1
  BY <1>1, <1>3, FS_Subset
<1>. QED
  BY <1>4, UpToIsFinite

\* The places tell the order, and there is one element in each.
LEMMA PlacesOrder ==
  ASSUME NEW S, IsFiniteSet(S), NEW R, StrictOrder(R, S)
  PROVE  /\ \A i, j \in S : Places(R, S)[i] <= Places(R, S)[j] <=> i = j \/ <<i, j>> \in R
         /\ \A n \in 1..Cardinality(S) : \E i \in S : Places(R, S)[i] = n
         /\ \A i, j \in S : Places(R, S)[i] = Places(R, S)[j] => i = j
<1> DEFINE P == Places(R, S)
<1>1. \A i \in S : P[i] \in 1..Cardinality(S)
  BY UpToIsFinite
<1>2. Cardinality(S) \in Nat
  BY FS_CardinalityType
<1>3. ASSUME NEW i \in S, NEW j \in S
      PROVE  P[i] <= P[j] <=> i = j \/ <<i, j>> \in R
  <2>1. P[i] \in Int /\ P[j] \in Int
    BY <1>1, <1>2
  <2>2. CASE i = j
    BY <2>1, <2>2
  <2>3. CASE <<i, j>> \in R
    BY <2>1, <2>3, PlacesGrow
  <2>4. CASE i # j /\ <<i, j>> \notin R
    <3>1. <<j, i>> \in R
      BY <2>4 DEF StrictOrder
    <3>2. P[j] < P[i]
      BY <3>1, PlacesGrow
    <3>. QED
      BY <2>1, <2>4, <3>2
  <2>. QED
    BY <2>2, <2>3, <2>4
<1>4. ASSUME NEW i \in S, NEW j \in S, P[i] = P[j] PROVE i = j
  BY <1>1, <1>2, <1>3, <1>4 DEF StrictOrder
<1>5. P \in Injection(S, 1..Cardinality(S))
  BY <1>1, <1>4 DEF Places, Injection, IsInjective
<1>6. IsFiniteSet(1..Cardinality(S)) /\ Cardinality(1..Cardinality(S)) = Cardinality(S)
  BY <1>2, FS_Interval
<1>7. P \in Surjection(S, 1..Cardinality(S))
  BY <1>5, <1>6, FS_Injection
<1>8. \A n \in 1..Cardinality(S) : \E i \in S : P[i] = n
  BY <1>7 DEF Surjection
<1>. QED
  BY <1>3, <1>4, <1>8
-----------------------------------------------------------------------------
\* One pass: the key's order refined by the order of the list that is sorted.

Comparable(accounts, opps, S, key) ==
    /\ Null \notin Int
    /\ \A i \in S : FieldValue(accounts, opps[i], key.field) \in Int \cup {Null}

\* The key does not tell the two apart.
Tie(accounts, opps, key, i, j) ==
    FieldValue(accounts, opps[i], key.field) = FieldValue(accounts, opps[j], key.field)

LEMMA KeysOrderRows ==
  ASSUME NEW accounts, NEW opps, NEW S, NEW key, Comparable(accounts, opps, S, key),
         NEW i \in S, NEW j \in S, NEW k \in S
  PROVE  LET B(m, n) == Before(accounts, opps, key, m, n) IN
         /\ ~B(i, i)
         /\ B(i, j) /\ B(j, k) => B(i, k)
         /\ B(i, j) => B(i, k) \/ B(k, j)
         /\ Tie(accounts, opps, key, i, j) <=> ~B(i, j) /\ ~B(j, i)
<1> DEFINE v(n) == FieldValue(accounts, opps[n], key.field)
<1>1. /\ v(i) \in Int \cup {Null} /\ v(j) \in Int \cup {Null} /\ v(k) \in Int \cup {Null}
      /\ Null \notin Int
  BY DEF Comparable
<1> HIDE DEF v
<1>2. /\ ~Below(v(i), v(i))
      /\ Below(v(i), v(j)) /\ Below(v(j), v(k)) => Below(v(i), v(k))
      /\ Below(v(k), v(j)) /\ Below(v(j), v(i)) => Below(v(k), v(i))
      /\ Below(v(i), v(j)) => Below(v(i), v(k)) \/ Below(v(k), v(j))
      /\ Below(v(j), v(i)) => Below(v(k), v(i)) \/ Below(v(j), v(k))
      /\ v(i) = v(j) <=> ~Below(v(i), v(j)) /\ ~Below(v(j), v(i))
  BY <1>1 DEF Below
<1>. QED
  BY <1>2 DEF Before, Tie, v

\* The order of the list after the pass, from its order R before it.
Refined(accounts, opps, S, key, R) ==
    {p \in S \X S : \/ Before(accounts, opps, key, p[1], p[2])
                    \/ ~Before(accounts, opps, key, p[2], p[1]) /\ p \in R}

LEMMA RefinedIsOrder ==
  ASSUME NEW accounts, NEW opps, NEW S, NEW key, Comparable(accounts, opps, S, key),
         NEW R, StrictOrder(R, S)
  PROVE  StrictOrder(Refined(accounts, opps, S, key, R), S)
<1> DEFINE B(m, n) == Before(accounts, opps, key, m, n)
           Q == Refined(accounts, opps, S, key, R)
<1>1. \A i, j \in S : <<i, j>> \in Q <=> B(i, j) \/ (~B(j, i) /\ <<i, j>> \in R)
  BY DEF Refined
<1>2. \A i, j, k \in S : /\ ~B(i, i)
                         /\ B(i, j) /\ B(j, k) => B(i, k)
                         /\ B(i, j) => B(i, k) \/ B(k, j)
  BY KeysOrderRows
<1> HIDE DEF B, Q
<1>3. ASSUME NEW i \in S PROVE <<i, i>> \notin Q
  BY <1>1, <1>2 DEF StrictOrder
<1>4. ASSUME NEW i \in S, NEW j \in S, NEW k \in S, <<i, j>> \in Q, <<j, k>> \in Q
      PROVE  <<i, k>> \in Q
  <2>1. <<i, j>> \in R /\ <<j, k>> \in R => <<i, k>> \in R
    BY DEF StrictOrder
  <2>. QED
    BY <1>1, <1>2, <1>4, <2>1
<1>5. ASSUME NEW i \in S, NEW j \in S, i # j PROVE <<i, j>> \in Q \/ <<j, i>> \in Q
  BY <1>1, <1>5 DEF StrictOrder
<1>. QED
  BY <1>3, <1>4, <1>5 DEF StrictOrder, Q

LEMMA PassSorts ==
  ASSUME NEW accounts, NEW opps, NEW S, IsFiniteSet(S), NEW key,
         Comparable(accounts, opps, S, key), NEW R, StrictOrder(R, S)
  PROVE  SortedBy(accounts, opps, Places(R, S), key) =
             Places(Refined(accounts, opps, S, key, R), S)
<1> DEFINE B(m, n) == Before(accounts, opps, key, m, n)
           Q == Refined(accounts, opps, S, key, R)
<1>1. ASSUME NEW i \in S
      PROVE  {j \in S : B(j, i) \/ (~B(i, j) /\ Places(R, S)[j] <= Places(R, S)[i])}
                 = UpTo(Q, S, i)
  <2>1. ASSUME NEW j \in S
        PROVE  B(j, i) \/ (~B(i, j) /\ Places(R, S)[j] <= Places(R, S)[i])
                   <=> j = i \/ <<j, i>> \in Q
    <3>1. Places(R, S)[j] <= Places(R, S)[i] <=> j = i \/ <<j, i>> \in R
      BY PlacesOrder
    <3>2. <<j, i>> \in Q <=> B(j, i) \/ (~B(i, j) /\ <<j, i>> \in R)
      BY DEF Refined
    <3>3. ~B(i, i)
      BY KeysOrderRows
    <3> HIDE DEF B, Q
    <3>. QED
      BY <3>1, <3>2, <3>3
  <2> HIDE DEF B, Q
  <2>. QED
    BY <2>1 DEF UpTo
<1>2. DOMAIN Places(R, S) = S
  BY DEF Places
<1>. QED
  BY <1>1, <1>2, Zenon DEF SortedBy, Places
-----------------------------------------------------------------------------
\* The passes, from the last key to the first: the lexicographic order of keys
\* m, m + 1, ..., ties as the rows were inserted.

Follow(accounts, opps, order_by, m, i, j) ==
    \/ \E k \in m..Len(order_by) : /\ \A h \in m..(k - 1) : Tie(accounts, opps, order_by[h], i, j)
                                   /\ Before(accounts, opps, order_by[k], i, j)
    \/ i < j /\ \A k \in m..Len(order_by) : Tie(accounts, opps, order_by[k], i, j)

Lexicographic(accounts, opps, S, order_by, m) ==
    {p \in S \X S : Follow(accounts, opps, order_by, m, p[1], p[2])}

LEMMA LexicographicStep ==
  ASSUME NEW accounts, NEW opps, NEW S, NEW order_by, Len(order_by) \in Nat,
         NEW m \in 1..Len(order_by), Comparable(accounts, opps, S, order_by[m])
  PROVE  Lexicographic(accounts, opps, S, order_by, m) =
             Refined(accounts, opps, S, order_by[m],
                     Lexicographic(accounts, opps, S, order_by, m + 1))
<1> DEFINE T(k, i, j) == Tie(accounts, opps, order_by[k], i, j)
           B(k, i, j) == Before(accounts, opps, order_by[k], i, j)
           F(n, i, j) == Follow(accounts, opps, order_by, n, i, j)
           N == Len(order_by)
<1>1. ASSUME NEW i \in S, NEW j \in S
      PROVE  F(m, i, j) <=> B(m, i, j) \/ (~B(m, j, i) /\ F(m + 1, i, j))
  <2>1. /\ T(m, i, j) <=> ~B(m, i, j) /\ ~B(m, j, i)
        /\ B(m, i, j) => ~B(m, j, i)
    BY KeysOrderRows
  <2>2. \A n \in {m, m + 1} : F(n, i, j) <=>
           \/ \E k \in n..N : (\A h \in n..(k - 1) : T(h, i, j)) /\ B(k, i, j)
           \/ i < j /\ \A k \in n..N : T(k, i, j)
    BY DEF Follow
  <2> HIDE DEF T, B, F
  <2>3. /\ m..N = {m} \cup ((m + 1)..N)
        /\ \A k \in (m + 1)..N : m..(k - 1) = {m} \cup ((m + 1)..(k - 1))
        /\ m..(m - 1) = {}
    OBVIOUS
  <2>4. (\A k \in m..N : T(k, i, j)) <=> T(m, i, j) /\ \A k \in (m + 1)..N : T(k, i, j)
    BY <2>3
  <2>5. (\E k \in m..N : (\A h \in m..(k - 1) : T(h, i, j)) /\ B(k, i, j)) <=>
           \/ B(m, i, j)
           \/ /\ T(m, i, j)
              /\ \E k \in (m + 1)..N : (\A h \in (m + 1)..(k - 1) : T(h, i, j)) /\ B(k, i, j)
    BY <2>3
  <2>. QED
    BY <2>1, <2>2, <2>4, <2>5
<1>. QED
  BY <1>1 DEF Lexicographic, Refined

LEMMA PassesSort ==
  ASSUME NEW accounts, NEW opps, NEW S, IsFiniteSet(S), S \subseteq Int,
         NEW order_by, Len(order_by) \in Nat,
         \A k \in 1..Len(order_by) : Comparable(accounts, opps, S, order_by[k])
  PROVE  LET R == Lexicographic(accounts, opps, S, order_by, 1)
         IN  Sorted(accounts, opps, S, order_by) = Places(R, S) /\ StrictOrder(R, S)
<1> DEFINE N == Len(order_by)
           passed == Passes(accounts, opps, S, order_by)
           R(m) == Lexicographic(accounts, opps, S, order_by, m)
           Good(n) == passed[n] = Places(R(N + 1 - n), S) /\ StrictOrder(R(N + 1 - n), S)
           Bad == {n \in 0..N : ~Good(n)}
<1>1. Good(0)
  <2>1. \A i, j \in S : <<i, j>> \in R(N + 1) <=> i < j
    BY DEF Lexicographic, Follow
  <2>2. StrictOrder(R(N + 1), S)
    <3> HIDE DEF R
    <3>. QED
      BY <2>1 DEF StrictOrder
  <2>3. ASSUME NEW i \in S PROVE UpTo(R(N + 1), S, i) = {j \in S : j <= i}
    <3>1. \A j \in S : j = i \/ <<j, i>> \in R(N + 1) <=> j <= i
      <4>1. ASSUME NEW j \in S PROVE j \in Int /\ i \in Int /\ (<<j, i>> \in R(N + 1) <=> j < i)
        BY <2>1
      <4>. QED
        BY <4>1
    <3> HIDE DEF R
    <3>. QED
      BY <3>1 DEF UpTo
  <2>4. Places(R(N + 1), S) = Listed(S)
    BY <2>3, Zenon DEF Places, Listed
  <2>5. N + 1 - 0 = N + 1
    OBVIOUS
  <2>. QED
    BY <2>2, <2>4, <2>5, PassesDefined
<1>2. Bad = {}
  <2> SUFFICES ASSUME Bad # {} PROVE FALSE
    OBVIOUS
  <2>0. Bad \subseteq Nat
    OBVIOUS
  <2> HIDE DEF Good
  <2>1. PICK n \in Bad : \A m \in Bad : n <= m
    BY <2>0, LeastNatural
  <2>2. n \in 1..N /\ n - 1 \in 0..N /\ n - 1 \notin Bad
    BY <1>1, <2>1
  <2> DEFINE m == N + 1 - n
  <2>3. m \in 1..N /\ N + 1 - (n - 1) = m + 1
    BY <2>2
  <2>4. passed[n - 1] = Places(R(m + 1), S) /\ StrictOrder(R(m + 1), S)
    BY <2>2, <2>3 DEF Good
  <2>5. passed[n] = SortedBy(accounts, opps, passed[n - 1], order_by[m])
    BY <2>2, PassesDefined
  <2>6. R(m) = Refined(accounts, opps, S, order_by[m], R(m + 1))
    BY <2>3, LexicographicStep
  <2> HIDE DEF R, passed
  <2>7. StrictOrder(R(m), S) /\ passed[n] = Places(R(m), S)
    BY <2>3, <2>4, <2>5, <2>6, PassSorts, RefinedIsOrder
  <2>. QED
    BY <2>1, <2>7 DEF Good
<1>3. Good(N)
  BY <1>2
<1>. QED
  BY <1>3 DEF Sorted
-----------------------------------------------------------------------------
\* The reference: IsAnswer of Soql, in the terms used above.

\* Every key has comparable values in the rows of the store.
Sortable(accounts, opps, query) ==
    \A k \in DOMAIN query.order_by :
        Comparable(accounts, opps, DOMAIN opps, query.order_by[k])

LEMMA PrecedesIsFollow ==
  ASSUME NEW accounts, NEW opps, NEW query, IsQuery(query),
         Sortable(accounts, opps, query), NEW i \in DOMAIN opps, NEW j \in DOMAIN opps
  PROVE  Precedes(accounts, opps, query.order_by, i, j) <=>
             Follow(accounts, opps, query.order_by, 1, i, j)
<1> DEFINE N == Len(query.order_by)
           key(k) == query.order_by[k]
           value(n, k) == FieldValue(accounts, opps[n], key(k).field)
           tie(k) == value(i, k) = value(j, k)
           first(k) == CASE value(i, k) = Null -> ~key(k).descending
                         [] value(j, k) = Null -> key(k).descending
                         [] OTHER -> IF key(k).descending
                                       THEN value(i, k) > value(j, k)
                                       ELSE value(i, k) < value(j, k)
<1>1. /\ N \in Nat /\ DOMAIN query.order_by = 1..N
      /\ \A k \in 1..N : key(k).descending \in BOOLEAN
  <2> DEFINE Keys == [field : STRING, descending : BOOLEAN]
  <2>1. query.order_by \in Seq(Keys)
    BY DEF IsQuery
  <2>2. \A key_ \in Keys : key_.descending \in BOOLEAN
    OBVIOUS
  <2> HIDE DEF Keys
  <2>. QED
    BY <2>1, <2>2
<1>2. ASSUME NEW k \in 1..N
      PROVE  ~tie(k) /\ first(k) <=> Before(accounts, opps, key(k), i, j)
  <2>1. /\ value(i, k) \in Int \cup {Null} /\ value(j, k) \in Int \cup {Null}
        /\ Null \notin Int /\ key(k).descending \in BOOLEAN
    BY <1>1 DEF Sortable, Comparable
  <2>2. Before(accounts, opps, key(k), i, j) <=>
           IF key(k).descending THEN Below(value(j, k), value(i, k))
                                ELSE Below(value(i, k), value(j, k))
    BY DEF Before
  <2> HIDE DEF value, key
  <2>. QED
    BY <2>1, <2>2 DEF Below
<1>3. \A k \in 1..N : tie(k) <=> Tie(accounts, opps, key(k), i, j)
  BY DEF Tie
<1>4. Precedes(accounts, opps, query.order_by, i, j) <=>
         \/ \E k \in 1..N : (\A h \in 1..(k - 1) : tie(h)) /\ ~tie(k) /\ first(k)
         \/ i < j /\ \A k \in 1..N : tie(k)
  BY <1>1 DEF Precedes
<1>5. \A k \in 1..N : \A h \in 1..(k - 1) : h \in 1..N
  BY <1>1
<1> HIDE DEF value, key, tie, first
<1>6. Precedes(accounts, opps, query.order_by, i, j) <=>
         \/ \E k \in 1..N : /\ \A h \in 1..(k - 1) : Tie(accounts, opps, key(h), i, j)
                            /\ Before(accounts, opps, key(k), i, j)
         \/ i < j /\ \A k \in 1..N : Tie(accounts, opps, key(k), i, j)
  BY <1>2, <1>3, <1>4, <1>5, Zenon
<1>. QED
  BY <1>6 DEF Follow, key

\* The rows that run_query selects are the ones that the conditions describe.
LEMMA SelectedAreMatches ==
  ASSUME NEW accounts, NEW opps, NEW query, IsQuery(query)
  PROVE  Selected(accounts, opps, query) =
             {i \in DOMAIN opps : \A cond \in query.where :
                 Matches(FieldValue(accounts, opps[i], cond.field), cond)}
<1>1. ASSUME NEW i \in DOMAIN opps, NEW cond \in query.where
      PROVE  LET v == FieldValue(accounts, opps[i], cond.field) IN
             Matches(v, cond) <=>
                 CASE cond.op = "IN" -> v \in cond.value
                   [] cond.op = "=" -> v = cond.value
                   [] cond.op = "!=" -> v # cond.value
                   [] cond.op = "<" -> Null \notin {v, cond.value} /\ v < cond.value
                   [] cond.op = ">" -> Null \notin {v, cond.value} /\ v > cond.value
                   [] cond.op = "<=" -> Null \notin {v, cond.value} /\ v <= cond.value
                   [] cond.op = ">=" -> Null \notin {v, cond.value} /\ v >= cond.value
  <2> DEFINE v == FieldValue(accounts, opps[i], cond.field)
  <2>1. cond.op \in Operators
    BY DEF IsQuery
  <2> HIDE DEF v
  <2>2. CASE cond.op \in {"IN", "=", "!="}
    BY <2>2 DEF Matches
  <2>3. CASE cond.op \in {"<", "<=", ">", ">="}
    BY <2>3 DEF Matches
  <2>. QED
    BY <2>1, <2>2, <2>3 DEF Operators
<1>. QED
  BY <1>1 DEF Selected

\* The rank of a row among the selected ones is its place, counted from 0.
LEMMA RankIsPlace ==
  ASSUME NEW accounts, NEW opps, NEW query, IsQuery(query), Sortable(accounts, opps, query),
         NEW S \in SUBSET DOMAIN opps, IsFiniteSet(S),
         StrictOrder(Lexicographic(accounts, opps, S, query.order_by, 1), S), NEW i \in S
  PROVE  Cardinality({j \in S : Precedes(accounts, opps, query.order_by, j, i)}) =
             Places(Lexicographic(accounts, opps, S, query.order_by, 1), S)[i] - 1
<1> DEFINE R == Lexicographic(accounts, opps, S, query.order_by, 1)
           first == {j \in S : Precedes(accounts, opps, query.order_by, j, i)}
<1>1. \A j \in S : Precedes(accounts, opps, query.order_by, j, i) <=> <<j, i>> \in R
  BY PrecedesIsFollow DEF Lexicographic
<1>2. first = UpTo(R, S, i) \ {i} /\ i \in UpTo(R, S, i)
  BY <1>1 DEF UpTo, StrictOrder
<1>3. Cardinality(UpTo(R, S, i) \ {i}) = Cardinality(UpTo(R, S, i)) - 1
  BY <1>2, UpToIsFinite, FS_RemoveElement
<1>. QED
  BY <1>2, <1>3, UpToIsFinite

\* There are as many of the first rows as the limit says, or as there are.
LEMMA CountUpTo ==
  ASSUME NEW S, IsFiniteSet(S), NEW R, StrictOrder(R, S), NEW n \in 0..Cardinality(S)
  PROVE  Cardinality({i \in S : Places(R, S)[i] <= n}) = n
<1> DEFINE P == Places(R, S)
           K == {i \in S : P[i] <= n}
           f == [i \in K |-> P[i]]
<1>1. Cardinality(S) \in Nat /\ \A i \in S : P[i] \in 1..Cardinality(S)
  BY UpToIsFinite, FS_CardinalityType
<1>2. /\ \A m \in 1..Cardinality(S) : \E i \in S : P[i] = m
      /\ \A i, j \in S : P[i] = P[j] => i = j
  BY PlacesOrder
<1> HIDE DEF P
<1>3. f \in Injection(K, 1..n)
  BY <1>1, <1>2 DEF Injection, IsInjective
<1>4. f \in Surjection(K, 1..n)
  <2>1. ASSUME NEW m \in 1..n PROVE \E i \in K : f[i] = m
    <3>1. m \in 1..Cardinality(S) /\ m <= n
      BY <1>1
    <3>2. PICK i \in S : P[i] = m
      BY <1>2, <3>1
    <3>. QED
      BY <3>1, <3>2
  <2>. QED
    BY <1>3, <2>1 DEF Injection, Surjection
<1>5. IsFiniteSet(K)
  BY FS_Subset
<1>6. f \in Bijection(K, 1..n)
  BY <1>3, <1>4 DEF Bijection
<1>7. Cardinality(1..n) = Cardinality(K)
  BY <1>5, <1>6, FS_Bijection DEF ExistsBijection
<1>8. n \in Int /\ n >= 0 /\ 1 \in Int
  BY <1>1
<1>9. Cardinality(1..n) = n
  BY <1>8, FS_Interval
<1>. QED
  BY <1>7, <1>9 DEF P

(***************************************************************************)
(* What run_query answers is what SOQL means (store.py:133-179), for any   *)
(* store and any query: the rows of which every condition holds, in the    *)
(* lexicographic order of the keys with nulls where SOQL has them and ties *)
(* as they were inserted, as many as the limit allows.                     *)
(***************************************************************************)
THEOREM RunQueryIsRight ==
  ASSUME NEW accounts, NEW opps, Len(opps) \in Nat, DOMAIN opps = 1..Len(opps),
         NEW query, IsQuery(query), Sortable(accounts, opps, query), Null \notin Int
  PROVE  /\ IsAnswer(accounts, opps, query, RunQuery(accounts, opps, query))
         /\ LET answer == RunQuery(accounts, opps, query) IN answer \in Seq(Range(answer))
<1> DEFINE S == Selected(accounts, opps, query)
           R == Lexicographic(accounts, opps, S, query.order_by, 1)
           P == Places(R, S)
           found == Cardinality(S)
           kept == IF query.limit = Null \/ query.limit > found THEN found ELSE query.limit
           answer == [n \in 1..kept |->
                         Project(accounts, opps[CHOOSE i \in S : P[i] = n], query.fields)]
           rank(i) == Cardinality({j \in S : Precedes(accounts, opps, query.order_by, j, i)})
<1>1. S \in SUBSET DOMAIN opps /\ IsFiniteSet(S) /\ S \subseteq Int /\ found \in Nat
  <2>1. S \in SUBSET (1..Len(opps))
    BY DEF Selected
  <2>2. IsFiniteSet(1..Len(opps))
    BY FS_Interval
  <2>. QED
    BY <2>1, <2>2, FS_Subset, FS_CardinalityType
<1>2. Len(query.order_by) \in Nat /\ DOMAIN query.order_by = 1..Len(query.order_by)
  BY DEF IsQuery
<1>3. Sorted(accounts, opps, S, query.order_by) = P /\ StrictOrder(R, S)
  <2>1. \A k \in 1..Len(query.order_by) : Comparable(accounts, opps, S, query.order_by[k])
    BY <1>1, <1>2 DEF Sortable, Comparable
  <2>. QED
    BY <1>1, <1>2, <2>1, PassesSort
<1>4. kept \in 0..found
  BY <1>1 DEF IsQuery
<1>5. RunQuery(accounts, opps, query) = answer
  <2> DEFINE rows == {i \in DOMAIN opps : \A cond \in query.where :
                         Matches(FieldValue(accounts, opps[i], cond.field), cond)}
             Answer(T, place) ==
               LET count == Cardinality(T) IN
               [n \in 1..(IF query.limit = Null \/ query.limit > count
                            THEN count ELSE query.limit) |->
                  Project(accounts, opps[CHOOSE i \in T : place[i] = n], query.fields)]
  <2>1. RunQuery(accounts, opps, query) =
           Answer(rows, Sorted(accounts, opps, rows, query.order_by))
    BY DEF RunQuery
  <2>2. rows = S
    BY SelectedAreMatches
  <2>3. answer = Answer(S, P)
    OBVIOUS
  <2> HIDE DEF rows, S, Answer, answer, P
  <2>. QED
    BY <1>3, <2>1, <2>2, <2>3
<1>6. Len(answer) = kept /\ DOMAIN answer = 1..kept
  BY <1>4
<1>7. ASSUME NEW i \in S
      PROVE  /\ rank(i) = P[i] - 1 /\ P[i] \in 1..found
             /\ (query.limit # Null => rank(i) < query.limit) <=> P[i] <= kept
  <2>1. rank(i) = P[i] - 1 /\ P[i] \in 1..found
    BY <1>1, <1>3, RankIsPlace, UpToIsFinite
  <2>2. query.limit \in Nat \cup {Null}
    BY DEF IsQuery
  <2> HIDE DEF rank, P, S
  <2>. QED
    BY <1>1, <2>1, <2>2
<1>8. {i \in S : query.limit # Null => rank(i) < query.limit} = {i \in S : P[i] <= kept}
  BY <1>7
<1>9. Cardinality({i \in S : P[i] <= kept}) = kept
  BY <1>1, <1>3, <1>4, CountUpTo
<1>10. ASSUME NEW i \in S, P[i] <= kept
       PROVE  answer[rank(i) + 1] = Project(accounts, opps[i], query.fields)
  <2>1. rank(i) + 1 = P[i] /\ P[i] \in 1..kept
    <3> HIDE DEF rank, P, kept, found, S
    <3>. QED
      BY <1>1, <1>4, <1>7, <1>10
  <2>2. \A j \in S : P[j] = P[i] => j = i
    BY <1>1, <1>3, PlacesOrder
  <2>3. (CHOOSE j \in S : P[j] = P[i]) = i
    BY <2>2
  <2>. QED
    BY <2>1, <2>3
<1>11. IsAnswer(accounts, opps, query, answer)
  <2> DEFINE held == {i \in S : query.limit # Null => rank(i) < query.limit}
  <2>1. Len(answer) = Cardinality(held)
    BY <1>6, <1>8, <1>9
  <2>2. \A i \in held : answer[rank(i) + 1] = Project(accounts, opps[i], query.fields)
    BY <1>8, <1>10
  <2> HIDE DEF answer, S
  <2>. QED
    BY <2>1, <2>2, Zenon DEF IsAnswer, S
<1>12. answer \in Seq(Range(answer))
  <2>1. \A n \in 1..kept : answer[n] \in Range(answer)
    BY <1>6 DEF Range
  <2>2. kept \in Nat /\ DOMAIN answer = 1..kept
    BY <1>4
  <2>3. answer = [n \in 1..kept |-> answer[n]]
    OBVIOUS
  <2> HIDE DEF answer, kept
  <2>4. answer \in [1..kept -> Range(answer)]
    BY <2>1, <2>2, <2>3
  <2>. QED
    BY <2>2, <2>4, SeqDef
<1>. QED
  BY <1>5, <1>11, <1>12
=============================================================================
