-------------------------- MODULE ListingsSortProofs --------------------------
(***************************************************************************)
(* Theorems about the two sorted lists of Listings: the networks, which    *)
(* are the strongest line of each, the strongest first and the weakest     *)
(* cut, and the interfaces, the most useful first.  Both rest on a theorem *)
(* about the stable sort (OrderIsStable), and each on an invariant of the  *)
(* loop that makes the list before it is sorted (Tracks, ListedUpTo).      *)
(***************************************************************************)
EXTENDS ListingsProofs, FiniteSetTheorems

(* Sequences, counting, and the sort. *)

(* What there is to know of the elements of a sequence. *)
LEMMA SeqElements ==
    ASSUME NEW E, NEW s \in Seq(E)
    PROVE  Len(s) \in Nat /\ DOMAIN s = 1..Len(s) /\ \A i \in 1..Len(s) : s[i] \in E
OBVIOUS

(* A set of naturals from 1 on without a gap is as long as it is large. *)
LEMMA InitialSegment ==
    ASSUME NEW m \in Nat, NEW A \in SUBSET (1..m), \A i \in A : \A j \in 1..i : j \in A
    PROVE  Cardinality(A) \in 0..m /\ A = 1..Cardinality(A)
<1> DEFINE Out == {i \in Nat : i >= 1 /\ i \notin A}
<1>1. m + 1 \in Out
  OBVIOUS
<1>2. PICK x \in Out : \A y \in Out : x <= y
  BY <1>1, LeastExists
<1>3. A = 1..(x - 1)
  <2>1. ASSUME NEW i \in A PROVE i \in 1..(x - 1)
    BY <1>2
  <2>2. ASSUME NEW i \in 1..(x - 1) PROVE i \in A
    BY <1>2
  <2> QED
    BY <2>1, <2>2
<1>4. Cardinality(A) = x - 1
  BY <1>3, FS_Interval
<1>5. x <= m + 1
  BY <1>1, <1>2
<1> QED
  BY <1>3, <1>4, <1>5

\* f has a value of its own at each place.
OneToOne(f, m) == \A a, b \in 1..m : f[a] = f[b] => a = b

Image(f, m) == {f[a] : a \in 1..m}

(* Such a function has as many values as places. *)
LEMMA ImageCounts ==
    ASSUME NEW m \in Nat, NEW f, OneToOne(f, m)
    PROVE  Cardinality(Image(f, m)) = m
<1> DEFINE T == {f[a] : a \in 1..m}
           g == [a \in 1..m |-> f[a]]
<1>0. \A a, b \in 1..m : f[a] = f[b] => a = b
  BY Zenon DEF OneToOne
<1>1. \A a \in 1..m : g[a] = f[a]
  OBVIOUS
<1>2. g \in [1..m -> T]
  OBVIOUS
<1>3. \A t \in T : \E a \in 1..m : g[a] = t
  OBVIOUS
<1>4. \A a, b \in 1..m : g[a] = g[b] => a = b
  BY <1>0, <1>1
<1> HIDE DEF g, T
<1>5. g \in Bijection(1..m, T)
  BY <1>2, <1>3, <1>4 DEF Bijection, Injection, Surjection, IsInjective
<1>6. ExistsBijection(1..m, T)
  BY <1>5 DEF ExistsBijection
<1>7. IsFiniteSet(1..m) /\ Cardinality(1..m) = m
  BY FS_Interval
<1>8. IsFiniteSet(T) /\ Cardinality(T) = m
  BY <1>6, <1>7, FS_Bijection
<1> QED
  BY <1>8, Zenon DEF T, Image

\* t is s with e put in behind its first c elements.
Inserted(t, E, s, c, e) ==
    /\ t \in Seq(E)
    /\ Len(t) = Len(s) + 1
    /\ \A i \in 1..c : t[i] = s[i]
    /\ t[c + 1] = e
    /\ \A i \in (c + 2)..(Len(s) + 1) : t[i] = s[i - 1]

(* What InsertAt makes of a sequence, element by element. *)
LEMMA InsertedAt ==
    ASSUME NEW E, NEW s \in Seq(E), NEW c \in 0..Len(s), NEW e \in E
    PROVE  Inserted(InsertAt(s, 1 + c, e), E, s, c, e)
<1> DEFINE a == SubSeq(s, 1, c)
           b == SubSeq(s, 1 + c, Len(s))
<1>1. a \in Seq(E) /\ Len(a) = c /\ \A i \in 1..c : a[i] = s[i]
  <2>1. \A i \in 1..c : s[i] \in E
    OBVIOUS
  <2> QED
    BY <2>1, SubSeqProperties
<1>2. b \in Seq(E) /\ Len(b) = Len(s) - c /\ \A i \in 1..(Len(s) - c) : b[i] = s[c + i]
  <2>1. \A i \in (1 + c)..Len(s) : s[i] \in E
    OBVIOUS
  <2> QED
    BY <2>1, SubSeqProperties
<1> HIDE DEF a, b
<1>3. /\ a \o <<e>> \o b \in Seq(E)
      /\ Len(a \o <<e>> \o b) = Len(s) + 1
      /\ \A i \in 1..c : (a \o <<e>> \o b)[i] = a[i]
      /\ (a \o <<e>> \o b)[c + 1] = e
      /\ \A i \in (c + 2)..(Len(s) + 1) : (a \o <<e>> \o b)[i] = b[i - 1 - c]
  BY <1>1, <1>2
<1>4. InsertAt(s, 1 + c, e) = a \o <<e>> \o b
  <2>1. (1 + c) - 1 = c
    OBVIOUS
  <2> QED
    BY <2>1, Zenon DEF InsertAt, a, b
<1>5. \A i \in (c + 2)..(Len(s) + 1) : b[i - 1 - c] = s[i - 1]
  BY <1>2
<1> QED
  BY <1>1, <1>3, <1>4, <1>5 DEF Inserted

\* Place i comes before place j.
Before(keys, i, j) == keys[i] < keys[j] \/ (keys[i] = keys[j] /\ i < j)

\* order is the places 1..k, each once, in the order of their keys.
Ordered(order, keys, k) ==
    /\ order \in Seq(1..k) /\ Len(order) = k
    /\ \A a, b \in 1..k : a < b => Before(keys, order[a], order[b])
    /\ \A i \in 1..k : \E a \in 1..k : order[a] = i

\* The elements that place k goes behind.
Ahead(order, keys, k) == {i \in DOMAIN order : keys[order[i]] <= keys[k]}

(* What Place does, with a name for the elements it counts. *)
LEMMA PlaceIs ==
    ASSUME NEW order, NEW keys, NEW k
    PROVE  Place(order, keys, k) = InsertAt(order, 1 + Cardinality(Ahead(order, keys, k)), k)
BY Zenon DEF Place, Ahead

(* A set of numbers up to n has at most n members. *)
LEMMA SubsetCounts ==
    ASSUME NEW n \in Nat, NEW A \in SUBSET (1..n)
    PROVE  IsFiniteSet(A) /\ Cardinality(A) \in 0..n
<1>1. IsFiniteSet(1..n) /\ Cardinality(1..n) = n
  BY FS_Interval
<1>2. IsFiniteSet(A) /\ Cardinality(A) <= n
  BY <1>1, FS_Subset
<1>3. Cardinality(A) \in Nat
  BY <1>2, FS_CardinalityType
<1> QED
  BY <1>2, <1>3

(* Place makes a sequence of places of a sequence of places. *)
LEMMA PlaceType ==
    ASSUME NEW keys, NEW order \in Seq(Nat), NEW k \in Nat
    PROVE  Place(order, keys, k) \in Seq(Nat)
<1>1. Ahead(order, keys, k) \in SUBSET (1..Len(order))
  <2>1. DOMAIN order = 1..Len(order)
    OBVIOUS
  <2> QED
    BY <2>1, Zenon DEF Ahead
<1> DEFINE c == Cardinality(Ahead(order, keys, k))
<1>2. c \in 0..Len(order)
  <2>1. Len(order) \in Nat
    OBVIOUS
  <2> QED
    BY <1>1, <2>1, SubsetCounts
<1> HIDE DEF c
<1>3. InsertAt(order, 1 + c, k) \in Seq(Nat)
  BY <1>2, InsertedAt, Zenon DEF Inserted
<1> QED
  BY <1>3, PlaceIs, Zenon DEF c

(* One step of the sort: one more place, and still in the order of the keys. *)
LEMMA PlaceKeeps ==
    ASSUME NEW n \in Nat, NEW keys \in [1..n -> Int], NEW k \in 1..n, NEW order,
           Ordered(order, keys, k - 1)
    PROVE  Ordered(Place(order, keys, k), keys, k)
<1> DEFINE m == k - 1
<1>0. m \in Nat /\ k = m + 1 /\ 1..m \subseteq 1..n
  OBVIOUS
<1>1. /\ order \in Seq(1..m) /\ Len(order) = m
      /\ \A a, b \in 1..m : a < b => Before(keys, order[a], order[b])
      /\ \A i \in 1..m : \E a \in 1..m : order[a] = i
  BY Zenon DEF Ordered
<1> HIDE DEF m
<1>2. DOMAIN order = 1..m /\ \A a \in 1..m : order[a] \in 1..m
  <2>1. order \in Seq(1..m) /\ Len(order) = m
    BY <1>1
  <2>2. DOMAIN order = 1..Len(order) /\ \A a \in 1..Len(order) : order[a] \in 1..m
    BY <2>1, SeqElements, Zenon
  <2> QED
    BY <2>1, <2>2
<1> DEFINE A == Ahead(order, keys, k)
           c == Cardinality(A)
<1>3. A = {i \in 1..m : keys[order[i]] <= keys[k]}
  BY <1>2 DEF Ahead
<1> HIDE DEF A
<1>4. \A i \in A : \A j \in 1..i : j \in A
  <2> SUFFICES ASSUME NEW i \in A, NEW j \in 1..i, j < i PROVE j \in A
    BY <1>0, <1>3
  <2>1. i \in 1..m /\ j \in 1..m /\ keys[order[i]] <= keys[k] /\ Before(keys, order[j], order[i])
    BY <1>0, <1>1, <1>3
  <2>2. keys[order[i]] \in Int /\ keys[order[j]] \in Int /\ keys[k] \in Int
    BY <1>0, <1>2, <2>1
  <2>3. keys[order[j]] <= keys[k]
    BY <2>1, <2>2 DEF Before
  <2> QED
    BY <1>3, <2>1, <2>3
<1>5. c \in 0..m /\ A = 1..c
  BY <1>0, <1>3, <1>4, InitialSegment
<1> HIDE DEF c
<1>6. /\ \A i \in 1..m : order[i] \in 1..m /\ keys[order[i]] \in Int
      /\ \A i \in 1..c : keys[order[i]] <= keys[k]
      /\ \A i \in (c + 1)..m : ~(keys[order[i]] <= keys[k])
      /\ keys[k] \in Int
  <2>1. \A i \in 1..m : order[i] \in 1..m /\ keys[order[i]] \in Int
    BY <1>0, <1>2
  <2>2. \A i \in 1..c : keys[order[i]] <= keys[k]
    BY <1>3, <1>5, Zenon
  <2>3. ASSUME NEW i \in (c + 1)..m PROVE ~(keys[order[i]] <= keys[k])
    <3>1. i \in 1..m /\ i \notin 1..c
      BY <1>5, <1>0
    <3> QED
      BY <1>3, <1>5, <3>1, Zenon
  <2> QED
    BY <2>1, <2>2, <2>3
<1> DEFINE p == Place(order, keys, k)
<1>7. p = InsertAt(order, 1 + c, k)
  BY PlaceIs, Zenon DEF A, c
<1> HIDE DEF p
<1>8. /\ p \in Seq(1..k) /\ Len(p) = k
      /\ \A i \in 1..c : p[i] = order[i]
      /\ p[c + 1] = k
      /\ \A i \in (c + 2)..k : p[i] = order[i - 1]
  <2>1. order \in Seq(1..k) /\ c \in 0..Len(order) /\ k \in 1..k /\ Len(order) + 1 = k
    BY <1>0, <1>1, <1>5
  <2>2. /\ InsertAt(order, 1 + c, k) \in Seq(1..k)
        /\ Len(InsertAt(order, 1 + c, k)) = Len(order) + 1
        /\ \A i \in 1..c : InsertAt(order, 1 + c, k)[i] = order[i]
        /\ InsertAt(order, 1 + c, k)[c + 1] = k
        /\ \A i \in (c + 2)..(Len(order) + 1) : InsertAt(order, 1 + c, k)[i] = order[i - 1]
    <3>1. Inserted(InsertAt(order, 1 + c, k), 1..k, order, c, k)
      BY <2>1, InsertedAt, Zenon
    <3> QED
      BY <3>1, Zenon DEF Inserted
  <2> QED
    BY <1>7, <2>1, <2>2
<1>at. /\ \A i \in 1..c : p[i] = order[i]
       /\ p[c + 1] = k
       /\ \A i \in (c + 2)..k : p[i] = order[i - 1]
  BY <1>8
<1>9. ASSUME NEW a \in 1..k, NEW b \in 1..k, a < b PROVE Before(keys, p[a], p[b])
  <2>1. CASE b <= c
    <3>1. a \in 1..m /\ b \in 1..m /\ a \in 1..c /\ b \in 1..c
      BY <1>0, <1>5, <1>9, <2>1
    <3>2. p[a] = order[a] /\ p[b] = order[b]
      BY <1>at, <3>1
    <3> QED
      BY <1>1, <1>9, <3>1, <3>2
  <2>2. CASE b = c + 1
    <3>1. a \in 1..c /\ a \in 1..m
      BY <1>0, <1>5, <1>9, <2>2
    <3>2. p[a] = order[a] /\ p[b] = k
      BY <1>at, <2>2, <3>1
    <3>3. keys[order[a]] <= keys[k] /\ order[a] \in 1..m /\ keys[order[a]] \in Int /\ keys[k] \in Int
      BY <1>6, <3>1
    <3>4. order[a] < k
      BY <1>0, <3>3
    <3> QED
      BY <3>2, <3>3, <3>4 DEF Before
  <2>3. CASE b > c + 1 /\ a <= c
    <3>1. a \in 1..m /\ b - 1 \in 1..m /\ a < b - 1 /\ a \in 1..c /\ b \in (c + 2)..k
      BY <1>0, <1>5, <1>9, <2>3
    <3>2. p[a] = order[a] /\ p[b] = order[b - 1]
      BY <1>at, <3>1
    <3> QED
      BY <1>1, <3>1, <3>2
  <2>4. CASE b > c + 1 /\ a = c + 1
    <3>1. b - 1 \in (c + 1)..m /\ b - 1 \in 1..m /\ b \in (c + 2)..k
      BY <1>0, <1>5, <1>9, <2>4
    <3>2. p[a] = k /\ p[b] = order[b - 1]
      BY <1>at, <2>4, <3>1
    <3>3. ~(keys[order[b - 1]] <= keys[k]) /\ keys[order[b - 1]] \in Int /\ keys[k] \in Int
      BY <1>6, <3>1
    <3> QED
      BY <3>2, <3>3 DEF Before
  <2>5. CASE b > c + 1 /\ a > c + 1
    <3>1. /\ a - 1 \in 1..m /\ b - 1 \in 1..m /\ a - 1 < b - 1
          /\ a \in (c + 2)..k /\ b \in (c + 2)..k
      BY <1>0, <1>5, <1>9, <2>5
    <3>2. p[a] = order[a - 1] /\ p[b] = order[b - 1]
      BY <1>at, <3>1
    <3> QED
      BY <1>1, <3>1, <3>2
  <2> QED
    BY <1>5, <1>9, <2>1, <2>2, <2>3, <2>4, <2>5
<1>10. ASSUME NEW i \in 1..k PROVE \E a \in 1..k : p[a] = i
  <2>1. CASE i = k
    BY <1>0, <1>5, <1>at, <2>1
  <2>2. CASE i < k
    <3>1. PICK a \in 1..m : order[a] = i
      BY <1>0, <1>1, <2>2
    <3>2. a <= c => a \in 1..k /\ p[a] = i
      <4>1. a \in 1..k /\ (a <= c => a \in 1..c)
        BY <1>0, <1>5
      <4> QED
        BY <1>at, <3>1, <4>1
    <3>3. a > c => a + 1 \in 1..k /\ p[a + 1] = i
      <4> SUFFICES ASSUME a > c PROVE a + 1 \in 1..k /\ p[a + 1] = i
        OBVIOUS
      <4>1. a + 1 \in (c + 2)..k /\ (a + 1) - 1 = a /\ a + 1 \in 1..k
        BY <1>0, <1>5, <3>1
      <4> QED
        BY <1>at, <3>1, <4>1
    <3> QED
      BY <1>5, <3>1, <3>2, <3>3
  <2> QED
    BY <2>1, <2>2
<1> QED
  BY <1>8, <1>9, <1>10 DEF Ordered, p

\* F is what the recursion of Order asks for.
IsOrder(F, n, keys) == F = [k \in 0..n |-> IF k = 0 THEN <<>> ELSE Place(F[k - 1], keys, k)]

(* The recursion of Order has a value. *)
LEMMA OrderExists ==
    ASSUME NEW n \in Nat, NEW keys
    PROVE  \E f : IsOrder(f, n, keys)
<1> DEFINE V == Seq(Nat)
           g == [k \in 1..n |-> [v \in V |-> Place(v, keys, k)]]
<1>1. g \in [1..n -> [V -> V]] /\ <<>> \in V
  <2>1. \A k \in 1..n : \A v \in V : Place(v, keys, k) \in V
    BY PlaceType
  <2>2. <<>> \in V
    OBVIOUS
  <2> HIDE DEF V
  <2> QED
    BY <2>1, <2>2
<1>2. \A k \in 1..n : \A v \in V : g[k][v] = Place(v, keys, k)
  BY Zenon
<1> HIDE DEF g, V
<1>3. PICK f : IsSteps(f, V, <<>>, n, g)
  BY <1>1, StepwiseExists, Zenon
<1>4. f \in [0..n -> V] /\ f[0] = <<>> /\ \A k \in 1..n : f[k] = g[k][f[k - 1]]
  BY <1>3, Zenon DEF IsSteps
<1>5. \A k \in 1..n : f[k] = Place(f[k - 1], keys, k)
  <2>1. \A k \in 1..n : f[k - 1] \in V
    BY <1>4
  <2> QED
    BY <1>2, <1>4, <2>1, Zenon
<1> DEFINE h == [k \in 0..n |-> f[k]]
<1>6. ASSUME NEW k \in 0..n PROVE h[k] = IF k = 0 THEN <<>> ELSE Place(h[k - 1], keys, k)
  BY <1>4, <1>5
<1>7. IsOrder(h, n, keys)
  BY <1>6 DEF IsOrder
<1> QED
  BY <1>7

(* Order puts the places in the order of their keys, whatever the keys. *)
LEMMA OrderIsStable ==
    ASSUME NEW keys \in Seq(Int)
    PROVE  Ordered(Order(keys), keys, Len(keys))
<1> DEFINE n == Len(keys)
           F == CHOOSE f : IsOrder(f, n, keys)
<1>1. n \in Nat /\ keys \in [1..n -> Int]
  OBVIOUS
<1>2. IsOrder(F, n, keys)
  <2>1. \E f : IsOrder(f, n, keys)
    BY <1>1, OrderExists
  <2> QED
    BY <2>1, Zenon
<1>3. Order(keys) = F[n]
  BY Zenon DEF Order, IsOrder
<1>4. \A k \in 0..n : F[k] = IF k = 0 THEN <<>> ELSE Place(F[k - 1], keys, k)
  BY <1>2, Zenon DEF IsOrder
<1> HIDE DEF F, n
<1> DEFINE S == {k \in Nat : k <= n => Ordered(F[k], keys, k)}
<1>5. 0 \in S
  <2>1. F[0] = <<>>
    BY <1>1, <1>4
  <2>2. Ordered(<<>>, keys, 0)
    BY DEF Ordered
  <2> QED
    BY <2>1, <2>2
<1>6. ASSUME NEW k \in S PROVE k + 1 \in S
  <2> SUFFICES ASSUME k + 1 <= n PROVE Ordered(F[k + 1], keys, k + 1)
    OBVIOUS
  <2>1. k + 1 \in 1..n /\ (k + 1) - 1 = k /\ k + 1 \in 0..n /\ k + 1 # 0 /\ Ordered(F[k], keys, k)
    BY <1>1
  <2>2. F[k + 1] = Place(F[k], keys, k + 1)
    BY <1>4, <2>1
  <2> QED
    BY <1>1, <2>1, <2>2, PlaceKeeps, Zenon
<1>7. \A k \in Nat : k \in S
  <2>1. S \in SUBSET Nat
    OBVIOUS
  <2> HIDE DEF S
  <2> QED
    BY <1>5, <1>6, <2>1, AllNaturals
<1>8. Ordered(F[n], keys, n)
  BY <1>1, <1>7
<1> QED
  BY <1>3, <1>8 DEF n

\* t is s put in the order of the keys.
PutInOrder(t, s, keys) ==
    /\ DOMAIN t = 1..Len(s)
    /\ Ordered(Order(keys), keys, Len(s))
    /\ \A a \in 1..Len(s) : Order(keys)[a] \in 1..Len(s) /\ t[a] = s[Order(keys)[a]]

(* Sorted puts a sequence in the order of its keys. *)
LEMMA SortedIs ==
    ASSUME NEW E, NEW s \in Seq(E), NEW keys \in [1..Len(s) -> Int]
    PROVE  PutInOrder(Sorted(s, keys), s, keys)
<1>1. Len(s) \in Nat /\ DOMAIN s = 1..Len(s)
  OBVIOUS
<1>2. keys \in Seq(Int) /\ Len(keys) = Len(s)
  BY <1>1
<1>3. Ordered(Order(keys), keys, Len(s))
  BY <1>2, OrderIsStable
<1>4. \A a \in 1..Len(s) : Order(keys)[a] \in 1..Len(s)
  <2> DEFINE p == Order(keys)
  <2> HIDE DEF p
  <2>1. p \in Seq(1..Len(s)) /\ Len(p) = Len(s)
    BY <1>3, Zenon DEF Ordered, p
  <2>2. \A a \in 1..Len(s) : p[a] \in 1..Len(s)
    BY <2>1, SeqElements
  <2> QED
    BY <2>2 DEF p
<1>5. Sorted(s, keys) = [a \in 1..Len(s) |-> s[Order(keys)[a]]]
  BY <1>1, Zenon DEF Sorted
<1> QED
  BY <1>3, <1>4, <1>5 DEF PutInOrder

\* The a-th place of p is not before the b-th without a reason, nor the same one.
InOrder(p, keys, a, b) ==
    /\ a < b => keys[p[a]] < keys[p[b]] \/ (keys[p[a]] = keys[p[b]] /\ p[a] < p[b])
    /\ p[a] = p[b] => a = b

(* What is before another has not the greater key, and every place is taken once. *)
LEMMA OrderedSays ==
    ASSUME NEW m \in Nat, NEW keys \in [1..m -> Int], NEW p, Ordered(p, keys, m),
           NEW a \in 1..m, NEW b \in 1..m
    PROVE  InOrder(p, keys, a, b)
<1>1. p \in Seq(1..m) /\ Len(p) = m
  BY Zenon DEF Ordered
<1>2. p[a] \in 1..m /\ p[b] \in 1..m
  BY <1>1, SeqElements
<1>3. keys[p[a]] \in Int /\ keys[p[b]] \in Int
  BY <1>2
<1>4. (a < b => Before(keys, p[a], p[b])) /\ (b < a => Before(keys, p[b], p[a]))
  BY Zenon DEF Ordered
<1> QED
  BY <1>2, <1>3, <1>4 DEF Before, InOrder

-----------------------------------------------------------------------------
(* The interfaces. *)

\* nic is one of those the list leaves out.
IsLoopback(nic) == ~(nic.wireless \/ nic.type # "772")

(* Only an interface without wireless and of type 772 is a loopback. *)
LEMMA IfaceTypeSays ==
    ASSUME NEW nic \in Nic
    PROVE  IfaceType(nic) = "loopback" <=> IsLoopback(nic)
<1>1. nic.wireless \in BOOLEAN
  BY DEF Nic
<1>2. CASE nic.wireless
  <2>1. IfaceType(nic) = "wifi"
    BY <1>2, Zenon DEF IfaceType
  <2> QED
    BY <1>2, <2>1 DEF IsLoopback
<1>3. CASE ~nic.wireless /\ nic.type = "772"
  <2>1. IfaceType(nic) = "loopback"
    BY <1>3, Zenon DEF IfaceType
  <2> QED
    BY <1>3, <2>1 DEF IsLoopback
<1>4. CASE ~nic.wireless /\ nic.type = "1"
  <2>1. IfaceType(nic) = "ethernet"
    <3>1. "1" # "772"
      OBVIOUS
    <3> QED
      BY <1>4, <3>1, Zenon DEF IfaceType
  <2> QED
    BY <1>4, <2>1 DEF IsLoopback
<1>5. CASE ~nic.wireless /\ nic.type # "772" /\ nic.type # "1"
  <2>1. IfaceType(nic) = "other"
    BY <1>5, Zenon DEF IfaceType
  <2> QED
    BY <1>5, <2>1 DEF IsLoopback
<1> QED
  BY <1>1, <1>2, <1>3, <1>4, <1>5

(* The rank, without its cases. *)
LEMMA RankSays ==
    ASSUME NEW nic \in Nic
    PROVE  Rank(nic) = IF nic.state # "up" THEN 2 ELSE IF nic.ip THEN 0 ELSE 1
<1>1. CASE nic.state = "up" /\ nic.ip
  BY <1>1, Zenon DEF Rank
<1>2. CASE nic.state = "up" /\ ~nic.ip
  BY <1>2, Zenon DEF Rank
<1>3. CASE nic.state # "up"
  BY <1>3, Zenon DEF Rank
<1> QED
  BY <1>1, <1>2, <1>3

\* out is the places up to k of no loopback, each once and in order.
ListedUpTo(out, nics, k) ==
    /\ out \in Seq(1..k)
    /\ \A a, b \in 1..Len(out) : a < b => out[a] < out[b]
    /\ \A a \in 1..Len(out) : ~IsLoopback(nics[out[a]])
    /\ \A i \in 1..k : ~IsLoopback(nics[i]) => \E a \in 1..Len(out) : out[a] = i

(* One interface of the loop, by what it is. *)
LEMMA AddIfaceCases ==
    ASSUME NEW n \in Nat, NEW nics \in [1..n -> Nic], NEW k \in 1..n, NEW out
    PROVE  AddIface(out, nics, k) = IF IsLoopback(nics[k]) THEN out ELSE Append(out, k)
<1>1. nics[k] \in Nic
  OBVIOUS
<1> QED
  BY <1>1, IfaceTypeSays, Zenon DEF AddIface

(* One interface more, and the list has all of them that are no loopback. *)
LEMMA AddIfaceKeeps ==
    ASSUME NEW n \in Nat, NEW nics \in [1..n -> Nic], NEW k \in 1..n, NEW out,
           ListedUpTo(out, nics, k - 1)
    PROVE  ListedUpTo(AddIface(out, nics, k), nics, k)
<1> DEFINE m == k - 1
           l == Len(out)
<1>0. m \in Nat /\ k = m + 1 /\ 1..m \subseteq 1..k /\ k \in 1..k
  OBVIOUS
<1>1. /\ out \in Seq(1..m)
      /\ \A a, b \in 1..l : a < b => out[a] < out[b]
      /\ \A a \in 1..l : ~IsLoopback(nics[out[a]])
      /\ \A i \in 1..m : ~IsLoopback(nics[i]) => \E a \in 1..l : out[a] = i
  BY Zenon DEF ListedUpTo
<1> HIDE DEF m
<1>2. /\ out \in Seq(1..k)
      /\ l \in Nat /\ \A a \in 1..l : out[a] \in 1..m
  <2>1. Len(out) \in Nat /\ \A a \in 1..Len(out) : out[a] \in 1..m
    BY <1>1, SeqElements, Zenon
  <2> QED
    BY <1>0, <1>1, <2>1
<1>3. CASE IsLoopback(nics[k])
  <2>1. AddIface(out, nics, k) = out
    BY <1>3, AddIfaceCases, Zenon
  <2>2. ASSUME NEW i \in 1..k, ~IsLoopback(nics[i]) PROVE \E a \in 1..l : out[a] = i
    <3>1. i \in 1..m
      BY <1>0, <1>3, <2>2
    <3> QED
      BY <1>1, <2>2, <3>1, Zenon
  <2>3. ListedUpTo(out, nics, k)
    BY <1>1, <1>2, <2>2, Zenon DEF ListedUpTo
  <2> QED
    BY <2>1, <2>3, Zenon
<1>4. CASE ~IsLoopback(nics[k])
  <2> DEFINE p == Append(out, k)
  <2>1. AddIface(out, nics, k) = p
    BY <1>4, AddIfaceCases, Zenon
  <2>2. p \in Seq(1..k) /\ Len(p) = l + 1 /\ p[l + 1] = k /\ \A a \in 1..l : p[a] = out[a]
    BY <1>0, <1>2, AppendProperties
  <2> HIDE DEF p, l
  <2>3. ASSUME NEW a \in 1..(l + 1), NEW b \in 1..(l + 1), a < b PROVE p[a] < p[b]
    <3>1. a \in 1..l /\ (b \in 1..l \/ b = l + 1)
      BY <1>2, <2>3
    <3>2. p[a] = out[a] /\ (b \in 1..l => p[b] = out[b])
      BY <2>2, <3>1
    <3>3. CASE b \in 1..l
      BY <1>1, <2>3, <3>1, <3>2, <3>3
    <3>4. CASE b = l + 1
      BY <1>0, <1>2, <2>2, <3>1, <3>2, <3>4
    <3> QED
      BY <3>1, <3>3, <3>4
  <2>4. ASSUME NEW a \in 1..(l + 1) PROVE ~IsLoopback(nics[p[a]])
    <3>1. a \in 1..l \/ a = l + 1
      BY <1>2
    <3> QED
      BY <1>1, <1>4, <2>2, <3>1, Zenon
  <2>5. ASSUME NEW i \in 1..k, ~IsLoopback(nics[i]) PROVE \E a \in 1..(l + 1) : p[a] = i
    <3>1. CASE i = k
      <4>1. l + 1 \in 1..(l + 1)
        BY <1>2
      <4> QED
        BY <2>2, <3>1, <4>1
    <3>2. CASE i \in 1..m
      <4>1. PICK a \in 1..l : out[a] = i
        BY <1>1, <2>5, <3>2, Zenon
      <4>2. a \in 1..(l + 1)
        BY <1>2
      <4> QED
        BY <2>2, <4>1, <4>2, Zenon
    <3> QED
      BY <1>0, <3>1, <3>2
  <2>6. ListedUpTo(p, nics, k)
    BY <2>2, <2>3, <2>4, <2>5, Zenon DEF ListedUpTo
  <2> QED
    BY <2>1, <2>6, Zenon
<1> QED
  BY <1>3, <1>4

\* F is what the recursion of Listed asks for.
IsListing(F, n, nics) == F = [k \in 0..n |-> IF k = 0 THEN <<>> ELSE AddIface(F[k - 1], nics, k)]

(* The recursion of Listed has a value. *)
LEMMA ListingExists ==
    ASSUME NEW n \in Nat, NEW nics \in [1..n -> Nic]
    PROVE  \E f : IsListing(f, n, nics)
<1> DEFINE V == Seq(Nat)
           g == [k \in 1..n |-> [v \in V |-> AddIface(v, nics, k)]]
<1>1. g \in [1..n -> [V -> V]] /\ <<>> \in V
  <2>1. ASSUME NEW k \in 1..n, NEW v \in V PROVE AddIface(v, nics, k) \in V
    <3>1. k \in Nat /\ Append(v, k) \in V
      OBVIOUS
    <3> HIDE DEF V
    <3> QED
      BY <3>1, AddIfaceCases, Zenon
  <2>2. <<>> \in V
    OBVIOUS
  <2> HIDE DEF V
  <2> QED
    BY <2>1, <2>2
<1>2. \A k \in 1..n : \A v \in V : g[k][v] = AddIface(v, nics, k)
  BY Zenon
<1> HIDE DEF g, V
<1>3. PICK f : IsSteps(f, V, <<>>, n, g)
  BY <1>1, StepwiseExists, Zenon
<1>4. f \in [0..n -> V] /\ f[0] = <<>> /\ \A k \in 1..n : f[k] = g[k][f[k - 1]]
  BY <1>3, Zenon DEF IsSteps
<1>5. \A k \in 1..n : f[k] = AddIface(f[k - 1], nics, k)
  <2>1. \A k \in 1..n : f[k - 1] \in V
    BY <1>4
  <2> QED
    BY <1>2, <1>4, <2>1, Zenon
<1> DEFINE h == [k \in 0..n |-> f[k]]
<1>6. ASSUME NEW k \in 0..n PROVE h[k] = IF k = 0 THEN <<>> ELSE AddIface(h[k - 1], nics, k)
  BY <1>4, <1>5
<1>7. IsListing(h, n, nics)
  BY <1>6 DEF IsListing
<1> QED
  BY <1>7

(* Listed has every interface but a loopback, once and in order. *)
LEMMA ListedIsAll ==
    ASSUME NEW n \in Nat, NEW nics \in [1..n -> Nic]
    PROVE  ListedUpTo(Listed(nics), nics, n)
<1> DEFINE F == CHOOSE f : IsListing(f, n, nics)
<1>0. Len(nics) = n
  OBVIOUS
<1>1. IsListing(F, n, nics)
  <2>1. \E f : IsListing(f, n, nics)
    BY ListingExists
  <2> QED
    BY <2>1, Zenon
<1>2. Listed(nics) = F[n]
  BY <1>0, Zenon DEF Listed, IsListing
<1>3. \A k \in 0..n : F[k] = IF k = 0 THEN <<>> ELSE AddIface(F[k - 1], nics, k)
  BY <1>1, Zenon DEF IsListing
<1> HIDE DEF F
<1> DEFINE S == {k \in Nat : k <= n => ListedUpTo(F[k], nics, k)}
<1>4. 0 \in S
  <2>1. F[0] = <<>>
    BY <1>3
  <2>2. ListedUpTo(<<>>, nics, 0)
    BY DEF ListedUpTo
  <2> QED
    BY <2>1, <2>2
<1>5. ASSUME NEW k \in S PROVE k + 1 \in S
  <2> SUFFICES ASSUME k + 1 <= n PROVE ListedUpTo(F[k + 1], nics, k + 1)
    OBVIOUS
  <2>1. k + 1 \in 1..n /\ (k + 1) - 1 = k /\ k + 1 \in 0..n /\ k + 1 # 0 /\ ListedUpTo(F[k], nics, k)
    OBVIOUS
  <2>2. F[k + 1] = AddIface(F[k], nics, k + 1)
    BY <1>3, <2>1
  <2> QED
    BY <2>1, <2>2, AddIfaceKeeps, Zenon
<1>6. \A k \in Nat : k \in S
  <2>1. S \in SUBSET Nat
    OBVIOUS
  <2> HIDE DEF S
  <2> QED
    BY <1>4, <1>5, <2>1, AllNaturals
<1>7. ListedUpTo(F[n], nics, n)
  BY <1>6
<1> QED
  BY <1>2, <1>7

\* The property, of the interfaces it is about.
Useful(nics) ==
    LET list == Interfaces(nics)
        Up(k)    == nics[list[k]].state = "up"
        Ready(k) == Up(k) /\ nics[list[k]].ip
    IN  /\ \A i \in DOMAIN nics : Cardinality({k \in DOMAIN list : list[k] = i}) =
               IF nics[i].wireless \/ nics[i].type # "772" THEN 1 ELSE 0
        /\ \A k, m \in DOMAIN list : k < m =>
             /\ Up(m) => Up(k)
             /\ Ready(m) => Ready(k)
             /\ (Up(k) = Up(m) /\ Ready(k) = Ready(m)) => list[k] < list[m]

(* The property, for any number of interfaces. *)
LEMMA InterfacesAreUseful ==
    ASSUME NEW n \in Nat, NEW nics \in [1..n -> Nic]
    PROVE  Useful(nics)
<1> DEFINE L == Listed(nics)
           m == Len(L)
           keys == [i \in DOMAIN L |-> Rank(nics[L[i]])]
           p == Order(keys)
           list == Interfaces(nics)
<1>1. /\ L \in Seq(1..n)
      /\ \A a, b \in 1..m : a < b => L[a] < L[b]
      /\ \A a \in 1..m : ~IsLoopback(nics[L[a]])
      /\ \A i \in 1..n : ~IsLoopback(nics[i]) => \E a \in 1..m : L[a] = i
  BY ListedIsAll, Zenon DEF ListedUpTo
<1>2. list = Sorted(L, keys)
  BY Zenon DEF Interfaces
<1> HIDE DEF L, list
<1>3. m \in Nat /\ DOMAIN L = 1..m /\ \A a \in 1..m : L[a] \in 1..n
  BY <1>1, SeqElements
<1>4. \A a \in 1..m : nics[L[a]] \in Nic
  BY <1>3
<1>5. \A a \in 1..m : keys[a] =
         IF nics[L[a]].state # "up" THEN 2 ELSE IF nics[L[a]].ip THEN 0 ELSE 1
  <2>1. \A a \in 1..m : keys[a] = Rank(nics[L[a]])
    BY <1>3, Zenon
  <2> QED
    BY <1>4, <2>1, RankSays, Zenon
<1>6. keys \in [1..m -> Int]
  <2>1. \A a \in 1..m : Rank(nics[L[a]]) \in Int
    BY <1>4, RankSays
  <2> QED
    BY <1>3, <2>1
<1> HIDE DEF keys, p
<1>7. /\ DOMAIN list = 1..m
      /\ Ordered(p, keys, m)
      /\ \A a \in 1..m : p[a] \in 1..m /\ list[a] = L[p[a]]
  <2>1. PutInOrder(list, L, keys)
    BY <1>1, <1>2, <1>6, SortedIs, Zenon
  <2> QED
    BY <2>1, Zenon DEF PutInOrder, p
<1> HIDE DEF m
<1>8. \A a, b \in 1..m : L[a] = L[b] => a = b
  <2> SUFFICES ASSUME NEW a \in 1..m, NEW b \in 1..m, a # b PROVE L[a] # L[b]
    OBVIOUS
  <2>1. a < b \/ b < a
    OBVIOUS
  <2>2. L[a] < L[b] \/ L[b] < L[a]
    BY <1>1, <2>1
  <2>3. L[a] \in 1..n /\ L[b] \in 1..n
    BY <1>3
  <2> QED
    BY <2>2, <2>3
<1>once. \A a, b \in 1..m : p[a] = p[b] => a = b
  <2>1. \A a, b \in 1..m : InOrder(p, keys, a, b)
    BY <1>3, <1>6, <1>7, OrderedSays, Zenon
  <2> QED
    BY <2>1, Zenon DEF InOrder
<1>9. ASSUME NEW i \in 1..n
      PROVE  Cardinality({k \in DOMAIN list : list[k] = i}) =
               IF nics[i].wireless \/ nics[i].type # "772" THEN 1 ELSE 0
  <2> DEFINE K == {k \in DOMAIN list : list[k] = i}
  <2>1. CASE ~IsLoopback(nics[i])
    <3>1. PICK b \in 1..m : L[b] = i
      BY <1>1, <2>1, Zenon
    <3>2. PICK a \in 1..m : p[a] = b
      BY <1>7, Zenon DEF Ordered
    <3>3. a \in K
      BY <1>7, <3>1, <3>2
    <3>4. ASSUME NEW c \in K PROVE c = a
      <4>1. c \in 1..m /\ L[p[c]] = i /\ p[c] \in 1..m
        BY <1>7
      <4>2. p[c] = p[a]
        BY <1>8, <3>1, <3>2, <4>1
      <4> QED
        BY <1>once, <4>1, <4>2, Zenon
    <3>5. K = {a}
      BY <3>3, <3>4, Zenon
    <3>6. Cardinality({a}) = 1
      BY FS_Singleton
    <3> QED
      BY <2>1, <3>5, <3>6 DEF IsLoopback
  <2>2. CASE IsLoopback(nics[i])
    <3>1. K = {}
      <4>1. \A k \in K : k \in 1..m /\ p[k] \in 1..m /\ L[p[k]] = i
        BY <1>7
      <4> HIDE DEF K
      <4> QED
        BY <1>1, <2>2, <4>1
    <3>2. Cardinality({}) = 0
      BY FS_EmptySet
    <3> QED
      BY <2>2, <3>1, <3>2 DEF IsLoopback
  <2> QED
    BY <2>1, <2>2
<1>10. ASSUME NEW a \in 1..m, NEW b \in 1..m, a < b
       PROVE  /\ nics[list[b]].state = "up" => nics[list[a]].state = "up"
              /\ (nics[list[b]].state = "up" /\ nics[list[b]].ip) =>
                    nics[list[a]].state = "up" /\ nics[list[a]].ip
              /\ ( /\ (nics[list[a]].state = "up") = (nics[list[b]].state = "up")
                   /\ (nics[list[a]].state = "up" /\ nics[list[a]].ip) =
                         (nics[list[b]].state = "up" /\ nics[list[b]].ip) )
                 => list[a] < list[b]
  <2>1. /\ p[a] \in 1..m /\ p[b] \in 1..m
        /\ list[a] = L[p[a]] /\ list[b] = L[p[b]]
    BY <1>7
  <2>2. keys[p[a]] < keys[p[b]] \/ (keys[p[a]] = keys[p[b]] /\ p[a] < p[b])
    <3>1. InOrder(p, keys, a, b)
      BY <1>3, <1>6, <1>7, OrderedSays, Zenon
    <3> QED
      BY <1>10, <3>1, Zenon DEF InOrder
  <2>3. /\ keys[p[a]] = IF nics[list[a]].state # "up" THEN 2 ELSE IF nics[list[a]].ip THEN 0 ELSE 1
        /\ keys[p[b]] = IF nics[list[b]].state # "up" THEN 2 ELSE IF nics[list[b]].ip THEN 0 ELSE 1
    BY <1>5, <2>1, Zenon
  <2>4. p[a] < p[b] => list[a] < list[b]
    BY <1>1, <2>1
  <2>5. nics[list[a]].ip \in BOOLEAN /\ nics[list[b]].ip \in BOOLEAN
    BY <1>4, <2>1 DEF Nic
  <2> QED
    BY <2>2, <2>3, <2>4, <2>5
<1> QED
  <2>1. DOMAIN nics = 1..n
    OBVIOUS
  <2> QED
    BY <1>7, <1>9, <1>10, <2>1, Zenon DEF Useful, list

(* The interfaces come in the order of their use, a loopback left out. *)
THEOREM UsefulComeFirst == Spec => []UsefulFirst
<1>1. Init => UsefulFirst
  <2> SUFFICES ASSUME Init, input[1] = "nics" PROVE UsefulFirst
    BY DEF UsefulFirst
  <2>1. PICK n \in 0..LineLen : \E nics \in [1..n -> Nic] : input = <<"nics", nics>>
    BY Kinds DEF GivenNics
  <2>2. PICK nics \in [1..n -> Nic] : input = <<"nics", nics>>
    BY <2>1
  <2>3. n \in Nat
    BY ListingsAssumption
  <2>4. Useful(nics)
    BY <2>3, InterfacesAreUseful
  <2>5. input[2] = nics
    BY <2>2
  <2> QED
    BY <2>4, <2>5, Zenon DEF Useful, UsefulFirst
<1>2. UsefulFirst /\ [Next]_input => UsefulFirst'
  <2>1. ASSUME UsefulFirst, input' = input PROVE UsefulFirst'
    BY <2>1, Zenon DEF UsefulFirst
  <2> QED
    BY <2>1 DEF Next
<1> QED BY <1>1, <1>2, PTL DEF Spec

-----------------------------------------------------------------------------
(* The lines of the networks. *)

\* The four things a line is asked for.
Named(lines, i)    == Names(lines[i])
Ssid(lines, i)     == lines[i][1]
Strength(lines, i) == Network(lines[i]).signal
Net(lines, i)      == Network(lines[i])

\* What the list of networks is made of.
Nets == {Network(line) : line \in Lines}

(* int() of a signal, or 0. *)
LEMMA SignalIsSmall ==
    ASSUME NEW raw
    PROVE  Signal(raw) \in {0, 1, 2}
<1>1. CASE raw = "1"
  BY <1>1, Zenon DEF Signal
<1>2. CASE raw = "2"
  <2>1. "2" # "1"
    OBVIOUS
  <2> QED
    BY <1>2, <2>1, Zenon DEF Signal
<1>3. CASE raw # "1" /\ raw # "2"
  BY <1>3, Zenon DEF Signal
<1> QED
  BY <1>1, <1>2, <1>3

(* What a line says is what the network made of it says. *)
LEMMA NetSays ==
    ASSUME NEW n \in Nat, NEW lines \in [1..n -> Lines], NEW i \in 1..n
    PROVE  /\ Net(lines, i) \in Nets
           /\ Net(lines, i).ssid = Ssid(lines, i)
           /\ Net(lines, i).signal = Strength(lines, i)
           /\ Strength(lines, i) \in Int
<1>1. lines[i] \in Lines
  OBVIOUS
<1>2. Net(lines, i) \in Nets
  BY <1>1, Zenon DEF Net, Nets
<1>3. Net(lines, i) = [ssid |-> lines[i][1], signal |-> Signal(lines[i][2]), inUse |-> lines[i][3]]
  BY Zenon DEF Net, Network
<1>4. Net(lines, i).ssid = Ssid(lines, i) /\ Net(lines, i).signal = Signal(lines[i][2])
  <2>1. PICK a, b, c : /\ Net(lines, i) = [ssid |-> a, signal |-> b, inUse |-> c]
                       /\ a = Ssid(lines, i) /\ b = Signal(lines[i][2])
    BY <1>3, Zenon DEF Ssid
  <2> DEFINE raw == Signal(lines[i][2])
  <2>2. Net(lines, i) = [ssid |-> a, signal |-> b, inUse |-> c] /\ a = Ssid(lines, i) /\ b = raw
    BY <2>1
  <2> HIDE DEF raw
  <2>3. Net(lines, i).ssid = Ssid(lines, i) /\ Net(lines, i).signal = raw
    BY <2>2
  <2> QED
    BY <2>3 DEF raw
<1>5. Net(lines, i).signal = Strength(lines, i)
  BY Zenon DEF Net, Strength
<1>6. Signal(lines[i][2]) \in Int
  BY SignalIsSmall
<1> QED
  BY <1>2, <1>4, <1>5, <1>6, Zenon

\* The list with line k in the place of a weaker one of its name.
Refined(seen, lines, k) ==
    [j \in DOMAIN seen |->
       IF seen[j].ssid = Ssid(lines, k) /\ Strength(lines, k) > seen[j].signal
         THEN Net(lines, k) ELSE seen[j]]

\* What line k makes of the list, as three cases.
KeepDoes(seen, lines, k) ==
    /\ ~Named(lines, k) => Keep(seen, lines[k]) = seen
    /\ (Named(lines, k) /\ \A j \in DOMAIN seen : seen[j].ssid # Ssid(lines, k)) =>
          Keep(seen, lines[k]) = Append(seen, Net(lines, k))
    /\ (Named(lines, k) /\ \E j \in DOMAIN seen : seen[j].ssid = Ssid(lines, k)) =>
          Keep(seen, lines[k]) = Refined(seen, lines, k)

(* One line of the loop, by what it is about. *)
LEMMA KeepCases ==
    ASSUME NEW seen, NEW lines, NEW k
    PROVE  KeepDoes(seen, lines, k)
<1> DEFINE same == {i \in DOMAIN seen : Names(lines[k]) /\ seen[i].ssid = lines[k][1]}
<1>1. ASSUME ~Names(lines[k]) PROVE Keep(seen, lines[k]) = seen
  BY <1>1, Zenon DEF Keep
<1>2. ASSUME Names(lines[k]), same = {} PROVE Keep(seen, lines[k]) = Append(seen, Network(lines[k]))
  BY <1>2, Zenon DEF Keep
<1>3. ASSUME Names(lines[k]), same # {}
      PROVE  Keep(seen, lines[k]) =
               [i \in DOMAIN seen |-> IF i \in same /\ Network(lines[k]).signal > seen[i].signal
                                        THEN Network(lines[k]) ELSE seen[i]]
  BY <1>3, Zenon DEF Keep
<1>4. ASSUME Names(lines[k])
      PROVE  \A i \in DOMAIN seen : i \in same <=> seen[i].ssid = lines[k][1]
  BY <1>4, Zenon
<1> HIDE DEF same
<1>5. ASSUME Names(lines[k])
      PROVE  same = {} <=> \A j \in DOMAIN seen : seen[j].ssid # lines[k][1]
  <2>1. same \subseteq DOMAIN seen
    BY DEF same
  <2> QED
    BY <1>4, <1>5, <2>1
<1>6. ASSUME Names(lines[k])
      PROVE  [i \in DOMAIN seen |-> IF i \in same /\ Network(lines[k]).signal > seen[i].signal
                                      THEN Network(lines[k]) ELSE seen[i]] =
             [i \in DOMAIN seen |-> IF seen[i].ssid = lines[k][1] /\ Network(lines[k]).signal > seen[i].signal
                                      THEN Network(lines[k]) ELSE seen[i]]
  <2>1. \A i \in DOMAIN seen :
          (IF i \in same /\ Network(lines[k]).signal > seen[i].signal
             THEN Network(lines[k]) ELSE seen[i]) =
          (IF seen[i].ssid = lines[k][1] /\ Network(lines[k]).signal > seen[i].signal
             THEN Network(lines[k]) ELSE seen[i])
    BY <1>4, <1>6, Zenon
  <2> QED
    BY <2>1, Zenon
<1> QED
  BY <1>1, <1>2, <1>3, <1>5, <1>6, Zenon DEF KeepDoes, Refined, Named, Ssid, Strength, Net

(* A line leads from one list of networks to another. *)
LEMMA KeepType ==
    ASSUME NEW n \in Nat, NEW lines \in [1..n -> Lines], NEW k \in 1..n, NEW seen \in Seq(Nets)
    PROVE  Keep(seen, lines[k]) \in Seq(Nets)
<1>1. Net(lines, k) \in Nets
  BY NetSays, Zenon
<1>2. Append(seen, Net(lines, k)) \in Seq(Nets)
  BY <1>1, AppendProperties
<1>3. Refined(seen, lines, k) \in Seq(Nets)
  <2> DEFINE new(j) == IF seen[j].ssid = Ssid(lines, k) /\ Strength(lines, k) > seen[j].signal
                         THEN Net(lines, k) ELSE seen[j]
  <2>1. Len(seen) \in Nat /\ DOMAIN seen = 1..Len(seen) /\ \A j \in 1..Len(seen) : seen[j] \in Nets
    BY SeqElements, Zenon
  <2>2. \A j \in 1..Len(seen) : new(j) \in Nets
    BY <1>1, <2>1, Zenon
  <2> HIDE DEF new
  <2>3. [j \in DOMAIN seen |-> new(j)] \in Seq(Nets)
    BY <2>1, <2>2
  <2> QED
    BY <2>3, Zenon DEF new, Refined
<1>4. KeepDoes(seen, lines, k)
  BY KeepCases, Zenon
<1> QED
  BY <1>2, <1>3, <1>4, Zenon DEF KeepDoes

\* Lines i and j name the same network.
SameNet(lines, i, j) == Named(lines, i) /\ Named(lines, j) /\ Ssid(lines, i) = Ssid(lines, j)

\* Line w is stronger than line i, or as strong and not behind it.
Prevails(lines, w, i) ==
    Strength(lines, i) < Strength(lines, w) \/ (Strength(lines, i) = Strength(lines, w) /\ w <= i)

\* After k lines the list has, at each place j, the line w[j], the strongest of its
\* network so far; h[j] is the first of its network, and the places are in the
\* order of these first lines.
Tracks(seen, lines, k, w, h) ==
    /\ seen \in Seq(Nets)
    /\ w \in [1..Len(seen) -> 1..k]
    /\ h \in [1..Len(seen) -> 1..k]
    /\ \A j \in 1..Len(seen) : SameNet(lines, w[j], h[j]) /\ seen[j] = Net(lines, w[j])
    /\ \A j \in 1..Len(seen), i \in 1..k :
         SameNet(lines, i, h[j]) => h[j] <= i /\ Prevails(lines, w[j], i)
    /\ \A i \in 1..k : Named(lines, i) => \E j \in 1..Len(seen) : SameNet(lines, i, h[j])
    /\ \A a, b \in 1..Len(seen) : a < b => h[a] < h[b]

Tracked(seen, lines, k) == \E w, h : Tracks(seen, lines, k, w, h)

(* A line that names no network leaves the list alone. *)
LEMMA UnnamedKeeps ==
    ASSUME NEW n \in Nat, NEW lines \in [1..n -> Lines], NEW k \in 1..n, NEW seen, NEW w, NEW h,
           Tracks(seen, lines, k - 1, w, h), ~Named(lines, k)
    PROVE  Tracks(seen, lines, k, w, h)
<1> DEFINE m == k - 1
           l == Len(seen)
<1>0. m \in Nat /\ k = m + 1 /\ \A i \in 1..k : i \in 1..m \/ i = k
  OBVIOUS
<1>1. /\ seen \in Seq(Nets)
      /\ w \in [1..l -> 1..m] /\ h \in [1..l -> 1..m]
      /\ \A j \in 1..l : SameNet(lines, w[j], h[j]) /\ seen[j] = Net(lines, w[j])
      /\ \A j \in 1..l, i \in 1..m : SameNet(lines, i, h[j]) => h[j] <= i /\ Prevails(lines, w[j], i)
      /\ \A i \in 1..m : Named(lines, i) => \E j \in 1..l : SameNet(lines, i, h[j])
      /\ \A a, b \in 1..l : a < b => h[a] < h[b]
  BY Zenon DEF Tracks
<1> HIDE DEF m, l
<1>2. w \in [1..l -> 1..k] /\ h \in [1..l -> 1..k]
  BY <1>0, <1>1
<1>3. \A j \in 1..l, i \in 1..k : SameNet(lines, i, h[j]) => h[j] <= i /\ Prevails(lines, w[j], i)
  BY <1>0, <1>1, Zenon DEF SameNet
<1>4. \A i \in 1..k : Named(lines, i) => \E j \in 1..l : SameNet(lines, i, h[j])
  BY <1>0, <1>1, Zenon
<1> QED
  BY <1>1, <1>2, <1>3, <1>4, Zenon DEF Tracks, l

(* A line of a new network takes a place of its own. *)
LEMMA NewKeeps ==
    ASSUME NEW n \in Nat, NEW lines \in [1..n -> Lines], NEW k \in 1..n, NEW seen, NEW w, NEW h,
           Tracks(seen, lines, k - 1, w, h), Named(lines, k),
           \A j \in DOMAIN seen : seen[j].ssid # Ssid(lines, k)
    PROVE  Tracked(Append(seen, Net(lines, k)), lines, k)
<1> DEFINE m == k - 1
           l == Len(seen)
<1>0. m \in Nat /\ k = m + 1 /\ (\A i \in 1..k : i \in 1..m \/ i = k) /\ k \in 1..k /\ 1..m \subseteq 1..n
  OBVIOUS
<1>1. /\ seen \in Seq(Nets)
      /\ w \in [1..l -> 1..m] /\ h \in [1..l -> 1..m]
      /\ \A j \in 1..l : SameNet(lines, w[j], h[j]) /\ seen[j] = Net(lines, w[j])
      /\ \A j \in 1..l, i \in 1..m : SameNet(lines, i, h[j]) => h[j] <= i /\ Prevails(lines, w[j], i)
      /\ \A i \in 1..m : Named(lines, i) => \E j \in 1..l : SameNet(lines, i, h[j])
      /\ \A a, b \in 1..l : a < b => h[a] < h[b]
  BY Zenon DEF Tracks
<1> HIDE DEF m
<1>2. l \in Nat /\ DOMAIN seen = 1..l
  BY <1>1, SeqElements, Zenon
<1>3. \A j \in 1..l : ~SameNet(lines, k, h[j]) /\ ~SameNet(lines, h[j], k)
  <2>1. \A j \in 1..l : seen[j].ssid = Ssid(lines, w[j]) /\ Ssid(lines, w[j]) = Ssid(lines, h[j])
    <3>1. \A j \in 1..l : w[j] \in 1..n
      BY <1>0, <1>1
    <3>2. \A j \in 1..l : Net(lines, w[j]).ssid = Ssid(lines, w[j])
      BY <3>1, NetSays, Zenon
    <3> QED
      BY <1>1, <3>2, Zenon DEF SameNet
  <2> QED
    BY <1>2, <2>1, Zenon DEF SameNet
<1> DEFINE v == [j \in 1..(l + 1) |-> IF j = l + 1 THEN k ELSE w[j]]
           g == [j \in 1..(l + 1) |-> IF j = l + 1 THEN k ELSE h[j]]
           p == Append(seen, Net(lines, k))
<1>4. p \in Seq(Nets) /\ Len(p) = l + 1 /\ p[l + 1] = Net(lines, k) /\ \A j \in 1..l : p[j] = seen[j]
  <2>1. Net(lines, k) \in Nets
    BY NetSays, Zenon
  <2> QED
    BY <1>1, <2>1, AppendProperties
<1> HIDE DEF p, l
<1>5. \A j \in 1..(l + 1) : j \in 1..l \/ j = l + 1
  BY <1>2
<1>6. /\ v \in [1..(l + 1) -> 1..k] /\ g \in [1..(l + 1) -> 1..k]
      /\ v[l + 1] = k /\ g[l + 1] = k
      /\ \A j \in 1..l : v[j] = w[j] /\ g[j] = h[j] /\ g[j] \in 1..m /\ j \in 1..(l + 1)
      /\ l + 1 \in 1..(l + 1)
  BY <1>0, <1>1, <1>2
<1> HIDE DEF v, g
<1>7. \A j \in 1..(l + 1) : SameNet(lines, v[j], g[j]) /\ p[j] = Net(lines, v[j])
  BY <1>1, <1>4, <1>5, <1>6, Zenon DEF SameNet
<1>8. ASSUME NEW j \in 1..(l + 1), NEW i \in 1..k, SameNet(lines, i, g[j])
      PROVE  g[j] <= i /\ Prevails(lines, v[j], i)
  <2>1. CASE j \in 1..l /\ i \in 1..m
    BY <1>1, <1>6, <1>8, <2>1, Zenon
  <2>2. CASE j \in 1..l /\ i = k
    BY <1>3, <1>6, <1>8, <2>2, Zenon
  <2>3. CASE j = l + 1 /\ i \in 1..m
    <3>1. PICK b \in 1..l : SameNet(lines, i, h[b])
      BY <1>1, <1>8, <2>3, Zenon DEF SameNet
    <3>2. SameNet(lines, k, h[b])
      BY <1>6, <1>8, <2>3, <3>1, Zenon DEF SameNet
    <3> QED
      BY <1>3, <3>2, Zenon
  <2>4. CASE j = l + 1 /\ i = k
    BY <1>6, <2>4 DEF Prevails
  <2> QED
    BY <1>0, <1>5, <2>1, <2>2, <2>3, <2>4
<1>9. ASSUME NEW i \in 1..k, Named(lines, i) PROVE \E j \in 1..(l + 1) : SameNet(lines, i, g[j])
  <2>1. CASE i \in 1..m
    BY <1>1, <1>6, <1>9, <2>1, Zenon
  <2>2. CASE i = k
    BY <1>6, <1>9, <2>2, Zenon DEF SameNet
  <2> QED
    BY <1>0, <2>1, <2>2
<1>10. ASSUME NEW a \in 1..(l + 1), NEW b \in 1..(l + 1), a < b PROVE g[a] < g[b]
  <2>1. a \in 1..l
    BY <1>2, <1>10
  <2>2. CASE b \in 1..l
    BY <1>1, <1>6, <1>10, <2>1, <2>2
  <2>3. CASE b = l + 1
    BY <1>0, <1>6, <2>1, <2>3
  <2> QED
    BY <1>5, <2>2, <2>3
<1>11. Tracks(p, lines, k, v, g)
  BY <1>4, <1>6, <1>7, <1>8, <1>9, <1>10, Zenon DEF Tracks
<1> QED
  BY <1>11, Zenon DEF Tracked, p

(* A line of a network of the list takes its place, if it is stronger. *)
LEMMA KnownKeeps ==
    ASSUME NEW n \in Nat, NEW lines \in [1..n -> Lines], NEW k \in 1..n, NEW seen, NEW w, NEW h,
           Tracks(seen, lines, k - 1, w, h), Named(lines, k),
           \E j \in DOMAIN seen : seen[j].ssid = Ssid(lines, k)
    PROVE  Tracked(Refined(seen, lines, k), lines, k)
<1> DEFINE m == k - 1
           l == Len(seen)
<1>0. m \in Nat /\ k = m + 1 /\ (\A i \in 1..k : i \in 1..m \/ i = k) /\ k \in 1..k /\ 1..m \subseteq 1..n
  OBVIOUS
<1>1. /\ seen \in Seq(Nets)
      /\ w \in [1..l -> 1..m] /\ h \in [1..l -> 1..m]
      /\ \A j \in 1..l : SameNet(lines, w[j], h[j]) /\ seen[j] = Net(lines, w[j])
      /\ \A j \in 1..l, i \in 1..m : SameNet(lines, i, h[j]) => h[j] <= i /\ Prevails(lines, w[j], i)
      /\ \A i \in 1..m : Named(lines, i) => \E j \in 1..l : SameNet(lines, i, h[j])
      /\ \A a, b \in 1..l : a < b => h[a] < h[b]
  BY Zenon DEF Tracks
<1> HIDE DEF m
<1>2. l \in Nat /\ DOMAIN seen = 1..l /\ \A j \in 1..l : seen[j] \in Nets
  BY <1>1, SeqElements, Zenon
<1>range. \A j \in 1..l : w[j] \in 1..m /\ h[j] \in 1..m /\ w[j] \in 1..n /\ w[j] \in 1..k /\ h[j] \in 1..k
  BY <1>0, <1>1
<1>3. /\ \A j \in 1..l : seen[j].ssid = Ssid(lines, w[j]) /\ seen[j].signal = Strength(lines, w[j])
      /\ \A j \in 1..l : Strength(lines, w[j]) \in Int
      /\ Strength(lines, k) \in Int /\ Net(lines, k) \in Nets
  BY <1>1, <1>range, NetSays, Zenon
<1>4. \A j \in 1..l : seen[j].ssid = Ssid(lines, k) <=> SameNet(lines, k, h[j])
  BY <1>1, <1>3, Zenon DEF SameNet
<1>5. PICK s \in 1..l : SameNet(lines, k, h[s])
  BY <1>2, <1>4, Zenon
<1>6. \A j \in 1..l : SameNet(lines, k, h[j]) => j = s
  <2> SUFFICES ASSUME NEW j \in 1..l, SameNet(lines, k, h[j]) PROVE j = s
    OBVIOUS
  <2>1. SameNet(lines, h[s], h[j]) /\ SameNet(lines, h[j], h[s])
    BY <1>5 DEF SameNet
  <2>2. h[s] <= h[j] /\ h[j] <= h[s]
    BY <1>1, <1>range, <2>1, Zenon
  <2>3. j < s \/ s < j \/ j = s
    BY <1>2
  <2> QED
    BY <1>1, <1>range, <2>2, <2>3
<1> DEFINE stronger == Strength(lines, k) > Strength(lines, w[s])
           v == [j \in 1..l |-> IF j = s /\ stronger THEN k ELSE w[j]]
           p == Refined(seen, lines, k)
<1>7. /\ v \in [1..l -> 1..k]
      /\ v[s] = IF stronger THEN k ELSE w[s]
      /\ \A j \in 1..l : j # s => v[j] = w[j]
  BY <1>0, <1>range
<1>8. p \in Seq(Nets) /\ Len(p) = l /\ \A j \in 1..l : p[j] = IF j = s /\ stronger THEN Net(lines, k) ELSE seen[j]
  <2> DEFINE new(j) == IF seen[j].ssid = Ssid(lines, k) /\ Strength(lines, k) > seen[j].signal
                         THEN Net(lines, k) ELSE seen[j]
  <2>1. p = [j \in 1..l |-> new(j)]
    BY <1>2, Zenon DEF Refined
  <2>2. \A j \in 1..l : new(j) = IF j = s /\ stronger THEN Net(lines, k) ELSE seen[j]
    BY <1>3, <1>4, <1>5, <1>6, Zenon
  <2>3. \A j \in 1..l : new(j) \in Nets
    BY <1>2, <1>3, Zenon
  <2> HIDE DEF new, p, l
  <2>4. p \in Seq(Nets) /\ Len(p) = l /\ \A j \in 1..l : p[j] = new(j)
    BY <1>2, <2>1, <2>3
  <2> QED
    BY <2>2, <2>4, Zenon
<1> HIDE DEF v, p, stronger, l
<1>stronger. stronger <=> Strength(lines, k) > Strength(lines, w[s])
  BY DEF stronger
<1>9. \A j \in 1..l : SameNet(lines, v[j], h[j]) /\ p[j] = Net(lines, v[j])
  BY <1>1, <1>5, <1>7, <1>8, Zenon
<1>10. ASSUME NEW j \in 1..l, NEW i \in 1..k, SameNet(lines, i, h[j])
       PROVE  h[j] <= i /\ Prevails(lines, v[j], i)
  <2>1. CASE j # s /\ i \in 1..m
    BY <1>1, <1>7, <1>10, <2>1, Zenon
  <2>2. CASE j # s /\ i = k
    BY <1>6, <1>10, <2>2, Zenon
  <2>3. CASE j = s /\ i \in 1..m
    <3>1. h[s] <= i /\ Prevails(lines, w[s], i)
      BY <1>1, <1>10, <2>3, Zenon
    <3>2. Strength(lines, i) \in Int
      BY <1>0, <2>3, NetSays
    <3>3. stronger => Prevails(lines, k, i)
      BY <1>3, <1>stronger, <3>1, <3>2 DEF Prevails
    <3> QED
      BY <1>7, <2>3, <3>1, <3>3, Zenon
  <2>4. CASE j = s /\ i = k
    <3>1. h[s] <= k /\ w[s] <= k
      BY <1>0, <1>range
    <3>2. Prevails(lines, k, k)
      BY <1>0 DEF Prevails
    <3>3. ~stronger => Prevails(lines, w[s], k)
      BY <1>3, <1>stronger, <3>1 DEF Prevails
    <3> QED
      BY <1>7, <2>4, <3>1, <3>2, <3>3, Zenon
  <2> QED
    BY <1>0, <2>1, <2>2, <2>3, <2>4
<1>11. \A i \in 1..k : Named(lines, i) => \E j \in 1..l : SameNet(lines, i, h[j])
  BY <1>0, <1>1, <1>5, Zenon
<1>12. h \in [1..l -> 1..k]
  BY <1>0, <1>1
<1>13. Tracks(p, lines, k, v, h)
  BY <1>1, <1>7, <1>8, <1>9, <1>10, <1>11, <1>12, Zenon DEF Tracks
<1> QED
  BY <1>13, Zenon DEF Tracked, p

(* One line more, and the list still tracks the strongest lines. *)
LEMMA KeepTracks ==
    ASSUME NEW n \in Nat, NEW lines \in [1..n -> Lines], NEW k \in 1..n, NEW seen,
           Tracked(seen, lines, k - 1)
    PROVE  Tracked(Keep(seen, lines[k]), lines, k)
<1>1. PICK w, h : Tracks(seen, lines, k - 1, w, h)
  BY Zenon DEF Tracked
<1>2. KeepDoes(seen, lines, k)
  BY KeepCases, Zenon
<1>3. CASE ~Named(lines, k)
  <2>1. Tracks(seen, lines, k, w, h)
    BY <1>1, <1>3, UnnamedKeeps, Zenon
  <2> QED
    BY <1>2, <1>3, <2>1, Zenon DEF KeepDoes, Tracked
<1>4. CASE Named(lines, k) /\ \A j \in DOMAIN seen : seen[j].ssid # Ssid(lines, k)
  <2>1. Tracked(Append(seen, Net(lines, k)), lines, k)
    BY <1>1, <1>4, NewKeeps, Zenon
  <2> QED
    BY <1>2, <1>4, <2>1, Zenon DEF KeepDoes
<1>5. CASE Named(lines, k) /\ \E j \in DOMAIN seen : seen[j].ssid = Ssid(lines, k)
  <2>1. Tracked(Refined(seen, lines, k), lines, k)
    BY <1>1, <1>5, KnownKeeps, Zenon
  <2> QED
    BY <1>2, <1>5, <2>1, Zenon DEF KeepDoes
<1> QED
  BY <1>3, <1>4, <1>5, Zenon

\* F is what the recursion of Seen asks for.
IsSeen(F, n, lines) == F = [k \in 0..n |-> IF k = 0 THEN <<>> ELSE Keep(F[k - 1], lines[k])]

(* The recursion of Seen has a value. *)
LEMMA SeenExists ==
    ASSUME NEW n \in Nat, NEW lines \in [1..n -> Lines]
    PROVE  \E f : IsSeen(f, n, lines)
<1> DEFINE V == Seq(Nets)
           g == [k \in 1..n |-> [v \in V |-> Keep(v, lines[k])]]
<1>1. g \in [1..n -> [V -> V]] /\ <<>> \in V
  <2>1. ASSUME NEW k \in 1..n, NEW v \in V PROVE Keep(v, lines[k]) \in V
    BY KeepType, Zenon
  <2>2. <<>> \in V
    OBVIOUS
  <2> HIDE DEF V
  <2> QED
    BY <2>1, <2>2
<1>2. \A k \in 1..n : \A v \in V : g[k][v] = Keep(v, lines[k])
  BY Zenon
<1> HIDE DEF g, V
<1>3. PICK f : IsSteps(f, V, <<>>, n, g)
  BY <1>1, StepwiseExists, Zenon
<1>4. f \in [0..n -> V] /\ f[0] = <<>> /\ \A k \in 1..n : f[k] = g[k][f[k - 1]]
  BY <1>3, Zenon DEF IsSteps
<1>5. \A k \in 1..n : f[k] = Keep(f[k - 1], lines[k])
  <2>1. \A k \in 1..n : f[k - 1] \in V
    BY <1>4
  <2> QED
    BY <1>2, <1>4, <2>1, Zenon
<1> DEFINE h == [k \in 0..n |-> f[k]]
<1>6. ASSUME NEW k \in 0..n PROVE h[k] = IF k = 0 THEN <<>> ELSE Keep(h[k - 1], lines[k])
  BY <1>4, <1>5
<1>7. IsSeen(h, n, lines)
  BY <1>6 DEF IsSeen
<1> QED
  BY <1>7

(* The dictionary tracks the strongest line of each network, for any lines. *)
LEMMA SeenIsTracked ==
    ASSUME NEW n \in Nat, NEW lines \in [1..n -> Lines]
    PROVE  Tracked(Seen(lines), lines, n)
<1> DEFINE F == CHOOSE f : IsSeen(f, n, lines)
<1>0. Len(lines) = n
  OBVIOUS
<1>1. IsSeen(F, n, lines)
  <2>1. \E f : IsSeen(f, n, lines)
    BY SeenExists
  <2> QED
    BY <2>1, Zenon
<1>2. Seen(lines) = F[n]
  BY <1>0, Zenon DEF Seen, IsSeen
<1>3. \A k \in 0..n : F[k] = IF k = 0 THEN <<>> ELSE Keep(F[k - 1], lines[k])
  BY <1>1, Zenon DEF IsSeen
<1> HIDE DEF F
<1> DEFINE S == {k \in Nat : k <= n => Tracked(F[k], lines, k)}
<1>4. 0 \in S
  <2>1. F[0] = <<>>
    BY <1>3
  <2> DEFINE none == [j \in 1..0 |-> 0]
  <2>2. Tracks(<<>>, lines, 0, none, none)
    <3>1. <<>> \in Seq(Nets) /\ Len(<<>>) = 0 /\ none \in [1..0 -> 1..0] /\ 1..0 = {}
      OBVIOUS
    <3> QED
      BY <3>1, Zenon DEF Tracks
  <2> QED
    BY <2>1, <2>2 DEF Tracked
<1>5. ASSUME NEW k \in S PROVE k + 1 \in S
  <2> SUFFICES ASSUME k + 1 <= n PROVE Tracked(F[k + 1], lines, k + 1)
    OBVIOUS
  <2>1. k + 1 \in 1..n /\ (k + 1) - 1 = k /\ k + 1 \in 0..n /\ k + 1 # 0 /\ Tracked(F[k], lines, k)
    OBVIOUS
  <2>2. F[k + 1] = Keep(F[k], lines[k + 1])
    BY <1>3, <2>1
  <2> QED
    BY <2>1, <2>2, KeepTracks, Zenon
<1>6. \A k \in Nat : k \in S
  <2>1. S \in SUBSET Nat
    OBVIOUS
  <2> HIDE DEF S
  <2> QED
    BY <1>4, <1>5, <2>1, AllNaturals
<1>7. Tracked(F[n], lines, n)
  BY <1>6
<1> QED
  BY <1>2, <1>7

\* What the reference makes of the lines, by the same w and h.
Agrees(lines, l, w, h) ==
    /\ Strongest(lines) = {w[j] : j \in 1..l}
    /\ \A a, b \in 1..l : w[a] = w[b] => a = b
    /\ \A a, b \in 1..l :
         Beats(lines, w[a], w[b]) <=>
           (Strength(lines, w[a]) > Strength(lines, w[b])
              \/ (Strength(lines, w[a]) = Strength(lines, w[b]) /\ a < b))

(* What is tracked is what the reference calls the strongest, and in its order. *)
LEMMA TracksAgrees ==
    ASSUME NEW n \in Nat, NEW lines \in [1..n -> Lines], NEW seen, NEW w, NEW h,
           Tracks(seen, lines, n, w, h)
    PROVE  Agrees(lines, Len(seen), w, h)
<1> DEFINE l == Len(seen)
<1>0. DOMAIN lines = 1..n
  OBVIOUS
<1>1. /\ seen \in Seq(Nets)
      /\ w \in [1..l -> 1..n] /\ h \in [1..l -> 1..n]
      /\ \A j \in 1..l : SameNet(lines, w[j], h[j]) /\ seen[j] = Net(lines, w[j])
      /\ \A j \in 1..l, i \in 1..n : SameNet(lines, i, h[j]) => h[j] <= i /\ Prevails(lines, w[j], i)
      /\ \A i \in 1..n : Named(lines, i) => \E j \in 1..l : SameNet(lines, i, h[j])
      /\ \A a, b \in 1..l : a < b => h[a] < h[b]
  BY Zenon DEF Tracks
<1>2. l \in Nat
  BY <1>1
<1> HIDE DEF l
<1>range. \A j \in 1..l : w[j] \in 1..n /\ h[j] \in 1..n
  BY <1>1
<1>strength. \A i \in 1..n : Strength(lines, i) \in Int
  BY NetSays, Zenon
<1>3. \A i \in 1..n : i \in Strongest(lines) <=>
         Named(lines, i) /\ \A j \in 1..n : SameNet(lines, j, i) => Prevails(lines, i, j)
  BY <1>0, Zenon DEF Strongest, SameNet, Named, Ssid, Prevails, Strength
<1>4. Strongest(lines) = {w[j] : j \in 1..l}
  <2>1. ASSUME NEW j \in 1..l PROVE w[j] \in Strongest(lines)
    <3>1. Named(lines, w[j])
      BY <1>1, Zenon DEF SameNet
    <3>2. ASSUME NEW i \in 1..n, SameNet(lines, i, w[j]) PROVE Prevails(lines, w[j], i)
      <4>1. SameNet(lines, i, h[j])
        BY <1>1, <3>2, Zenon DEF SameNet
      <4> QED
        BY <1>1, <4>1, Zenon
    <3> QED
      BY <1>3, <1>range, <3>1, <3>2, Zenon
  <2>2. ASSUME NEW i \in Strongest(lines) PROVE \E j \in 1..l : i = w[j]
    <3>1. i \in 1..n
      BY <1>0, Zenon DEF Strongest
    <3>2. Named(lines, i) /\ \A j \in 1..n : SameNet(lines, j, i) => Prevails(lines, i, j)
      BY <1>3, <2>2, <3>1, Zenon
    <3>3. PICK j \in 1..l : SameNet(lines, i, h[j])
      BY <1>1, <3>1, <3>2, Zenon
    <3>4. SameNet(lines, w[j], i)
      BY <1>1, <3>3, Zenon DEF SameNet
    <3>5. Prevails(lines, i, w[j]) /\ Prevails(lines, w[j], i)
      BY <1>1, <1>range, <3>1, <3>2, <3>3, <3>4, Zenon
    <3> QED
      BY <1>range, <1>strength, <3>1, <3>5 DEF Prevails
  <2> QED
    BY <2>1, <2>2, Zenon
<1>5. \A a, b \in 1..l : SameNet(lines, h[a], h[b]) => a = b
  <2> SUFFICES ASSUME NEW a \in 1..l, NEW b \in 1..l, SameNet(lines, h[a], h[b]) PROVE a = b
    OBVIOUS
  <2>1. SameNet(lines, h[b], h[a])
    BY Zenon DEF SameNet
  <2>2. h[b] <= h[a] /\ h[a] <= h[b]
    BY <1>1, <1>range, <2>1, Zenon
  <2>3. ~(h[a] < h[b]) /\ ~(h[b] < h[a])
    BY <1>range, <2>2
  <2>4. ~(a < b) /\ ~(b < a)
    BY <1>1, <2>3, Zenon
  <2> QED
    BY <1>2, <2>4
<1>6. \A a, b \in 1..l : w[a] = w[b] => a = b
  BY <1>1, <1>5, Zenon DEF SameNet
<1>7. ASSUME NEW j \in 1..l PROVE FirstOf(lines, w[j]) = h[j]
  <2> DEFINE P(x) == /\ x \in DOMAIN lines
                     /\ Names(lines[x]) /\ lines[x][1] = lines[w[j]][1]
                     /\ \A k \in 1..(x - 1) : ~(Names(lines[k]) /\ lines[k][1] = lines[w[j]][1])
  <2>1. ASSUME NEW x, P(x) PROVE x = h[j]
    <3>1. x \in 1..n /\ SameNet(lines, x, h[j])
      BY <1>0, <1>1, <2>1, Zenon DEF SameNet, Named, Ssid
    <3>2. h[j] <= x
      BY <1>1, <3>1, Zenon
    <3>3. h[j] \notin 1..(x - 1)
      BY <1>1, <2>1, Zenon DEF SameNet, Named, Ssid
    <3> QED
      BY <1>range, <3>1, <3>2, <3>3
  <2>2. P(h[j])
    <3>1. h[j] \in DOMAIN lines /\ Names(lines[h[j]]) /\ lines[h[j]][1] = lines[w[j]][1]
      BY <1>0, <1>1, <1>range, Zenon DEF SameNet, Named, Ssid
    <3>2. ASSUME NEW k \in 1..(h[j] - 1), Names(lines[k]), lines[k][1] = lines[w[j]][1] PROVE FALSE
      <4>1. k \in 1..n /\ ~(h[j] <= k)
        BY <1>range
      <4>2. SameNet(lines, k, h[j])
        BY <1>1, <3>2, Zenon DEF SameNet, Named, Ssid
      <4> QED
        BY <1>1, <4>1, <4>2, Zenon
    <3> QED
      BY <3>1, <3>2, Zenon
  <2>3. FirstOf(lines, w[j]) = CHOOSE x : P(x)
    BY Zenon DEF FirstOf
  <2> QED
    BY <2>1, <2>2, <2>3, Zenon
<1>8. ASSUME NEW a \in 1..l, NEW b \in 1..l
      PROVE  Beats(lines, w[a], w[b]) <=>
               (Strength(lines, w[a]) > Strength(lines, w[b])
                  \/ (Strength(lines, w[a]) = Strength(lines, w[b]) /\ a < b))
  <2>1. h[a] < h[b] <=> a < b
    <3>1. /\ a < b => h[a] < h[b]
          /\ b < a => h[b] < h[a]
          /\ a < b \/ b < a \/ a = b
      BY <1>1, <1>2
    <3>2. h[a] \in 1..n /\ h[b] \in 1..n
      BY <1>range
    <3> QED
      BY <3>1, <3>2
  <2>2. Beats(lines, w[a], w[b]) <=>
          (Strength(lines, w[a]) > Strength(lines, w[b])
             \/ (Strength(lines, w[a]) = Strength(lines, w[b]) /\ h[a] < h[b]))
    BY <1>7, Zenon DEF Beats, Strength
  <2> QED
    BY <2>1, <2>2, Zenon
<1> QED
  BY <1>4, <1>6, <1>8, Zenon DEF Agrees, l

\* The property, of the lines it is about.
Lists(lines, limit) ==
    LET list  == ScanList(lines, limit)
        all   == Strongest(lines)
    IN  /\ Len(list) = IF limit = 0 \/ limit > Cardinality(all)
                         THEN Cardinality(all) ELSE limit
        /\ \A k \in DOMAIN list : \E i \in all :
             /\ list[k] = Network(lines[i])
             /\ Cardinality({j \in all : Beats(lines, j, i)}) = k - 1

(* The property, for any lines and any limit. *)
LEMMA ListIsStrongest ==
    ASSUME NEW n \in Nat, NEW lines \in [1..n -> Lines], NEW limit \in Nat
    PROVE  Lists(lines, limit)
<1> DEFINE seen == Seen(lines)
           l    == Len(seen)
           keys == [i \in DOMAIN seen |-> -seen[i].signal]
           p    == Order(keys)
           best == BySignal(seen)
           list == ScanList(lines, limit)
           all  == Strongest(lines)
<1>1. PICK w, h : Tracks(seen, lines, n, w, h)
  BY SeenIsTracked, Zenon DEF Tracked
<1>2. /\ all = {w[j] : j \in 1..l}
      /\ \A a, b \in 1..l : w[a] = w[b] => a = b
      /\ \A a, b \in 1..l :
           Beats(lines, w[a], w[b]) <=>
             (Strength(lines, w[a]) > Strength(lines, w[b])
                \/ (Strength(lines, w[a]) = Strength(lines, w[b]) /\ a < b))
  <2>1. Agrees(lines, l, w, h)
    BY <1>1, TracksAgrees, Zenon
  <2> HIDE DEF l
  <2> QED
    BY <2>1, Zenon DEF Agrees
<1>3. best = Sorted(seen, keys) /\ list = Cut(best, limit)
  BY Zenon DEF BySignal, ScanList
<1> HIDE DEF seen, best, list, all
<1>4. seen \in Seq(Nets) /\ w \in [1..l -> 1..n] /\ \A j \in 1..l : seen[j] = Net(lines, w[j])
  BY <1>1, Zenon DEF Tracks
<1>5. l \in Nat /\ DOMAIN seen = 1..l
  BY <1>4, SeqElements, Zenon
<1> HIDE DEF l
<1>6. \A j \in 1..l : w[j] \in 1..n /\ Strength(lines, w[j]) \in Int /\ seen[j].signal = Strength(lines, w[j])
  <2>1. \A j \in 1..l : w[j] \in 1..n
    BY <1>4
  <2> QED
    BY <1>4, <2>1, NetSays, Zenon
<1>7. \A j \in 1..l : keys[j] = -Strength(lines, w[j]) /\ keys[j] \in Int
  <2>1. \A j \in 1..l : keys[j] = -seen[j].signal
    BY <1>5
  <2> HIDE DEF keys
  <2>2. \A j \in 1..l : keys[j] = -Strength(lines, w[j])
    BY <1>6, <2>1, Zenon
  <2> QED
    BY <1>6, <2>2
<1>8. keys \in [1..l -> Int]
  <2>1. keys = [j \in 1..l |-> keys[j]]
    BY <1>5
  <2> HIDE DEF keys
  <2> QED
    BY <1>7, <2>1
<1> HIDE DEF keys, p
<1>9. /\ DOMAIN best = 1..l
      /\ Ordered(p, keys, l)
      /\ \A a \in 1..l : p[a] \in 1..l /\ best[a] = seen[p[a]]
  <2>1. PutInOrder(best, seen, keys)
    BY <1>3, <1>4, <1>8, SortedIs, Zenon DEF l
  <2> QED
    BY <2>1, Zenon DEF PutInOrder, l, p
<1>10. \A a, b \in 1..l : InOrder(p, keys, a, b)
  BY <1>5, <1>8, <1>9, OrderedSays, Zenon
<1> DEFINE f == [a \in 1..l |-> w[p[a]]]
<1>f. \A a \in 1..l : f[a] = w[p[a]] /\ p[a] \in 1..l
  BY <1>9
<1> HIDE DEF f
<1>11. OneToOne(f, l)
  <2>1. \A a, b \in 1..l : p[a] = p[b] => a = b
    BY <1>10, Zenon DEF InOrder
  <2>2. ASSUME NEW a \in 1..l, NEW b \in 1..l, f[a] = f[b] PROVE p[a] = p[b]
    <3>1. w[p[a]] = w[p[b]] /\ p[a] \in 1..l /\ p[b] \in 1..l
      BY <1>f, <2>2
    <3>2. \A x, y \in 1..l : w[x] = w[y] => x = y
      BY <1>2
    <3> QED
      BY <3>1, <3>2, Zenon
  <2> QED
    BY <2>1, <2>2, Zenon DEF OneToOne
<1>12. all = {f[a] : a \in 1..l}
  <2>1. \A j \in 1..l : \E a \in 1..l : p[a] = j
    BY <1>9, Zenon DEF Ordered
  <2>2. all = {w[j] : j \in 1..l}
    BY <1>2
  <2>3. ASSUME NEW i \in all PROVE i \in {f[a] : a \in 1..l}
    BY <1>f, <2>1, <2>2
  <2>4. ASSUME NEW a \in 1..l PROVE f[a] \in all
    BY <1>f, <2>2
  <2> QED
    BY <2>3, <2>4, Zenon
<1>13. Cardinality(all) = l
  <2>1. Cardinality(Image(f, l)) = l
    BY <1>5, <1>11, ImageCounts, Zenon
  <2> QED
    BY <1>12, <2>1, Zenon DEF Image
<1>14. \A a, b \in 1..l : Beats(lines, f[b], f[a]) <=> b < a
  <2> SUFFICES ASSUME NEW a \in 1..l, NEW b \in 1..l PROVE Beats(lines, f[b], f[a]) <=> b < a
    OBVIOUS
  <2>1. Beats(lines, f[b], f[a]) <=>
          (Strength(lines, w[p[b]]) > Strength(lines, w[p[a]])
             \/ (Strength(lines, w[p[b]]) = Strength(lines, w[p[a]]) /\ p[b] < p[a]))
    <3>1. f[a] = w[p[a]] /\ f[b] = w[p[b]] /\ p[a] \in 1..l /\ p[b] \in 1..l
      BY <1>f
    <3>2. \A x, y \in 1..l :
            Beats(lines, w[x], w[y]) <=>
              (Strength(lines, w[x]) > Strength(lines, w[y])
                 \/ (Strength(lines, w[x]) = Strength(lines, w[y]) /\ x < y))
      BY <1>2
    <3>3. Beats(lines, w[p[b]], w[p[a]]) <=>
            (Strength(lines, w[p[b]]) > Strength(lines, w[p[a]])
               \/ (Strength(lines, w[p[b]]) = Strength(lines, w[p[a]]) /\ p[b] < p[a]))
      BY <3>1, <3>2, Zenon
    <3> QED
      BY <3>1, <3>3, Zenon
  <2>2. /\ keys[p[a]] = -Strength(lines, w[p[a]]) /\ Strength(lines, w[p[a]]) \in Int
        /\ keys[p[b]] = -Strength(lines, w[p[b]]) /\ Strength(lines, w[p[b]]) \in Int
        /\ p[a] \in 1..l /\ p[b] \in 1..l
    BY <1>6, <1>7, <1>f, Zenon
  <2>3. Beats(lines, f[b], f[a]) <=>
          (keys[p[b]] < keys[p[a]] \/ (keys[p[b]] = keys[p[a]] /\ p[b] < p[a]))
    BY <2>1, <2>2
  <2>4. InOrder(p, keys, a, b) /\ InOrder(p, keys, b, a)
    BY <1>10, Zenon
  <2>5. keys[p[a]] \in Int /\ keys[p[b]] \in Int
    BY <2>2
  <2> QED
    BY <2>2, <2>3, <2>4, <2>5 DEF InOrder
<1>15. ASSUME NEW a \in 1..l
       PROVE  /\ f[a] \in all /\ best[a] = Network(lines[f[a]])
              /\ Cardinality({j \in all : Beats(lines, j, f[a])}) = a - 1
  <2>1. f[a] \in all /\ best[a] = Network(lines[f[a]])
    BY <1>4, <1>9, <1>12, <1>f, Zenon DEF Net
  <2>2. {j \in all : Beats(lines, j, f[a])} = {f[b] : b \in 1..(a - 1)}
    <3>1. \A b \in 1..(a - 1) : b \in 1..l /\ b < a
      BY <1>5
    <3>2. \A b \in 1..l : b < a => b \in 1..(a - 1)
      BY <1>5
    <3>3. ASSUME NEW j \in all, Beats(lines, j, f[a]) PROVE j \in {f[b] : b \in 1..(a - 1)}
      <4>1. PICK b \in 1..l : j = f[b]
        BY <1>12, Zenon
      <4>2. b \in 1..(a - 1)
        BY <1>14, <3>2, <3>3, <4>1, Zenon
      <4> QED
        BY <4>1, <4>2, Zenon
    <3>4. ASSUME NEW b \in 1..(a - 1) PROVE f[b] \in all /\ Beats(lines, f[b], f[a])
      BY <1>12, <1>14, <3>1, Zenon
    <3> QED
      BY <3>3, <3>4, Zenon
  <2>3. Cardinality({f[b] : b \in 1..(a - 1)}) = a - 1
    <3>1. a - 1 \in Nat /\ \A b \in 1..(a - 1) : b \in 1..l
      BY <1>5
    <3>2. OneToOne(f, a - 1)
      BY <1>11, <3>1, Zenon DEF OneToOne
    <3>3. Cardinality(Image(f, a - 1)) = a - 1
      BY <3>1, <3>2, ImageCounts, Zenon
    <3> QED
      BY <3>3, Zenon DEF Image
  <2> QED
    BY <2>1, <2>2, <2>3, Zenon
<1>16. /\ Len(list) = IF limit = 0 \/ limit > l THEN l ELSE limit
       /\ DOMAIN list \subseteq 1..l /\ \A k \in DOMAIN list : list[k] = best[k]
  <2>1. Len(best) = l /\ best \in Seq({best[a] : a \in 1..l})
    <3>1. best = [a \in 1..l |-> best[a]]
      <4>1. best = [i \in DOMAIN seen |-> seen[Order(keys)[i]]]
        BY <1>3, Zenon DEF Sorted
      <4> QED
        BY <1>5, <4>1
    <3> QED
      BY <1>5, <3>1
  <2>2. CASE limit = 0 \/ limit >= l
    <3>1. list = best
      BY <1>3, <2>1, <2>2, Zenon DEF Cut
    <3> QED
      BY <1>5, <1>9, <2>1, <2>2, <3>1
  <2>3. CASE ~(limit = 0 \/ limit >= l)
    <3>1. list = SubSeq(best, 1, limit)
      BY <1>3, <2>1, <2>3, Zenon DEF Cut
    <3>2. 1..limit \subseteq 1..l /\ ~(limit > l)
      BY <1>5, <2>3
    <3>3. Len(list) = limit /\ DOMAIN list = 1..limit /\ \A k \in 1..limit : list[k] = best[k]
      BY <2>1, <3>1, <3>2
    <3> QED
      BY <2>3, <3>2, <3>3
  <2> QED
    BY <2>2, <2>3
<1> QED
  <2>1. Len(list) = IF limit = 0 \/ limit > Cardinality(all) THEN Cardinality(all) ELSE limit
    BY <1>13, <1>16, Zenon
  <2>2. ASSUME NEW k \in DOMAIN list
        PROVE  \E i \in all : /\ list[k] = Network(lines[i])
                              /\ Cardinality({j \in all : Beats(lines, j, i)}) = k - 1
    <3>1. k \in 1..l /\ list[k] = best[k]
      BY <1>16
    <3> QED
      BY <1>15, <3>1, Zenon
  <2> QED
    BY <2>1, <2>2, Zenon DEF Lists, list, all

(* The list of networks is the strongest line of each, in order. *)
THEOREM StrongestAreListed == Spec => []ScanListIsStrongest
<1>1. Init => ScanListIsStrongest
  <2> SUFFICES ASSUME Init, input[1] = "lines" PROVE ScanListIsStrongest
    BY DEF ScanListIsStrongest
  <2>1. PICK lines \in UpTo(Lines, LineLen), limit \in 0..2 : input = <<"lines", lines, limit>>
    BY Kinds, Zenon DEF GivenLines
  <2>2. PICK n \in 0..LineLen : lines \in [1..n -> Lines]
    BY Zenon DEF UpTo
  <2>3. n \in Nat /\ limit \in Nat
    BY ListingsAssumption
  <2>4. Lists(lines, limit)
    BY <2>2, <2>3, ListIsStrongest, Zenon
  <2>5. input[2] = lines /\ input[3] = limit
    BY <2>1
  <2> QED
    BY <2>4, <2>5, Zenon DEF Lists, ScanListIsStrongest
<1>2. ScanListIsStrongest /\ [Next]_input => ScanListIsStrongest'
  <2>1. ScanListIsStrongest <=> (input[1] = "lines" => Lists(input[2], input[3]))
    BY Zenon DEF ScanListIsStrongest, Lists
  <2>2. ScanListIsStrongest' <=> (input'[1] = "lines" => Lists(input'[2], input'[3]))
    BY Zenon DEF ScanListIsStrongest, Lists
  <2> QED
    BY <2>1, <2>2 DEF Next
<1> QED BY <1>1, <1>2, PTL DEF Spec
===============================================================================
