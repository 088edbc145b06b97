------------------------- MODULE AdvisorQueue_proofs -------------------------
(***************************************************************************)
(* Theorems about the advisor's hooks, proved for every number of hooks,   *)
(* every queue length, every cap and every clock.                          *)
(***************************************************************************)
EXTENDS AdvisorQueue, FiniteSetTheorems, Extrema

-----------------------------------------------------------------------------
(* Ranks: sorting by counting what goes before                             *)

\* Distinct numbers below n, one for each of 1..n, are all of them.
LEMMA DistinctFill ==
    ASSUME NEW n \in Nat, NEW f \in [1..n -> 0..(n - 1)],
           \A i, j \in 1..n : f[i] = f[j] => i = j
    PROVE  \A r \in 0..(n - 1) : \E i \in 1..n : f[i] = r
<1> DEFINE D == 1..n
           T == 0..(n - 1)
<1>1. /\ IsFiniteSet(D) /\ Cardinality(D) = n
      /\ IsFiniteSet(T) /\ Cardinality(T) = n
  <2>1. IsFiniteSet(D) /\ Cardinality(D) = n
    BY FS_Interval
  <2>2. IsFiniteSet(T) /\ Cardinality(T) = n
    <3>1. 0 \in Int /\ n - 1 \in Int
      OBVIOUS
    <3>2. IsFiniteSet(T) /\ Cardinality(T) = IF 0 > n - 1 THEN 0 ELSE (n - 1) - 0 + 1
      BY <3>1, FS_Interval
    <3> HIDE DEF T
    <3> QED BY <3>2
  <2> QED BY <2>1, <2>2
<1>2. f \in Injection(D, T)
  BY DEF Injection, IsInjective
<1> HIDE DEF D, T
<1>3. f \in Surjection(D, T)
  BY <1>1, <1>2, FS_Injection
<1>4. \A t \in T : \E i \in D : f[i] = t
  BY <1>3 DEF Surjection
<1> QED BY <1>4 DEF D, T

\* A strict total order of 1..n, and the ranks of its elements.
ordersStrictly(R, n) ==
    /\ \A i \in 1..n : <<i, i>> \notin R
    /\ \A i, j, k \in 1..n : (<<i, j>> \in R /\ <<j, k>> \in R) => <<i, k>> \in R
    /\ \A i, j \in 1..n : i # j => (<<i, j>> \in R \/ <<j, i>> \in R)
predecessors(R, n, i) == {j \in 1..n : <<j, i>> \in R}

ranks(rank, R, n) ==
    /\ rank \in [1..n -> 0..(n - 1)]
    /\ \A i \in 1..n : rank[i] = Cardinality(predecessors(R, n, i))
    /\ \A i, j \in 1..n : <<i, j>> \in R => rank[i] < rank[j]
    /\ \A r \in 0..(n - 1) : \E i \in 1..n : rank[i] = r

\* In a strict total order of 1..n the number of predecessors grows with the
\* order and takes every value below n.
LEMMA Ranks ==
    ASSUME NEW n \in Nat, NEW R, ordersStrictly(R, n)
    PROVE  \E rank : ranks(rank, R, n)
<1> DEFINE D == 1..n
           pred(i) == predecessors(R, n, i)
           rank == [i \in D |-> Cardinality(pred(i))]
<1>1. IsFiniteSet(D) /\ Cardinality(D) = n
  BY FS_Interval
<1>2. \A i \in D : IsFiniteSet(pred(i)) /\ Cardinality(pred(i)) \in Nat
  <2> SUFFICES ASSUME NEW i \in D PROVE IsFiniteSet(pred(i)) /\ Cardinality(pred(i)) \in Nat
    OBVIOUS
  <2>1. pred(i) \in SUBSET D
    BY DEF predecessors
  <2> HIDE DEF pred, D
  <2>2. IsFiniteSet(pred(i))
    BY <1>1, <2>1, FS_Subset
  <2> QED BY <2>2, FS_CardinalityType
<1>3. ASSUME NEW i \in D, NEW j \in D, <<i, j>> \in R PROVE rank[i] < rank[j]
  <2>1. pred(i) \in SUBSET pred(j) /\ pred(i) # pred(j)
    BY <1>3 DEF predecessors, ordersStrictly
  <2>2. rank[i] = Cardinality(pred(i)) /\ rank[j] = Cardinality(pred(j))
    OBVIOUS
  <2> HIDE DEF pred, D, rank
  <2>3. /\ Cardinality(pred(i)) <= Cardinality(pred(j))
        /\ Cardinality(pred(j)) = Cardinality(pred(i)) => pred(j) = pred(i)
    BY <1>2, <2>1, FS_Subset
  <2> QED BY <1>2, <2>1, <2>2, <2>3
<1>4. ASSUME NEW i \in D PROVE rank[i] \in 0..(n - 1)
  <2>1. pred(i) \in SUBSET D /\ pred(i) # D
    BY DEF predecessors, ordersStrictly
  <2>2. rank[i] = Cardinality(pred(i))
    OBVIOUS
  <2> HIDE DEF pred, D, rank
  <2>3. /\ Cardinality(pred(i)) <= Cardinality(D)
        /\ Cardinality(D) = Cardinality(pred(i)) => D = pred(i)
    BY <1>1, <2>1, FS_Subset
  <2> QED BY <1>1, <1>2, <2>1, <2>2, <2>3
<1>5. rank \in [D -> 0..(n - 1)]
  <2> HIDE DEF pred
  <2> QED BY <1>4
<1>6. \A i \in D : rank[i] = Cardinality(pred(i))
  OBVIOUS
<1>7. \A i, j \in D : i # j => (<<i, j>> \in R \/ <<j, i>> \in R)
  BY DEF ordersStrictly
<1> HIDE DEF rank, D
<1>8. \A i, j \in D : rank[i] = rank[j] => i = j
  <2> SUFFICES ASSUME NEW i \in D, NEW j \in D, rank[i] = rank[j], i # j PROVE FALSE
    OBVIOUS
  <2>1. rank[i] \in Nat /\ rank[j] \in Nat
    BY <1>4
  <2>2. CASE <<i, j>> \in R
    BY <1>3, <2>1, <2>2
  <2>3. CASE <<j, i>> \in R
    BY <1>3, <2>1, <2>3
  <2> QED BY <1>7, <2>2, <2>3
<1>9. \A r \in 0..(n - 1) : \E i \in D : rank[i] = r
  BY <1>5, <1>8, DistinctFill DEF D
<1>10. ranks(rank, R, n)
  BY <1>3, <1>5, <1>6, <1>9 DEF D, ranks
<1> QED BY <1>10

-----------------------------------------------------------------------------
(* The order the cap sorts by                                              *)

\* What goes first, spelled out.
LEMMA GoesBeforeIs ==
    ASSUME NEW q \in Queue, NEW i \in DOMAIN q, NEW j \in DOMAIN q
    PROVE  goesBefore(q, i, j) <=>
             \/ ~ isPending(q[i]) /\ isPending(q[j])
             \/ /\ isPending(q[i]) <=> isPending(q[j])
                /\ \/ q[i].createdAt < q[j].createdAt
                   \/ q[i].createdAt = q[j].createdAt /\ i < j
<1>1. q[i].createdAt \in Nat /\ q[j].createdAt \in Nat /\ i \in Nat /\ j \in Nat
  <2>1. q[i] \in Item /\ q[j] \in Item /\ DOMAIN q = 1..Len(q) /\ Len(q) \in Nat
    BY DEF Queue
  <2> QED BY <2>1 DEF Item
<1> DEFINE a == q[i].createdAt
           b == q[j].createdAt
           x == q[i].status = "pending"
           y == q[j].status = "pending"
<1>2. goesBefore(q, i, j) <=>
        \/ (~ x /\ y) \/ ((x <=> y) /\ a < b)
        \/ (i < j /\ ~ ((~ y /\ x) \/ ((y <=> x) /\ b < a)))
  BY DEF goesBefore, dropsBefore, isPending
<1>3. a \in Nat /\ b \in Nat
  BY <1>1
<1> HIDE DEF a, b, x, y
<1>4. goesBefore(q, i, j) <=>
        \/ ~ x /\ y
        \/ (x <=> y) /\ (a < b \/ (a = b /\ i < j))
  BY <1>1, <1>2, <1>3
<1> QED BY <1>4 DEF a, b, x, y, isPending

\* It is a strict total order of the places of a queue.
LEMMA GoesBeforeOrders ==
    ASSUME NEW q \in Queue
    PROVE  /\ \A i \in DOMAIN q : ~ goesBefore(q, i, i)
           /\ \A i, j, k \in DOMAIN q :
                 (goesBefore(q, i, j) /\ goesBefore(q, j, k)) => goesBefore(q, i, k)
           /\ \A i, j \in DOMAIN q : i # j => (goesBefore(q, i, j) \/ goesBefore(q, j, i))
<1> DEFINE c == [i \in DOMAIN q |-> q[i].createdAt]
           x == [i \in DOMAIN q |-> IF isPending(q[i]) THEN 1 ELSE 0]
<1>1. /\ DOMAIN q \in SUBSET Nat
      /\ \A i \in DOMAIN q : q[i] \in Item
  <2>1. DOMAIN q = 1..Len(q) /\ Len(q) \in Nat /\ \A i \in 1..Len(q) : q[i] \in Item
    BY DEF Queue
  <2> QED BY <2>1
<1>2. \A i \in DOMAIN q : c[i] \in Nat /\ x[i] \in Nat
  BY <1>1 DEF Item
<1>3. ASSUME NEW i \in DOMAIN q, NEW j \in DOMAIN q
      PROVE  goesBefore(q, i, j) <=>
               x[i] < x[j] \/ (x[i] = x[j] /\ (c[i] < c[j] \/ (c[i] = c[j] /\ i < j)))
  <2>1. c[i] = q[i].createdAt /\ c[j] = q[j].createdAt
    OBVIOUS
  <2>2. /\ x[i] = IF isPending(q[i]) THEN 1 ELSE 0
        /\ x[j] = IF isPending(q[j]) THEN 1 ELSE 0
    OBVIOUS
  <2> HIDE DEF c, x
  <2>3. /\ x[i] < x[j] <=> (~ isPending(q[i]) /\ isPending(q[j]))
        /\ x[i] = x[j] <=> (isPending(q[i]) <=> isPending(q[j]))
    BY <2>2 DEF isPending
  <2> QED BY <2>1, <2>3, GoesBeforeIs
<1> HIDE DEF c, x
<1>4. \A i \in DOMAIN q : ~ goesBefore(q, i, i)
  BY <1>1, <1>2, <1>3
<1>5. ASSUME NEW i \in DOMAIN q, NEW j \in DOMAIN q, NEW k \in DOMAIN q,
             goesBefore(q, i, j), goesBefore(q, j, k)
      PROVE  goesBefore(q, i, k)
  <2>1. /\ i \in Nat /\ j \in Nat /\ k \in Nat
        /\ c[i] \in Nat /\ c[j] \in Nat /\ c[k] \in Nat
        /\ x[i] \in Nat /\ x[j] \in Nat /\ x[k] \in Nat
    BY <1>1, <1>2
  <2>2. /\ x[i] < x[j] \/ (x[i] = x[j] /\ (c[i] < c[j] \/ (c[i] = c[j] /\ i < j)))
        /\ x[j] < x[k] \/ (x[j] = x[k] /\ (c[j] < c[k] \/ (c[j] = c[k] /\ j < k)))
    BY <1>3, <1>5
  <2>3. x[i] < x[k] \/ (x[i] = x[k] /\ (c[i] < c[k] \/ (c[i] = c[k] /\ i < k)))
    BY <2>1, <2>2
  <2> QED BY <1>3, <2>3
<1>6. ASSUME NEW i \in DOMAIN q, NEW j \in DOMAIN q, i # j
      PROVE  goesBefore(q, i, j) \/ goesBefore(q, j, i)
  <2>1. /\ i \in Nat /\ j \in Nat
        /\ c[i] \in Nat /\ c[j] \in Nat /\ x[i] \in Nat /\ x[j] \in Nat
    BY <1>1, <1>2
  <2>2. \/ x[i] < x[j] \/ (x[i] = x[j] /\ (c[i] < c[j] \/ (c[i] = c[j] /\ i < j)))
        \/ x[j] < x[i] \/ (x[j] = x[i] /\ (c[j] < c[i] \/ (c[j] = c[i] /\ j < i)))
    BY <1>6, <2>1
  <2> QED BY <1>3, <2>2
<1> QED BY <1>4, <1>5, <1>6

\* A slice to the end of the sorted queue: which items it holds, in the order
\* of the sort, and that everything else goes before all of them.
LEMMA SliceIs ==
    ASSUME NEW q \in Queue, NEW k \in Nat, NEW n \in Nat, k + n = Len(q)
    PROVE  \E at \in [1..n -> DOMAIN q] :
              /\ sortedSlice(q, k, n) = [m \in 1..n |-> q[at[m]]]
              /\ \A l, m \in 1..n : l < m => goesBefore(q, at[l], at[m])
              /\ \A i \in DOMAIN q : \/ \E m \in 1..n : at[m] = i
                                     \/ \A m \in 1..n : goesBefore(q, i, at[m])
<1> DEFINE N == Len(q)
           R == {p \in (1..N) \X (1..N) : goesBefore(q, p[1], p[2])}
<1>1. N \in Nat /\ DOMAIN q = 1..N
  BY DEF Queue
<1>2. \A i, j \in 1..N : <<i, j>> \in R <=> goesBefore(q, i, j)
  OBVIOUS
<1>3. PICK rank : ranks(rank, R, N)
  <2>1. ordersStrictly(R, N)
    <3> HIDE DEF R, N
    <3> QED BY <1>1, <1>2, GoesBeforeOrders DEF ordersStrictly
  <2> HIDE DEF R, N
  <2> QED BY <1>1, <2>1, Ranks
<1>4. \A i \in 1..N : ahead(q, i) = rank[i]
  <2> SUFFICES ASSUME NEW i \in 1..N PROVE ahead(q, i) = rank[i]
    OBVIOUS
  <2>1. {j \in DOMAIN q : goesBefore(q, j, i)} = predecessors(R, N, i)
    BY <1>1 DEF predecessors
  <2> QED BY <1>3, <2>1 DEF ahead, ranks
<1> HIDE DEF R
<1>5. \A i, j \in 1..N : goesBefore(q, i, j) <=> rank[i] < rank[j]
  <2> SUFFICES ASSUME NEW i \in 1..N, NEW j \in 1..N
               PROVE  goesBefore(q, i, j) <=> rank[i] < rank[j]
    OBVIOUS
  <2>1. rank[i] \in Nat /\ rank[j] \in Nat
    BY <1>1, <1>3 DEF ranks
  <2>2. goesBefore(q, i, j) => rank[i] < rank[j]
    BY <1>2, <1>3 DEF ranks
  <2>3. goesBefore(q, j, i) => rank[j] < rank[i]
    BY <1>2, <1>3 DEF ranks
  <2>4. i # j => (goesBefore(q, i, j) \/ goesBefore(q, j, i))
    BY <1>1, GoesBeforeOrders
  <2> QED BY <2>1, <2>2, <2>3, <2>4
<1> DEFINE at == [m \in 1..n |-> CHOOSE i \in DOMAIN q : ahead(q, i) = k + m - 1]
<1>6. ASSUME NEW m \in 1..n PROVE at[m] \in 1..N /\ rank[at[m]] = k + m - 1
  <2>1. k + m - 1 \in 0..(N - 1)
    OBVIOUS
  <2>2. \E i \in 1..N : rank[i] = k + m - 1
    BY <1>3, <2>1 DEF ranks
  <2>3. \E i \in DOMAIN q : ahead(q, i) = k + m - 1
    BY <1>1, <1>4, <2>2
  <2>4. at[m] \in DOMAIN q /\ ahead(q, at[m]) = k + m - 1
    BY <2>3
  <2> HIDE DEF at
  <2> QED BY <1>1, <1>4, <2>4
<1>7. sortedSlice(q, k, n) = [m \in 1..n |-> q[at[m]]]
  BY DEF sortedSlice
<1>8. DOMAIN at = 1..n /\ at = [m \in 1..n |-> at[m]]
  OBVIOUS
<1> HIDE DEF at
<1>9. at \in [1..n -> DOMAIN q]
  BY <1>1, <1>6, <1>8
<1>10. ASSUME NEW l \in 1..n, NEW m \in 1..n, l < m PROVE goesBefore(q, at[l], at[m])
  <2>1. rank[at[l]] < rank[at[m]]
    BY <1>6, <1>10
  <2> QED BY <1>5, <1>6, <2>1
<1>11. ASSUME NEW i \in DOMAIN q
       PROVE  \/ \E m \in 1..n : at[m] = i
              \/ \A m \in 1..n : goesBefore(q, i, at[m])
  <2>1. i \in 1..N /\ rank[i] \in 0..(N - 1)
    BY <1>1, <1>3 DEF ranks
  <2>2. CASE rank[i] < k
    <3> SUFFICES ASSUME NEW m \in 1..n PROVE goesBefore(q, i, at[m])
      OBVIOUS
    <3>1. rank[i] < rank[at[m]]
      BY <1>6, <2>1, <2>2
    <3> QED BY <1>5, <1>6, <2>1, <3>1
  <2>3. CASE ~ rank[i] < k
    <3> DEFINE m == rank[i] - k + 1
    <3>1. m \in 1..n /\ k + m - 1 = rank[i]
      BY <1>1, <2>1, <2>3
    <3> HIDE DEF m
    <3>2. at[m] \in 1..N /\ rank[at[m]] = rank[i]
      BY <1>6, <3>1
    <3>3. at[m] = i
      <4>1. ~ goesBefore(q, i, at[m]) /\ ~ goesBefore(q, at[m], i)
        BY <1>5, <2>1, <3>2
      <4> QED BY <1>1, <2>1, <3>2, <4>1, GoesBeforeOrders
    <3> QED BY <3>1, <3>3
  <2> QED BY <2>2, <2>3
<1> QED BY <1>7, <1>9, <1>10, <1>11

-----------------------------------------------------------------------------
(* What the hooks do to a queue                                            *)

\* The queue of ActiveItemsAreDistinct and OldestPendingFirst, at a time; an
\* expired item is older than that time, so that id and age name one item.
Good(q, t) ==
    /\ q \in Queue
    /\ \A i \in DOMAIN q : /\ q[i].createdAt <= t
                           /\ q[i].status = "expired" => q[i].createdAt < t
    /\ \A i, j \in DOMAIN q :
          (q[i].id = q[j].id /\ isActive(q[i]) /\ isActive(q[j])) => i = j
    /\ \A i, j \in DOMAIN q :
          (i < j /\ isPending(q[i]) /\ isPending(q[j])) => q[i].createdAt <= q[j].createdAt
    /\ \A i, j \in DOMAIN q :
          (q[i].id = q[j].id /\ q[i].createdAt = q[j].createdAt) => i = j

\* The places of a queue, and what stands there.
LEMMA QueuePlaces ==
    ASSUME NEW q \in Queue
    PROVE  /\ Len(q) \in Nat /\ DOMAIN q = 1..Len(q)
           /\ \A i \in DOMAIN q :
                 /\ q[i] \in Item /\ q[i].id \in Ids
                 /\ q[i].createdAt \in Nat /\ q[i].status \in Statuses
<1>1. Len(q) \in Nat /\ DOMAIN q = 1..Len(q) /\ \A i \in 1..Len(q) : q[i] \in Item
  BY DEF Queue
<1> QED BY <1>1 DEF Item

\* An empty queue is good.
LEMMA EmptyGood == \A t : Good(<<>>, t)
BY DEF Good, Queue

\* Time passes.
LEMMA GoodLasts ==
    ASSUME NEW t \in Nat, NEW u \in Nat, t <= u, NEW q, Good(q, t)
    PROVE  Good(q, u)
<1>1. \A i \in DOMAIN q : /\ q[i].createdAt \in Nat /\ q[i].createdAt <= t
                          /\ q[i].status = "expired" => q[i].createdAt < t
  BY QueuePlaces DEF Good
<1>2. \A i \in DOMAIN q : /\ q[i].createdAt <= u
                          /\ q[i].status = "expired" => q[i].createdAt < u
  BY <1>1
<1> QED BY <1>2 DEF Good

\* Items that change their status, none to pending or active again.
LEMMA StatusGood ==
    ASSUME NEW t \in Nat, NEW q, Good(q, t), NEW w \in Queue, DOMAIN w = DOMAIN q,
           \A i \in DOMAIN q : /\ w[i].id = q[i].id /\ w[i].createdAt = q[i].createdAt
                               /\ isActive(w[i]) => isActive(q[i])
                               /\ isPending(w[i]) => isPending(q[i])
                               /\ w[i].status = "expired" => w[i].createdAt < t
    PROVE  Good(w, t)
BY DEF Good

\* Expiry changes nothing but the status.
LEMMA ScavengeIs ==
    ASSUME NEW t, NEW q \in Queue
    PROVE  /\ scavengeExpired(q, t) \in Queue
           /\ DOMAIN scavengeExpired(q, t) = DOMAIN q
           /\ Len(scavengeExpired(q, t)) = Len(q)
           /\ \A i \in DOMAIN q :
                 /\ scavengeExpired(q, t)[i].id = q[i].id
                 /\ scavengeExpired(q, t)[i].createdAt = q[i].createdAt
                 /\ \/ scavengeExpired(q, t)[i] = q[i]
                    \/ /\ scavengeExpired(q, t)[i].status = "expired" /\ isActive(q[i])
                       /\ q[i].createdAt + QueueTTL < t
<1> DEFINE w == scavengeExpired(q, t)
<1>1. Len(q) \in Nat /\ DOMAIN q = 1..Len(q) /\ \A i \in 1..Len(q) : q[i] \in Item
  BY QueuePlaces
<1>2. /\ DOMAIN w = DOMAIN q /\ w = [i \in DOMAIN q |-> w[i]]
      /\ \A i \in DOMAIN q : w[i] = IF isActive(q[i]) /\ q[i].createdAt + QueueTTL < t
                                    THEN [q[i] EXCEPT !.status = "expired"] ELSE q[i]
  BY DEF scavengeExpired
<1> HIDE DEF w
<1>3. \A i \in DOMAIN q :
         /\ [q[i] EXCEPT !.status = "expired"] \in Item
         /\ [q[i] EXCEPT !.status = "expired"].id = q[i].id
         /\ [q[i] EXCEPT !.status = "expired"].createdAt = q[i].createdAt
         /\ [q[i] EXCEPT !.status = "expired"].status = "expired"
  BY <1>1 DEF Item, Statuses
<1>4. \A i \in 1..Len(q) : w[i] \in Item
  BY <1>1, <1>2, <1>3
<1>5. w \in Queue /\ Len(w) = Len(q)
  BY <1>1, <1>2, <1>4 DEF Queue
<1> QED BY <1>1, <1>2, <1>3, <1>5 DEF w

\* Expiry keeps a queue good.
LEMMA ScavengeGood ==
    ASSUME NEW t \in Nat, NEW q, Good(q, t)
    PROVE  Good(scavengeExpired(q, t), t)
<1> DEFINE w == scavengeExpired(q, t)
<1>1. q \in Queue
  BY DEF Good
<1>2. /\ w \in Queue /\ DOMAIN w = DOMAIN q
      /\ \A i \in DOMAIN q :
            /\ w[i].id = q[i].id /\ w[i].createdAt = q[i].createdAt
            /\ \/ w[i] = q[i]
               \/ w[i].status = "expired" /\ q[i].createdAt + QueueTTL < t
  BY <1>1, ScavengeIs
<1> HIDE DEF w
<1>3. ASSUME NEW i \in DOMAIN q, w[i].status = "expired" PROVE w[i].createdAt < t
  <2>1. q[i].createdAt \in Nat /\ QueueTTL \in Nat
    BY <1>1, QueuePlaces, AdvisorAssumption
  <2>2. CASE w[i] = q[i]
    BY <1>3, <2>2 DEF Good
  <2>3. CASE q[i].createdAt + QueueTTL < t
    <3>1. q[i].createdAt < t
      BY <2>1, <2>3
    <3> QED BY <1>2, <3>1
  <2> QED BY <1>2, <2>2, <2>3
<1>4. \A i \in DOMAIN q : (isActive(w[i]) => isActive(q[i])) /\ (isPending(w[i]) => isPending(q[i]))
  BY <1>2 DEF isActive, isPending
<1>5. Good(w, t)
  BY <1>2, <1>3, <1>4, StatusGood
<1> QED BY <1>5 DEF w

\* enqueue adds a pending item at the end, unless one with the id is active.
LEMMA EnqueueIs ==
    ASSUME NEW t \in Nat, NEW q, Good(q, t), NEW id \in Ids
    PROVE  /\ Good(enqueue(q, id, t), t)
           /\ \A i \in DOMAIN q : i \in DOMAIN enqueue(q, id, t) /\ enqueue(q, id, t)[i] = q[i]
           /\ \/ /\ enqueue(q, id, t) = q
                 /\ \E i \in DOMAIN q : q[i].id = id /\ isActive(q[i])
              \/ /\ Len(enqueue(q, id, t)) = Len(q) + 1
                 /\ enqueue(q, id, t)[Len(q) + 1]
                       = [id |-> id, createdAt |-> t, status |-> "pending"]
                 /\ \A i \in DOMAIN q : ~ (q[i].id = id /\ isActive(q[i]))
<1> DEFINE e == [id |-> id, createdAt |-> t, status |-> "pending"]
           w == Append(q, e)
<1>1. /\ q \in Queue /\ Len(q) \in Nat /\ DOMAIN q = 1..Len(q)
      /\ \A i \in DOMAIN q : q[i].createdAt \in Nat
  BY QueuePlaces DEF Good
<1>2. CASE \E i \in DOMAIN q : q[i].id = id /\ isActive(q[i])
  <2>1. enqueue(q, id, t) = q
    BY <1>2 DEF enqueue
  <2> QED BY <1>2, <2>1
<1>3. CASE ~ \E i \in DOMAIN q : q[i].id = id /\ isActive(q[i])
  <2>1. enqueue(q, id, t) = w
    BY <1>3 DEF enqueue
  <2>2. e \in Item /\ e.id = id /\ e.createdAt = t /\ e.status = "pending"
    BY DEF Item, Statuses
  <2> HIDE DEF e
  <2>3. /\ w \in Queue /\ Len(w) = Len(q) + 1
        /\ \A i \in 1..Len(q) : w[i] = q[i]
        /\ w[Len(q) + 1] = e
    BY <1>1, <2>2, AppendProperties DEF Queue
  <2> HIDE DEF w
  <2>4. DOMAIN w = 1..(Len(q) + 1)
    BY <2>3 DEF Queue
  <2>5. ASSUME NEW i \in DOMAIN w
        PROVE  \/ i \in 1..Len(q) /\ w[i] = q[i]
               \/ i = Len(q) + 1 /\ w[i] = e
    BY <1>1, <2>3, <2>4
  <2>6. \A i \in DOMAIN w : /\ w[i].createdAt <= t
                            /\ w[i].status = "expired" => w[i].createdAt < t
    BY <1>1, <2>2, <2>5 DEF Good
  <2>7. ASSUME NEW i \in DOMAIN w, NEW j \in DOMAIN w,
               w[i].id = w[j].id, isActive(w[i]), isActive(w[j])
        PROVE  i = j
    BY <1>1, <1>3, <2>2, <2>5, <2>7 DEF Good
  <2>8. ASSUME NEW i \in DOMAIN w, NEW j \in DOMAIN w,
               i < j, isPending(w[i]), isPending(w[j])
        PROVE  w[i].createdAt <= w[j].createdAt
    <3>1. i \in 1..Len(q) /\ w[i] = q[i]
      BY <1>1, <2>4, <2>5, <2>8
    <3>2. CASE j \in 1..Len(q) /\ w[j] = q[j]
      BY <1>1, <2>8, <3>1, <3>2 DEF Good
    <3>3. CASE j = Len(q) + 1 /\ w[j] = e
      BY <2>2, <2>6, <3>3
    <3> QED BY <2>5, <3>2, <3>3
  <2>9. ASSUME NEW i \in DOMAIN w, NEW j \in DOMAIN w,
               w[i].id = w[j].id, w[i].createdAt = w[j].createdAt
        PROVE  i = j
    <3>1. ASSUME NEW m \in DOMAIN q, q[m].id = id, q[m].createdAt = t PROVE FALSE
      <4>1. q[m].status = "expired"
        BY <1>1, <1>3, <3>1, QueuePlaces DEF isActive, Statuses
      <4> QED BY <1>1, <3>1, <4>1 DEF Good
    <3>2. CASE i = Len(q) + 1 /\ w[i] = e
      BY <1>1, <2>2, <2>5, <2>9, <3>1, <3>2
    <3>3. CASE j = Len(q) + 1 /\ w[j] = e
      BY <1>1, <2>2, <2>5, <2>9, <3>1, <3>3
    <3>4. CASE i \in 1..Len(q) /\ w[i] = q[i] /\ j \in 1..Len(q) /\ w[j] = q[j]
      BY <1>1, <2>9, <3>4 DEF Good
    <3> QED BY <2>5, <3>2, <3>3, <3>4
  <2>10. Good(w, t)
    BY <2>3, <2>6, <2>7, <2>8, <2>9 DEF Good
  <2>11. \A i \in DOMAIN q : i \in DOMAIN w /\ w[i] = q[i]
    BY <1>1, <2>3, <2>4
  <2> QED BY <1>3, <2>1, <2>3, <2>10, <2>11 DEF e
<1> QED BY <1>2, <1>3

\* The cap keeps a queue within its length and good, and keeps a place only if
\* everything it drops goes before it.
LEMMA CapIs ==
    ASSUME NEW t \in Nat, NEW q, Good(q, t)
    PROVE  /\ Good(enforceCap(q), t)
           /\ Len(enforceCap(q)) <= MaxQueueItems
           /\ enforceCap(q) = q \/ Len(enforceCap(q)) = MaxQueueItems
           /\ ToSet(enforceCap(q)) \subseteq ToSet(q)
           /\ \A i \in DOMAIN q : \/ q[i] \in ToSet(enforceCap(q))
                                  \/ \A k \in ToSet(enforceCap(q)) :
                                        \E j \in DOMAIN q : k = q[j] /\ goesBefore(q, i, j)
<1> DEFINE w == enforceCap(q)
           N == Len(q)
           M == MaxQueueItems
<1>1. /\ q \in Queue /\ N \in Nat /\ DOMAIN q = 1..N /\ M \in Nat
      /\ \A i \in DOMAIN q : q[i] \in Item
  BY QueuePlaces, AdvisorAssumption DEF Good
<1>2. CASE N <= M
  <2>1. w = q
    BY <1>2 DEF enforceCap
  <2>2. \A i \in DOMAIN q : q[i] \in ToSet(w)
    BY <1>1, <2>1 DEF ToSet
  <2> QED BY <1>2, <2>1, <2>2
<1>3. CASE ~ N <= M
  <2>1. w = sortedSlice(q, N - M, M)
    BY <1>3 DEF enforceCap
  <2>2. N - M \in Nat /\ (N - M) + M = Len(q)
    BY <1>1, <1>3
  <2>3. PICK at \in [1..M -> DOMAIN q] :
           /\ w = [m \in 1..M |-> q[at[m]]]
           /\ \A l, m \in 1..M : l < m => goesBefore(q, at[l], at[m])
           /\ \A i \in DOMAIN q : \/ \E m \in 1..M : at[m] = i
                                  \/ \A m \in 1..M : goesBefore(q, i, at[m])
    <3> HIDE DEF N, M, w
    <3> QED BY <1>1, <2>1, <2>2, SliceIs
  <2> HIDE DEF w
  <2>4. /\ DOMAIN w = 1..M
        /\ \A m \in 1..M : at[m] \in DOMAIN q /\ w[m] = q[at[m]] /\ w[m] \in Item
    BY <1>1, <2>3
  <2>5. w \in Queue /\ Len(w) = M
    <3>1. w \in [1..M -> Item]
      BY <2>3, <2>4
    <3> QED BY <1>1, <3>1 DEF Queue
  <2>6. \A m \in DOMAIN w : /\ w[m].createdAt <= t
                            /\ w[m].status = "expired" => w[m].createdAt < t
    BY <2>4 DEF Good
  <2>7. ASSUME NEW l \in 1..M, NEW m \in 1..M, at[l] = at[m] PROVE l = m
    <3>1. ~ l < m /\ ~ m < l
      BY <1>1, <2>3, <2>4, <2>7, GoesBeforeOrders
    <3> QED BY <1>1, <3>1
  <2>8. ASSUME NEW l \in DOMAIN w, NEW m \in DOMAIN w,
               w[l].id = w[m].id, isActive(w[l]), isActive(w[m])
        PROVE  l = m
    BY <2>4, <2>7, <2>8 DEF Good
  <2>9. ASSUME NEW l \in DOMAIN w, NEW m \in DOMAIN w,
               l < m, isPending(w[l]), isPending(w[m])
        PROVE  w[l].createdAt <= w[m].createdAt
    <3>1. /\ at[l] \in DOMAIN q /\ at[m] \in DOMAIN q
          /\ w[l] = q[at[l]] /\ w[m] = q[at[m]] /\ goesBefore(q, at[l], at[m])
      BY <2>3, <2>4, <2>9
    <3>2. /\ w[l].createdAt \in Nat /\ w[m].createdAt \in Nat
      BY <2>4, <2>9 DEF Item
    <3>3. \/ w[l].createdAt < w[m].createdAt
          \/ w[l].createdAt = w[m].createdAt
      <4>1. \/ ~ isPending(q[at[l]]) /\ isPending(q[at[m]])
            \/ q[at[l]].createdAt < q[at[m]].createdAt
            \/ q[at[l]].createdAt = q[at[m]].createdAt
        BY <1>1, <3>1, GoesBeforeIs
      <4>2. isPending(q[at[l]])
        BY <2>9, <3>1
      <4> QED BY <3>1, <4>1, <4>2
    <3> QED BY <3>2, <3>3
  <2>10. Good(w, t)
    <3>1. ASSUME NEW l \in DOMAIN w, NEW m \in DOMAIN w,
                 w[l].id = w[m].id, w[l].createdAt = w[m].createdAt
          PROVE  l = m
      BY <2>4, <2>7, <3>1 DEF Good
    <3> QED BY <2>5, <2>6, <2>8, <2>9, <3>1 DEF Good
  <2>11. ToSet(w) = {q[at[m]] : m \in 1..M}
    BY <2>4 DEF ToSet
  <2>12. ToSet(w) \subseteq ToSet(q)
    BY <1>1, <2>4, <2>11 DEF ToSet
  <2>13. ASSUME NEW i \in DOMAIN q
         PROVE  \/ q[i] \in ToSet(w)
                \/ \A k \in ToSet(w) : \E j \in DOMAIN q : k = q[j] /\ goesBefore(q, i, j)
    <3>1. CASE \E m \in 1..M : at[m] = i
      BY <2>11, <3>1
    <3>2. CASE \A m \in 1..M : goesBefore(q, i, at[m])
      BY <2>4, <2>11, <3>2
    <3> QED BY <2>3, <3>1, <3>2
  <2>14. M <= M
    BY <1>1
  <2> QED BY <2>5, <2>10, <2>12, <2>13, <2>14 DEF w
<1> QED BY <1>2, <1>3

\* promoteOldestPending marks one pending item.
LEMMA PromoteIs ==
    ASSUME NEW q \in Queue, oldestPending(q) # 0
    PROVE  LET i == oldestPending(q)
               w == promoteOldestPending(q)
           IN  /\ i \in DOMAIN q /\ isPending(q[i])
               /\ w \in Queue /\ DOMAIN w = DOMAIN q /\ Len(w) = Len(q)
               /\ \A j \in DOMAIN q : j # i => w[j] = q[j]
               /\ w[i].id = q[i].id /\ w[i].createdAt = q[i].createdAt
               /\ w[i].status = "surfaced"
<1> DEFINE i == oldestPending(q)
           w == promoteOldestPending(q)
           I == {j \in 1..Len(q) : isPending(q[j])}
<1>1. Len(q) \in Nat /\ DOMAIN q = 1..Len(q) /\ \A j \in DOMAIN q : q[j] \in Item
  BY QueuePlaces
<1>2. i = IF I # {} THEN Min(I) ELSE 0
  BY DEF oldestPending, SelectInSeq
<1>3. i \in I
  <2>1. I # {} /\ i = Min(I) /\ I \in SUBSET Nat
    BY <1>2
  <2> HIDE DEF I, i
  <2> QED BY <2>1, MinIsLeast
<1>4. i \in DOMAIN q /\ isPending(q[i])
  BY <1>1, <1>3
<1> DEFINE e == [q[i] EXCEPT !.status = "surfaced"]
<1>5. w = [q EXCEPT ![i] = e]
  BY DEF promoteOldestPending
<1> HIDE DEF i, w, I
<1>6. e \in Item /\ e.id = q[i].id /\ e.createdAt = q[i].createdAt /\ e.status = "surfaced"
  BY <1>1, <1>4 DEF Item, Statuses
<1> HIDE DEF e
<1>7. DOMAIN w = DOMAIN q /\ w[i] = e /\ \A j \in DOMAIN q : j # i => w[j] = q[j]
  BY <1>4, <1>5
<1>8. w \in Queue /\ Len(w) = Len(q)
  <2>1. w \in [1..Len(q) -> Item]
    <3>1. w = [j \in DOMAIN q |-> w[j]]
      BY <1>5
    <3> QED BY <1>1, <1>6, <1>7, <3>1
  <2> QED BY <1>1, <2>1 DEF Queue
<1> QED BY <1>4, <1>6, <1>7, <1>8 DEF i, w

\* So does marking an item.
LEMMA PromoteGood ==
    ASSUME NEW t \in Nat, NEW q, Good(q, t), oldestPending(q) # 0
    PROVE  Good(promoteOldestPending(q), t)
<1> DEFINE i == oldestPending(q)
           w == promoteOldestPending(q)
<1>1. /\ i \in DOMAIN q /\ isPending(q[i])
      /\ w \in Queue /\ DOMAIN w = DOMAIN q
      /\ \A j \in DOMAIN q : j # i => w[j] = q[j]
      /\ w[i].id = q[i].id /\ w[i].createdAt = q[i].createdAt
      /\ w[i].status = "surfaced"
  BY PromoteIs DEF Good
<1> HIDE DEF i, w
<1>2. \A j \in DOMAIN q : /\ w[j].id = q[j].id /\ w[j].createdAt = q[j].createdAt
                          /\ isActive(w[j]) => isActive(q[j])
                          /\ isPending(w[j]) => isPending(q[j])
                          /\ w[j].status = "expired" => w[j].createdAt < t
  BY <1>1 DEF isActive, isPending, Good
<1>3. Good(w, t)
  BY <1>1, <1>2, StatusGood
<1> QED BY <1>3 DEF w

-----------------------------------------------------------------------------
(* The invariant of the queues                                             *)

\* What a hook has to say, once it is about to say it.
Speaking(h) ==
    (\/ job[h].pc \in {"budget", "emptyBudget", "fillBudget", "remark"}
     \/ job[h].pc \in {"emptyQueue", "fillQueue"} /\ ~ job[h].post)
      => job[h].remark \in Remark

QInv ==
    /\ TypeOK
    /\ \A h \in Hooks : Speaking(h)
    /\ \A queue \in Queues : Good(queue, now) /\ Len(queue) <= MaxQueueItems

\* The types the steps need.
LEMMA QTypes ==
    ASSUME QInv
    PROVE  /\ now \in Nat /\ MaxTime \in Nat /\ now <= MaxTime
           /\ readQueue \in Queue /\ readBudget \in Budget
           /\ Good(readQueue, now) /\ Len(readQueue) <= MaxQueueItems
           /\ \A h \in Hooks : /\ job[h] \in Job
                               /\ Good(job[h].queue, now)
                               /\ Len(job[h].queue) <= MaxQueueItems
<1>1. now \in Nat /\ MaxTime \in Nat /\ now <= MaxTime
  BY AdvisorAssumption DEF QInv, TypeOK
<1>2. readBudget \in Budget
  <2>1. NoBudget \in Budget
    BY DEF NoBudget, Budget
  <2> QED BY <2>1 DEF QInv, TypeOK, readBudget
<1>3. Good(readQueue, now) /\ Len(readQueue) <= MaxQueueItems
  BY DEF QInv, Queues
<1>4. \A h \in Hooks : Good(job[h].queue, now) /\ Len(job[h].queue) <= MaxQueueItems
  BY DEF QInv, Queues
<1>5. \A h \in Hooks : job[h] \in Job
  BY DEF QInv, TypeOK
<1> QED BY <1>1, <1>2, <1>3, <1>4, <1>5 DEF Good

\* A hook that does not run holds nothing.
LEMMA NoJobType == NoJob \in Job /\ NoJob.pc = "idle" /\ NoJob.queue = <<>> /\ ~ NoJob.post
<1>1. <<>> \in Queue /\ NoBudget \in Budget
  BY DEF Queue, NoBudget, Budget
<1> QED BY <1>1 DEF NoJob, Job, PCs

\* The first state.
LEMMA InitQInv == ASSUME Init PROVE QInv
<1>1. /\ queueFile = <<>> /\ now = 0 /\ budgetFile = NoBudget
      /\ job = [h \in Hooks |-> NoJob] /\ shown = <<>> /\ cut = {}
      /\ count = [starts |-> 0, crashes |-> 0, raced |-> FALSE]
  BY DEF Init
<1>2. NoBudget \in Budget
  BY DEF NoBudget, Budget
<1>3. TypeOK
  <2>1. /\ queueFile \in Queue /\ budgetFile \in Budget /\ now \in 0..MaxTime
        /\ job \in [Hooks -> Job] /\ shown \in Seq(Remark)
    BY <1>1, <1>2, NoJobType, AdvisorAssumption DEF Queue
  <2>2. count \in [starts : 0..MaxStarts, crashes : 0..MaxCrashes, raced : BOOLEAN]
    BY <1>1, AdvisorAssumption
  <2> QED BY <1>1, <2>1, <2>2 DEF TypeOK
<1>4. \A h \in Hooks : job[h].pc = "idle" /\ job[h].queue = <<>>
  BY <1>1, NoJobType
<1>5. readQueue = <<>>
  BY <1>1 DEF readQueue
<1>6. \A queue \in Queues : queue = <<>>
  BY <1>4, <1>5 DEF Queues
<1>7. Good(<<>>, now) /\ Len(<<>>) <= MaxQueueItems
  BY EmptyGood, AdvisorAssumption
<1> QED BY <1>3, <1>4, <1>6, <1>7 DEF QInv, Speaking

\* A step of one hook, seen from its job and the two files.
LEMMA StepQInv ==
    ASSUME QInv, NEW h \in Hooks, NEW new \in Job, job' = [job EXCEPT ![h] = new],
           Good(new.queue, now), Len(new.queue) <= MaxQueueItems,
           (\/ new.pc \in {"budget", "emptyBudget", "fillBudget", "remark"}
            \/ new.pc \in {"emptyQueue", "fillQueue"} /\ ~ new.post)
              => new.remark \in Remark,
           now' = now,
           queueFile' \in {queueFile, Torn, job[h].queue},
           budgetFile' \in Budget \cup {Torn},
           shown' \in Seq(Remark),
           \A c \in cut' : c \in [id : Ids, createdAt : 0..MaxTime],
           count' \in [starts : 0..MaxStarts, crashes : 0..MaxCrashes, raced : BOOLEAN]
    PROVE  QInv'
<1>1. job \in [Hooks -> Job] /\ queueFile \in Queue \cup {Torn} /\ now \in 0..MaxTime
  BY DEF QInv, TypeOK
<1>2. job'[h] = new /\ \A g \in Hooks : g # h => job'[g] = job[g]
  BY <1>1
<1>3. job[h].queue \in Queue
  BY QTypes DEF Job
<1>4. TypeOK'
  <2>1. queueFile' \in Queue \cup {Torn}
    BY <1>1, <1>3
  <2>2. job' \in [Hooks -> Job]
    BY <1>1
  <2> QED BY <1>1, <2>1, <2>2 DEF TypeOK
<1>5. \A g \in Hooks : Speaking(g)'
  BY <1>2 DEF QInv, Speaking
<1>6. \A g \in Hooks : Good(job'[g].queue, now) /\ Len(job'[g].queue) <= MaxQueueItems
  BY <1>2, QTypes
<1>7. Good(readQueue', now) /\ Len(readQueue') <= MaxQueueItems
  <2>1. CASE queueFile' = queueFile
    BY <2>1, QTypes DEF readQueue
  <2>2. CASE queueFile' = Torn
    BY <2>2, EmptyGood, AdvisorAssumption DEF readQueue
  <2>3. CASE queueFile' = job[h].queue
    <3>1. readQueue' = job[h].queue
      BY <1>3, <2>3, TornAssumption DEF readQueue
    <3> QED BY <3>1, QTypes
  <2> QED BY <2>1, <2>2, <2>3
<1>8. \A queue \in Queues' : Good(queue, now') /\ Len(queue) <= MaxQueueItems
  BY <1>6, <1>7 DEF Queues
<1> QED BY <1>4, <1>5, <1>8 DEF QInv

\* The queue the post-action hook caps.
addedTo(q, first, second) == enqueue(enqueue(q, first, now), second, now)

\* Two items added or not: the old ones stay where they are, and the last one
\* is new if there is one.
LEMMA AddedIs ==
    ASSUME NEW q, Good(q, now), now \in Nat, NEW first \in Ids, NEW second \in Ids
    PROVE  LET w == addedTo(q, first, second)
           IN  /\ Good(w, now)
               /\ \A i \in DOMAIN q : i \in DOMAIN w /\ w[i] = q[i]
               /\ \/ Len(w) = Len(q)
                  \/ /\ Len(w) > Len(q) /\ Len(w) \in DOMAIN w
                     /\ isPending(w[Len(w)]) /\ w[Len(w)].createdAt = now
<1> DEFINE v == enqueue(q, first, now)
           w == enqueue(v, second, now)
<1>1. /\ Good(v, now)
      /\ \A i \in DOMAIN q : i \in DOMAIN v /\ v[i] = q[i]
      /\ \/ v = q
         \/ /\ Len(v) = Len(q) + 1
            /\ v[Len(q) + 1] = [id |-> first, createdAt |-> now, status |-> "pending"]
  BY EnqueueIs
<1> HIDE DEF v
<1>2. /\ Good(w, now)
      /\ \A i \in DOMAIN v : i \in DOMAIN w /\ w[i] = v[i]
      /\ \/ w = v
         \/ /\ Len(w) = Len(v) + 1
            /\ w[Len(v) + 1] = [id |-> second, createdAt |-> now, status |-> "pending"]
  BY <1>1, EnqueueIs
<1> HIDE DEF w
<1>3. /\ Len(q) \in Nat /\ DOMAIN q = 1..Len(q) /\ Len(v) \in Nat /\ DOMAIN v = 1..Len(v)
      /\ Len(w) \in Nat /\ DOMAIN w = 1..Len(w)
  BY <1>1, <1>2, QueuePlaces DEF Good
<1>4. \A i \in DOMAIN q : i \in DOMAIN w /\ w[i] = q[i]
  BY <1>1, <1>2
<1>5. CASE w = v
  <2>1. CASE v = q
    BY <1>2, <1>4, <1>5, <2>1 DEF addedTo, v, w
  <2>2. CASE Len(v) = Len(q) + 1 /\ v[Len(q) + 1] = [id |-> first, createdAt |-> now, status |-> "pending"]
    <3>1. /\ Len(w) > Len(q) /\ Len(w) \in DOMAIN w
          /\ isPending(w[Len(w)]) /\ w[Len(w)].createdAt = now
      BY <1>3, <1>5, <2>2 DEF isPending
    <3> QED BY <1>2, <1>4, <3>1 DEF addedTo, v, w
  <2> QED BY <1>1, <2>1, <2>2
<1>6. CASE Len(w) = Len(v) + 1 /\ w[Len(v) + 1] = [id |-> second, createdAt |-> now, status |-> "pending"]
  <2>1. Len(v) >= Len(q)
    <3>1. CASE v = q
      BY <1>3, <3>1
    <3>2. CASE Len(v) = Len(q) + 1
      <4>1. Len(q) + 1 >= Len(q)
        BY <1>3
      <4> QED BY <3>2, <4>1
    <3> QED BY <1>1, <3>1, <3>2
  <2>2. /\ Len(w) > Len(q) /\ Len(w) \in DOMAIN w
        /\ isPending(w[Len(w)]) /\ w[Len(w)].createdAt = now
    BY <1>3, <1>6, <2>1 DEF isPending
  <2> QED BY <1>2, <1>4, <2>2 DEF addedTo, v, w
<1> QED BY <1>2, <1>5, <1>6

\* The clause of Begin.
LEMMA BeginCounts ==
    ASSUME QInv, NEW h \in Hooks, Begin(h)
    PROVE  count' \in [starts : 0..MaxStarts, crashes : 0..MaxCrashes, raced : BOOLEAN]
<1>1. /\ count \in [starts : 0..MaxStarts, crashes : 0..MaxCrashes, raced : BOOLEAN]
      /\ MaxStarts \in Nat
  BY AdvisorAssumption DEF QInv, TypeOK
<1>2. count.starts + 1 \in 0..MaxStarts
  BY <1>1 DEF Begin
<1>3. (count.raced \/ \E o \in Hooks : Running(o)) \in BOOLEAN
  OBVIOUS
<1> QED BY <1>1, <1>2, <1>3 DEF Begin

\* The post-action hook that has read, added and kept.
postJob(read, w) ==
    IF Len(w) = Len(read) THEN NoJob
    ELSE [NoJob EXCEPT !.pc = "emptyQueue", !.post = TRUE, !.queue = enforceCap(w)]
goneFrom(w) ==
    {[id |-> i.id, createdAt |-> i.createdAt] : i \in ToSet(w) \ ToSet(enforceCap(w))}
posts(h, read, w) ==
    /\ job' = [job EXCEPT ![h] = postJob(read, w)]
    /\ cut' = cut \cup goneFrom(w)

\* PostAction in these terms.
LEMMA PostActionIs ==
    ASSUME QInv, NEW h \in Hooks, PostAction(h)
    PROVE  \E first, second \in Ids :
              posts(h, scavengeExpired(readQueue, now),
                    addedTo(scavengeExpired(readQueue, now), first, second))
BY DEF PostAction, posts, postJob, goneFrom, addedTo

\* What the post-action hook goes on with.
LEMMA PostJobIs ==
    ASSUME now \in Nat, NEW read, NEW w, Good(w, now)
    PROVE  /\ postJob(read, w) \in Job
           /\ Good(postJob(read, w).queue, now)
           /\ Len(postJob(read, w).queue) <= MaxQueueItems
           /\ Len(w) = Len(read) => postJob(read, w) = NoJob
           /\ Len(w) # Len(read) =>
                 /\ postJob(read, w).pc = "emptyQueue" /\ postJob(read, w).post
                 /\ postJob(read, w).queue = enforceCap(w)
<1> DEFINE kept == enforceCap(w)
<1>1. Good(kept, now) /\ Len(kept) <= MaxQueueItems
  BY CapIs
<1> HIDE DEF kept
<1>2. CASE Len(w) = Len(read)
  <2>1. postJob(read, w) = NoJob
    BY <1>2 DEF postJob
  <2>2. Good(<<>>, now) /\ Len(<<>>) <= MaxQueueItems
    BY EmptyGood, AdvisorAssumption
  <2> QED BY <1>2, <2>1, <2>2, NoJobType
<1>3. CASE Len(w) # Len(read)
  <2> DEFINE b == [NoJob EXCEPT !.pc = "emptyQueue", !.post = TRUE, !.queue = kept]
  <2>1. postJob(read, w) = b
    BY <1>3 DEF postJob, kept
  <2>2. b \in Job /\ b.pc = "emptyQueue" /\ b.post /\ b.queue = kept
    BY <1>1, NoJobType DEF Good, Job, PCs
  <2> HIDE DEF b
  <2> QED BY <1>1, <1>3, <2>1, <2>2 DEF kept
<1> QED BY <1>2, <1>3

\* What the post-action hook drops are items of the queue.
LEMMA GoneIs ==
    ASSUME NEW t \in Nat, NEW w, Good(w, t), NEW c \in goneFrom(w)
    PROVE  \E i \in DOMAIN w : /\ c = [id |-> w[i].id, createdAt |-> w[i].createdAt]
                               /\ w[i] \notin ToSet(enforceCap(w))
<1>1. DOMAIN w = 1..Len(w)
  BY QueuePlaces DEF Good
<1> QED BY <1>1 DEF goneFrom, ToSet

\* Now every action keeps QInv, one lemma each.
LEMMA PostActionQInv ==
    ASSUME QInv, NEW h \in Hooks, PostAction(h)
    PROVE  QInv'
<1> DEFINE read == scavengeExpired(readQueue, now)
<1>1. PICK first \in Ids, second \in Ids : posts(h, read, addedTo(read, first, second))
  BY PostActionIs
<1> DEFINE w == addedTo(read, first, second)
           new == postJob(read, w)
<1>2. now \in Nat /\ Good(readQueue, now)
  BY QTypes
<1>3. Good(read, now)
  BY <1>2, ScavengeGood
<1>4. posts(h, read, w)
  BY <1>1
<1> HIDE DEF read
<1>5. Good(w, now)
  BY <1>2, <1>3, AddedIs
<1> HIDE DEF w
<1>6. /\ new \in Job /\ Good(new.queue, now) /\ Len(new.queue) <= MaxQueueItems
      /\ new.pc = "idle" \/ (new.pc = "emptyQueue" /\ new.post)
  BY <1>2, <1>5, PostJobIs, NoJobType
<1>7. job' = [job EXCEPT ![h] = new] /\ cut' = cut \cup goneFrom(w)
  BY <1>4 DEF posts
<1> HIDE DEF new
<1>8. ASSUME NEW c \in cut' PROVE c \in [id : Ids, createdAt : 0..MaxTime]
  <2>1. CASE c \in cut
    BY <2>1 DEF QInv, TypeOK
  <2>2. CASE c \in goneFrom(w)
    <3>1. PICK i \in DOMAIN w : c = [id |-> w[i].id, createdAt |-> w[i].createdAt]
      BY <1>2, <1>5, <2>2, GoneIs
    <3>2. w[i].id \in Ids /\ w[i].createdAt \in Nat /\ w[i].createdAt <= now
      BY <1>5, QueuePlaces DEF Good
    <3>3. w[i].createdAt \in 0..MaxTime
      BY <3>2, QTypes
    <3> QED BY <3>1, <3>2, <3>3
  <2> QED BY <1>7, <2>1, <2>2
<1>9. count' \in [starts : 0..MaxStarts, crashes : 0..MaxCrashes, raced : BOOLEAN]
  BY BeginCounts DEF PostAction
<1>10. /\ now' = now /\ shown' = shown /\ queueFile' = queueFile /\ budgetFile' = budgetFile
  BY DEF PostAction, files
<1>11. shown' \in Seq(Remark) /\ budgetFile' \in Budget \cup {Torn}
  BY <1>10 DEF QInv, TypeOK
<1> QED BY <1>6, <1>7, <1>8, <1>9, <1>10, <1>11, StepQInv

\* The ambient hook takes the oldest pending item, or looks at the prompt.
promptJob == [NoJob EXCEPT !.pc = "classify"]
itemJob(q) ==
    [NoJob EXCEPT !.pc = "emptyQueue", !.queue = promoteOldestPending(q),
                  !.remark = [kind |-> "item", id |-> q[oldestPending(q)].id,
                             at |-> q[oldestPending(q)].createdAt]]

\* Ambient in these terms.
LEMMA AmbientIs ==
    ASSUME NEW h \in Hooks, Ambient(h)
    PROVE  job' = [job EXCEPT ![h] =
              IF oldestPending(readQueue) = 0 THEN promptJob ELSE itemJob(readQueue)]
BY DEF Ambient, promptJob, itemJob

\* The ambient hook without an item,
LEMMA PromptJobIs ==
    /\ promptJob \in Job /\ promptJob.pc = "classify"
    /\ promptJob.queue = <<>> /\ ~ promptJob.post /\ promptJob.remark = NoRemark
BY NoJobType DEF promptJob, Job, PCs, NoJob

\* and with one.
LEMMA ItemJobIs ==
    ASSUME NEW q \in Queue, oldestPending(q) # 0
    PROVE  /\ itemJob(q) \in Job /\ itemJob(q).pc = "emptyQueue"
           /\ ~ itemJob(q).post /\ itemJob(q).queue = promoteOldestPending(q)
           /\ itemJob(q).remark = [kind |-> "item", id |-> q[oldestPending(q)].id,
                                   at |-> q[oldestPending(q)].createdAt]
           /\ itemJob(q).remark \in Remark
<1> DEFINE i == oldestPending(q)
           w == promoteOldestPending(q)
           r == [kind |-> "item", id |-> q[i].id, at |-> q[i].createdAt]
<1>1. i \in DOMAIN q /\ w \in Queue
  BY PromoteIs
<1>2. r \in Remark
  BY <1>1, QueuePlaces DEF Remark
<1>3. itemJob(q) = [NoJob EXCEPT !.pc = "emptyQueue", !.queue = w, !.remark = r]
  BY DEF itemJob
<1> HIDE DEF w, r
<1>4. /\ itemJob(q) \in Job /\ itemJob(q).pc = "emptyQueue"
      /\ ~ itemJob(q).post /\ itemJob(q).queue = w /\ itemJob(q).remark = r
  BY <1>1, <1>2, <1>3, NoJobType DEF Job, PCs
<1> QED BY <1>2, <1>4 DEF w, r

LEMMA AmbientQInv ==
    ASSUME QInv, NEW h \in Hooks, Ambient(h)
    PROVE  QInv'
<1> DEFINE new == IF oldestPending(readQueue) = 0 THEN promptJob ELSE itemJob(readQueue)
<1>1. job' = [job EXCEPT ![h] = new]
  BY AmbientIs
<1>2. now \in Nat /\ Good(readQueue, now) /\ readQueue \in Queue /\ Len(readQueue) <= MaxQueueItems
  BY QTypes
<1>3. /\ new \in Job /\ Good(new.queue, now) /\ Len(new.queue) <= MaxQueueItems
      /\ \/ new.pc = "classify"
         \/ new.pc = "emptyQueue" /\ new.remark \in Remark
  <2>1. CASE oldestPending(readQueue) = 0
    <3>1. new = promptJob
      BY <2>1
    <3>2. Good(<<>>, now) /\ Len(<<>>) <= MaxQueueItems
      BY EmptyGood, AdvisorAssumption
    <3> HIDE DEF new
    <3> QED BY <3>1, <3>2, PromptJobIs
  <2>2. CASE oldestPending(readQueue) # 0
    <3>1. new = itemJob(readQueue)
      BY <2>2
    <3>2. /\ Good(promoteOldestPending(readQueue), now)
          /\ Len(promoteOldestPending(readQueue)) <= MaxQueueItems
      BY <1>2, <2>2, PromoteGood, PromoteIs
    <3> HIDE DEF new
    <3> QED BY <1>2, <2>2, <3>1, <3>2, ItemJobIs
  <2> QED BY <2>1, <2>2
<1> HIDE DEF new
<1>4. count' \in [starts : 0..MaxStarts, crashes : 0..MaxCrashes, raced : BOOLEAN]
  BY BeginCounts DEF Ambient
<1>5. /\ now' = now /\ shown' = shown /\ queueFile' = queueFile /\ budgetFile' = budgetFile
      /\ cut' = cut
  BY DEF Ambient, files
<1>6. /\ shown' \in Seq(Remark) /\ budgetFile' \in Budget \cup {Torn}
      /\ \A c \in cut' : c \in [id : Ids, createdAt : 0..MaxTime]
  BY <1>5 DEF QInv, TypeOK
<1> QED BY <1>1, <1>3, <1>4, <1>5, <1>6, StepQInv

\* The job of a hook that goes on to another point.
LEMMA JobGoes ==
    ASSUME NEW j \in Job, NEW pc \in PCs
    PROVE  /\ [j EXCEPT !.pc = pc] \in Job /\ [j EXCEPT !.pc = pc].pc = pc
           /\ [j EXCEPT !.pc = pc].post = j.post /\ [j EXCEPT !.pc = pc].queue = j.queue
           /\ [j EXCEPT !.pc = pc].budget = j.budget /\ [j EXCEPT !.pc = pc].remark = j.remark
BY DEF Job

\* What no step of a hook but the printing touches.
LEMMA Rest ==
    ASSUME QInv
    PROVE  /\ shown \in Seq(Remark) /\ budgetFile \in Budget \cup {Torn}
           /\ \A c \in cut : c \in [id : Ids, createdAt : 0..MaxTime]
           /\ count \in [starts : 0..MaxStarts, crashes : 0..MaxCrashes, raced : BOOLEAN]
BY DEF QInv, TypeOK

LEMMA EmptyQueueFileQInv ==
    ASSUME QInv, NEW h \in Hooks, EmptyQueueFile(h)
    PROVE  QInv'
<1> DEFINE new == [job[h] EXCEPT !.pc = "fillQueue"]
<1>1. /\ job[h].pc = "emptyQueue" /\ job' = [job EXCEPT ![h] = new] /\ queueFile' = Torn
      /\ budgetFile' = budgetFile /\ now' = now /\ shown' = shown /\ cut' = cut /\ count' = count
  BY DEF EmptyQueueFile, Go
<1>2. /\ new \in Job /\ new.pc = "fillQueue" /\ new.post = job[h].post
      /\ new.queue = job[h].queue /\ new.remark = job[h].remark
  BY QTypes, JobGoes DEF PCs
<1> HIDE DEF new
<1>3. Speaking(h)
  BY DEF QInv
<1>4. ~ new.post => new.remark \in Remark
  BY <1>1, <1>2, <1>3 DEF Speaking
<1> QED BY <1>1, <1>2, <1>4, QTypes, Rest, StepQInv

LEMMA FillQueueFileQInv ==
    ASSUME QInv, NEW h \in Hooks, FillQueueFile(h)
    PROVE  QInv'
<1> DEFINE next == [job[h] EXCEPT !.pc = "budget", !.queue = <<>>]
           new == IF job[h].post THEN NoJob ELSE next
<1>1. /\ job[h].pc = "fillQueue" /\ job' = [job EXCEPT ![h] = new]
      /\ queueFile' = job[h].queue \/ queueFile' = Torn
      /\ budgetFile' = budgetFile /\ now' = now /\ shown' = shown /\ cut' = cut /\ count' = count
  BY DEF FillQueueFile, filled, Exit
<1>2. Good(<<>>, now) /\ Len(<<>>) <= MaxQueueItems
  BY EmptyGood, AdvisorAssumption
<1>3. Speaking(h) /\ job[h] \in Job
  BY QTypes DEF QInv
<1>4. /\ next \in Job /\ next.pc = "budget" /\ next.queue = <<>> /\ next.remark = job[h].remark
  BY <1>3, NoJobType DEF Job, PCs
<1> HIDE DEF next
<1>5. /\ new \in Job /\ new.queue = <<>>
      /\ new.pc = "idle" \/ (new.pc = "budget" /\ new.remark \in Remark)
  BY <1>1, <1>3, <1>4, NoJobType DEF Speaking
<1> HIDE DEF new
<1> QED BY <1>1, <1>2, <1>5, QTypes, Rest, StepQInv

\* One more item shown.
LEMMA OneMoreIs ==
    ASSUME NEW b \in Budget
    PROVE  /\ withOneMore(b) \in Budget
           /\ withOneMore(b).visibleCount = b.visibleCount + 1
           /\ withOneMore(b).lastSurfaced = b.lastSurfaced
BY DEF withOneMore, Budget

LEMMA CheckBudgetQInv ==
    ASSUME QInv, NEW h \in Hooks, CheckBudget(h)
    PROVE  QInv'
<1> DEFINE showing == [job[h] EXCEPT !.pc = "emptyBudget", !.budget = withOneMore(readBudget)]
           silent == [job[h] EXCEPT !.pc = "classify", !.remark = NoRemark]
           new == IF withinCap(readBudget) THEN showing ELSE silent
<1>1. /\ job[h].pc = "budget" /\ job' = [job EXCEPT ![h] = new]
      /\ queueFile' = queueFile /\ budgetFile' = budgetFile
      /\ now' = now /\ shown' = shown /\ cut' = cut /\ count' = count
  BY DEF CheckBudget, files
<1>2. Speaking(h) /\ job[h] \in Job /\ readBudget \in Budget
  BY QTypes DEF QInv
<1>3. withOneMore(readBudget) \in Budget
  BY <1>2, OneMoreIs
<1>4. /\ showing \in Job /\ showing.pc = "emptyBudget" /\ showing.queue = job[h].queue
      /\ showing.remark = job[h].remark
  BY <1>2, <1>3 DEF Job, PCs
<1>5. silent \in Job /\ silent.pc = "classify" /\ silent.queue = job[h].queue
  BY <1>2 DEF Job, PCs
<1> HIDE DEF showing, silent
<1>6. /\ new \in Job /\ new.queue = job[h].queue
      /\ new.pc = "classify" \/ (new.pc = "emptyBudget" /\ new.remark \in Remark)
  BY <1>1, <1>2, <1>4, <1>5 DEF Speaking
<1> HIDE DEF new
<1> QED BY <1>1, <1>6, QTypes, Rest, StepQInv

\* The budget with the prompt's key remembered.
promptBudget(b, key) == [withOneMore(b) EXCEPT !.lastSurfaced[key] = now]

\* It counts one more and changes one key.
LEMMA PromptBudgetIs ==
    ASSUME NEW b \in Budget, NEW key \in Keys, now \in Nat
    PROVE  /\ promptBudget(b, key) \in Budget
           /\ promptBudget(b, key).visibleCount = b.visibleCount + 1
           /\ promptBudget(b, key).lastSurfaced = [b.lastSurfaced EXCEPT ![key] = now]
BY OneMoreIs DEF promptBudget, Budget

saying(j, key, b) ==
    [j EXCEPT !.pc = "emptyBudget", !.budget = b,
              !.remark = [kind |-> "prompt", id |-> key, at |-> now]]

\* The job of a hook that will print a remark on the prompt.
LEMMA SayingIs ==
    ASSUME NEW j \in Job, NEW key \in Keys, NEW b \in Budget, now \in Nat
    PROVE  /\ saying(j, key, b) \in Job /\ saying(j, key, b).pc = "emptyBudget"
           /\ saying(j, key, b).queue = j.queue /\ saying(j, key, b).budget = b
           /\ saying(j, key, b).post = j.post
           /\ saying(j, key, b).remark = [kind |-> "prompt", id |-> key, at |-> now]
           /\ saying(j, key, b).remark \in Remark
<1> DEFINE r == [kind |-> "prompt", id |-> key, at |-> now]
<1>1. r \in Remark
  BY DEF Remark
<1>2. saying(j, key, b) = [j EXCEPT !.pc = "emptyBudget", !.budget = b, !.remark = r]
  BY DEF saying
<1> HIDE DEF r
<1>3. /\ saying(j, key, b) \in Job /\ saying(j, key, b).pc = "emptyBudget"
      /\ saying(j, key, b).queue = j.queue /\ saying(j, key, b).budget = b
      /\ saying(j, key, b).post = j.post /\ saying(j, key, b).remark = r
  BY <1>1, <1>2 DEF Job, PCs
<1> QED BY <1>1, <1>3 DEF r

\* ClassifyPrompt in these terms.
LEMMA ClassifyIs ==
    ASSUME NEW h \in Hooks, ClassifyPrompt(h)
    PROVE  \/ job' = [job EXCEPT ![h] = NoJob]
           \/ \E key \in Keys :
                 /\ shouldSurface(readBudget, key)
                 /\ job' = [job EXCEPT ![h] = saying(job[h], key, promptBudget(readBudget, key))]
BY DEF ClassifyPrompt, Exit, saying, promptBudget

LEMMA ClassifyPromptQInv ==
    ASSUME QInv, NEW h \in Hooks, ClassifyPrompt(h)
    PROVE  QInv'
<1>1. /\ queueFile' = queueFile /\ budgetFile' = budgetFile
      /\ now' = now /\ shown' = shown /\ cut' = cut /\ count' = count
  BY DEF ClassifyPrompt, files
<1>2. CASE job' = [job EXCEPT ![h] = NoJob]
  <2>1. Good(<<>>, now) /\ Len(<<>>) <= MaxQueueItems
    BY EmptyGood, AdvisorAssumption
  <2> QED BY <1>1, <1>2, <2>1, NoJobType, QTypes, Rest, StepQInv
<1>3. ASSUME NEW key \in Keys,
             job' = [job EXCEPT ![h] = saying(job[h], key, promptBudget(readBudget, key))]
      PROVE  QInv'
  <2> DEFINE b == promptBudget(readBudget, key)
             new == saying(job[h], key, b)
  <2>1. /\ new \in Job /\ new.pc = "emptyBudget" /\ new.queue = job[h].queue
        /\ new.remark \in Remark
    <3>1. now \in Nat /\ job[h] \in Job /\ readBudget \in Budget
      BY QTypes
    <3>2. b \in Budget
      BY <3>1, PromptBudgetIs
    <3> HIDE DEF b
    <3> QED BY <3>1, <3>2, SayingIs
  <2>2. job' = [job EXCEPT ![h] = new]
    BY <1>3
  <2> HIDE DEF new
  <2> QED BY <1>1, <2>1, <2>2, QTypes, Rest, StepQInv
<1> QED BY <1>2, <1>3, ClassifyIs

LEMMA EmptyBudgetFileQInv ==
    ASSUME QInv, NEW h \in Hooks, EmptyBudgetFile(h)
    PROVE  QInv'
<1> DEFINE new == [job[h] EXCEPT !.pc = "fillBudget"]
<1>1. /\ job[h].pc = "emptyBudget" /\ job' = [job EXCEPT ![h] = new] /\ budgetFile' = Torn
      /\ queueFile' = queueFile /\ now' = now /\ shown' = shown /\ cut' = cut /\ count' = count
  BY DEF EmptyBudgetFile, Go
<1>2. /\ new \in Job /\ new.pc = "fillBudget"
      /\ new.queue = job[h].queue /\ new.remark = job[h].remark
  BY QTypes, JobGoes DEF PCs
<1> HIDE DEF new
<1>3. new.remark \in Remark
  BY <1>1, <1>2 DEF QInv, Speaking
<1> QED BY <1>1, <1>2, <1>3, QTypes, Rest, StepQInv

LEMMA FillBudgetFileQInv ==
    ASSUME QInv, NEW h \in Hooks, FillBudgetFile(h)
    PROVE  QInv'
<1> DEFINE new == [job[h] EXCEPT !.pc = "remark"]
<1>1. /\ job[h].pc = "fillBudget" /\ job' = [job EXCEPT ![h] = new]
      /\ budgetFile' = job[h].budget \/ budgetFile' = Torn
      /\ queueFile' = queueFile /\ now' = now /\ shown' = shown /\ cut' = cut /\ count' = count
  BY DEF FillBudgetFile, filled, Go
<1>2. /\ new \in Job /\ new.pc = "remark"
      /\ new.queue = job[h].queue /\ new.remark = job[h].remark
  BY QTypes, JobGoes DEF PCs
<1> HIDE DEF new
<1>3. new.remark \in Remark
  BY <1>1, <1>2 DEF QInv, Speaking
<1>4. budgetFile' \in Budget \cup {Torn}
  BY <1>1, QTypes DEF Job
<1> QED BY <1>1, <1>2, <1>3, <1>4, QTypes, Rest, StepQInv

LEMMA WriteToPromptQInv ==
    ASSUME QInv, NEW h \in Hooks, WriteToPrompt(h)
    PROVE  QInv'
<1>1. /\ job[h].pc = "remark" /\ job' = [job EXCEPT ![h] = NoJob]
      /\ shown' = Append(shown, job[h].remark)
      /\ queueFile' = queueFile /\ budgetFile' = budgetFile
      /\ now' = now /\ cut' = cut /\ count' = count
  BY DEF WriteToPrompt, Exit, files
<1>2. job[h].remark \in Remark
  BY <1>1 DEF QInv, Speaking
<1>3. shown' \in Seq(Remark)
  BY <1>1, <1>2, Rest
<1>4. Good(<<>>, now) /\ Len(<<>>) <= MaxQueueItems
  BY EmptyGood, AdvisorAssumption
<1> QED BY <1>1, <1>3, <1>4, NoJobType, Rest, StepQInv

LEMMA CrashQInv ==
    ASSUME QInv, NEW h \in Hooks, Crash(h)
    PROVE  QInv'
<1>1. /\ job' = [job EXCEPT ![h] = NoJob] /\ shown' = shown
      /\ queueFile' = queueFile /\ budgetFile' = budgetFile
      /\ now' = now /\ cut' = cut
      /\ count' = [count EXCEPT !.crashes = count.crashes + 1] /\ count.crashes < MaxCrashes
  BY DEF Crash, Exit, files
<1>2. count' \in [starts : 0..MaxStarts, crashes : 0..MaxCrashes, raced : BOOLEAN]
  <2>1. count.crashes + 1 \in 0..MaxCrashes
    BY <1>1, Rest, AdvisorAssumption
  <2> QED BY <1>1, <2>1, Rest
<1>3. Good(<<>>, now) /\ Len(<<>>) <= MaxQueueItems
  BY EmptyGood, AdvisorAssumption
<1> QED BY <1>1, <1>2, <1>3, NoJobType, Rest, StepQInv

LEMMA TickQInv ==
    ASSUME QInv, Tick
    PROVE  QInv'
<1>1. /\ now' = now + 1 /\ now < MaxTime /\ queueFile' = queueFile /\ budgetFile' = budgetFile
      /\ job' = job /\ shown' = shown /\ cut' = cut /\ count' = count
  BY DEF Tick, files
<1>2. now \in Nat /\ MaxTime \in Nat
  BY QTypes
<1>3. now' \in Nat /\ now <= now' /\ now' \in 0..MaxTime
  BY <1>1, <1>2
<1>4. TypeOK'
  BY <1>1, <1>3 DEF QInv, TypeOK
<1>5. Queues' = Queues
  BY <1>1 DEF Queues, readQueue
<1>6. \A queue \in Queues' : Good(queue, now') /\ Len(queue) <= MaxQueueItems
  BY <1>2, <1>3, <1>5, GoodLasts DEF QInv
<1>7. \A h \in Hooks : Speaking(h)'
  BY <1>1 DEF QInv, Speaking
<1> QED BY <1>4, <1>6, <1>7 DEF QInv

\* Every step keeps QInv.
LEMMA NextQInv == ASSUME QInv, [Next]_vars PROVE QInv'
<1>1. CASE UNCHANGED vars
  BY <1>1 DEF vars, QInv, TypeOK, Speaking, Queues, readQueue
<1>2. CASE Tick
  BY <1>2, TickQInv
<1>3. ASSUME NEW h \in Hooks,
             \/ PostAction(h) \/ Ambient(h)
             \/ EmptyQueueFile(h) \/ FillQueueFile(h)
             \/ CheckBudget(h) \/ ClassifyPrompt(h)
             \/ EmptyBudgetFile(h) \/ FillBudgetFile(h) \/ WriteToPrompt(h)
             \/ Crash(h)
      PROVE  QInv'
  BY <1>3, PostActionQInv, AmbientQInv, EmptyQueueFileQInv, FillQueueFileQInv,
     CheckBudgetQInv, ClassifyPromptQInv, EmptyBudgetFileQInv, FillBudgetFileQInv,
     WriteToPromptQInv, CrashQInv
<1> QED BY <1>1, <1>2, <1>3 DEF Next

\* The files and the queues in memory are always as QInv says.
LEMMA AlwaysQInv == Spec => []QInv
<1>1. Init => QInv
  BY InitQInv
<1>2. QInv /\ [Next]_vars => QInv'
  BY NextQInv
<1> QED BY <1>1, <1>2, PTL DEF Spec

(***************************************************************************)
(* Every state has its type: the files hold a queue and a budget or do not *)
(* parse, and a hook holds what it is about to write.                      *)
(***************************************************************************)
THEOREM AdvisorTypes == Spec => []TypeOK
<1>1. QInv => TypeOK
  BY DEF QInv
<1> QED BY <1>1, AlwaysQInv, PTL

(***************************************************************************)
(* An id has at most one active item, in the file and in what any hook is  *)
(* about to write, and no queue outgrows MAX_QUEUE_ITEMS: however many     *)
(* hooks overlap or die, for the dedupe and the cap of                     *)
(* sunco-advisor-postaction.cjs.                                           *)
(***************************************************************************)
THEOREM ActiveStayDistinct == Spec => []ActiveItemsAreDistinct
<1>1. QInv => ActiveItemsAreDistinct
  BY DEF QInv, Good, ActiveItemsAreDistinct
<1> QED BY <1>1, AlwaysQInv, PTL

(***************************************************************************)
(* The first pending item of a queue is the oldest one, which is what      *)
(* promoteOldestPending of sunco-advisor-ambient.cjs counts on.            *)
(***************************************************************************)
THEOREM OldestStandFirst == Spec => []OldestPendingFirst
<1>1. QInv => OldestPendingFirst
  BY DEF QInv, Good, OldestPendingFirst
<1> QED BY <1>1, AlwaysQInv, PTL

-----------------------------------------------------------------------------
(* What the cap drops                                                      *)

\* The action of CapDropsFinishedFirst.
dropsFinishedFirst ==
    \A h \in Hooks : (job'[h].post /\ ~ job[h].post) =>
        LET kept == ToSet(job'[h].queue)
            lost == {i \in ToSet(scavengeExpired(readQueue, now)) :
                        isPending(i) /\ i \notin kept}
        IN  /\ \A l \in lost, k \in kept : isPending(k) /\ l.createdAt <= k.createdAt
            /\ \E k \in kept : isPending(k) /\ k.createdAt = now

\* The queue a hook has just capped, against the one it read.
capsWell(read, kept) ==
    /\ \A l \in ToSet(read), k \in ToSet(kept) :
          (isPending(l) /\ l \notin ToSet(kept)) => (isPending(k) /\ l.createdAt <= k.createdAt)
    /\ \E k \in ToSet(kept) : isPending(k) /\ k.createdAt = now

\* What goes before a place is not pending, or older and the other is pending.
LEMMA GoesBeforePending ==
    ASSUME NEW q \in Queue, NEW i \in DOMAIN q, NEW j \in DOMAIN q,
           goesBefore(q, i, j), isPending(q[i])
    PROVE  isPending(q[j]) /\ q[i].createdAt <= q[j].createdAt
<1>1. q[i].createdAt \in Nat /\ q[j].createdAt \in Nat
  BY QueuePlaces
<1>2. isPending(q[j])
  BY GoesBeforeIs
<1>3. q[i].createdAt < q[j].createdAt \/ q[i].createdAt = q[j].createdAt
  BY <1>2, GoesBeforeIs
<1> QED BY <1>1, <1>2, <1>3

\* The cap does what its comment says, and leaves the item just added.
LEMMA CapsWell ==
    ASSUME now \in Nat, NEW read, Good(read, now), NEW w, Good(w, now),
           \A i \in DOMAIN read : i \in DOMAIN w /\ w[i] = read[i],
           Len(w) \in DOMAIN w, isPending(w[Len(w)]), w[Len(w)].createdAt = now
    PROVE  capsWell(read, enforceCap(w))
<1> DEFINE kept == enforceCap(w)
           n == Len(w)
<1>1. /\ w \in Queue /\ \A i \in DOMAIN w : w[i].createdAt \in Nat /\ w[i].createdAt <= now
      /\ DOMAIN read = 1..Len(read) /\ DOMAIN w = 1..Len(w)
  BY QueuePlaces DEF Good
<1>2. /\ ToSet(kept) \subseteq ToSet(w)
      /\ kept = w \/ Len(kept) = MaxQueueItems
      /\ \A i \in DOMAIN w : \/ w[i] \in ToSet(kept)
                             \/ \A k \in ToSet(kept) :
                                   \E j \in DOMAIN w : k = w[j] /\ goesBefore(w, i, j)
      /\ Good(kept, now)
  BY CapIs
<1> HIDE DEF kept
<1>3. ASSUME NEW l \in ToSet(read), NEW k \in ToSet(kept), isPending(l), l \notin ToSet(kept)
      PROVE  isPending(k) /\ l.createdAt <= k.createdAt
  <2>1. PICK i \in DOMAIN read : l = read[i]
    BY <1>1 DEF ToSet
  <2>2. i \in DOMAIN w /\ w[i] = l
    BY <2>1
  <2>3. PICK j \in DOMAIN w : k = w[j] /\ goesBefore(w, i, j)
    BY <1>2, <1>3, <2>2
  <2> QED BY <1>1, <1>3, <2>2, <2>3, GoesBeforePending
<1>4. \E k \in ToSet(kept) : isPending(k) /\ k.createdAt = now
  <2>1. CASE w[n] \in ToSet(kept)
    BY <2>1
  <2>2. CASE w[n] \notin ToSet(kept)
    <3>1. \E k \in ToSet(kept) : TRUE
      <4>1. Len(kept) \in Nat /\ DOMAIN kept = 1..Len(kept)
        BY <1>2, QueuePlaces DEF Good
      <4>2. CASE kept = w
        BY <1>1, <2>2, <4>2 DEF ToSet
      <4>3. CASE Len(kept) = MaxQueueItems
        <5>1. 1 \in DOMAIN kept
          BY <4>1, <4>3, AdvisorAssumption
        <5> QED BY <5>1 DEF ToSet
      <4> QED BY <1>2, <4>2, <4>3
    <3>2. PICK k \in ToSet(kept) : TRUE
      BY <3>1
    <3>3. PICK j \in DOMAIN w : k = w[j] /\ goesBefore(w, n, j)
      BY <1>2, <2>2
    <3>4. isPending(k) /\ w[n].createdAt <= k.createdAt
      BY <1>1, <3>3, GoesBeforePending
    <3>5. k.createdAt \in Nat /\ k.createdAt <= now
      BY <1>1, <3>3
    <3> QED BY <3>4, <3>5
  <2> QED BY <2>1, <2>2
<1>5. capsWell(read, kept)
  BY <1>3, <1>4 DEF capsWell
<1> QED BY <1>5 DEF kept

\* The hook that queues caps well.
LEMMA PostActionCapsWell ==
    ASSUME QInv, NEW h \in Hooks, PostAction(h), job'[h].post
    PROVE  capsWell(scavengeExpired(readQueue, now), job'[h].queue)
<1> DEFINE read == scavengeExpired(readQueue, now)
<1>1. PICK first \in Ids, second \in Ids : posts(h, read, addedTo(read, first, second))
  BY PostActionIs
<1> DEFINE w == addedTo(read, first, second)
<1>2. now \in Nat /\ Good(readQueue, now) /\ job \in [Hooks -> Job]
  BY QTypes DEF QInv, TypeOK
<1>3. Good(read, now)
  BY <1>2, ScavengeGood
<1>4. posts(h, read, w)
  BY <1>1
<1> HIDE DEF read
<1>5. /\ Good(w, now)
      /\ \A i \in DOMAIN read : i \in DOMAIN w /\ w[i] = read[i]
      /\ \/ Len(w) = Len(read)
         \/ /\ Len(w) > Len(read) /\ Len(w) \in DOMAIN w
            /\ isPending(w[Len(w)]) /\ w[Len(w)].createdAt = now
  BY <1>2, <1>3, AddedIs
<1> HIDE DEF w
<1>6. job'[h] = postJob(read, w)
  BY <1>2, <1>4 DEF posts
<1>7. CASE Len(w) = Len(read)
  <2>1. job'[h] = NoJob
    BY <1>2, <1>5, <1>6, <1>7, PostJobIs
  <2> QED BY <2>1, NoJobType
<1>8. CASE Len(w) # Len(read)
  <2>1. job'[h].queue = enforceCap(w)
    BY <1>2, <1>5, <1>6, <1>8, PostJobIs
  <2>2. capsWell(read, enforceCap(w))
    BY <1>2, <1>3, <1>5, <1>8, CapsWell
  <2> QED BY <2>1, <2>2 DEF read
<1> QED BY <1>7, <1>8

\* No other step makes a hook one that posts.
postsAnew(h) == job'[h].post /\ ~ job[h].post

\* Only PostAction starts a hook that posts.
LEMMA OthersPostNothing ==
    ASSUME QInv, NEW h \in Hooks,
           \/ Ambient(h) \/ EmptyQueueFile(h) \/ FillQueueFile(h)
           \/ CheckBudget(h) \/ ClassifyPrompt(h)
           \/ EmptyBudgetFile(h) \/ FillBudgetFile(h) \/ WriteToPrompt(h) \/ Crash(h)
    PROVE  \A g \in Hooks : ~ postsAnew(g)
<1>1. job \in [Hooks -> Job] /\ job[h] \in Job /\ readQueue \in Queue /\ ~ NoJob.post
  BY QTypes, NoJobType DEF QInv, TypeOK
<1>2. ASSUME NEW new, job' = [job EXCEPT ![h] = new], new.post => job[h].post
      PROVE  \A g \in Hooks : ~ postsAnew(g)
  BY <1>1, <1>2 DEF postsAnew
<1>3. CASE Ambient(h)
  <2>1. CASE oldestPending(readQueue) = 0
    BY <1>2, <1>3, <2>1, AmbientIs, PromptJobIs
  <2>2. CASE oldestPending(readQueue) # 0
    BY <1>1, <1>2, <1>3, <2>2, AmbientIs, ItemJobIs
  <2> QED BY <2>1, <2>2
<1>4. CASE \/ EmptyQueueFile(h) \/ EmptyBudgetFile(h) \/ FillBudgetFile(h)
  <2>1. PICK pc \in PCs : job' = [job EXCEPT ![h] = [job[h] EXCEPT !.pc = pc]]
    BY <1>4 DEF EmptyQueueFile, EmptyBudgetFile, FillBudgetFile, Go, PCs
  <2>2. [job[h] EXCEPT !.pc = pc].post = job[h].post
    BY <1>1, JobGoes
  <2> QED BY <1>2, <2>1, <2>2
<1>5. CASE WriteToPrompt(h) \/ Crash(h)
  BY <1>1, <1>2, <1>5 DEF WriteToPrompt, Crash, Exit
<1>6. CASE FillQueueFile(h)
  <2> DEFINE next == [job[h] EXCEPT !.pc = "budget", !.queue = <<>>]
  <2>1. next.post = job[h].post
    BY <1>1 DEF Job
  <2>2. job' = [job EXCEPT ![h] = NoJob] \/ job' = [job EXCEPT ![h] = next]
    BY <1>6 DEF FillQueueFile, Exit
  <2> HIDE DEF next
  <2> QED BY <1>1, <1>2, <2>1, <2>2
<1>7. CASE CheckBudget(h)
  <2> DEFINE showing == [job[h] EXCEPT !.pc = "emptyBudget", !.budget = withOneMore(readBudget)]
             silent == [job[h] EXCEPT !.pc = "classify", !.remark = NoRemark]
  <2>1. showing.post = job[h].post /\ silent.post = job[h].post
    BY <1>1 DEF Job
  <2>2. job' = [job EXCEPT ![h] = showing] \/ job' = [job EXCEPT ![h] = silent]
    BY <1>7 DEF CheckBudget
  <2> HIDE DEF showing, silent
  <2> QED BY <1>2, <2>1, <2>2
<1>8. CASE ClassifyPrompt(h)
  <2>1. CASE job' = [job EXCEPT ![h] = NoJob]
    BY <1>1, <1>2, <2>1
  <2>2. ASSUME NEW key \in Keys,
               job' = [job EXCEPT ![h] = saying(job[h], key, promptBudget(readBudget, key))]
        PROVE  \A g \in Hooks : ~ postsAnew(g)
    <3> DEFINE b == promptBudget(readBudget, key)
    <3>1. now \in Nat /\ readBudget \in Budget
      BY QTypes
    <3>2. b \in Budget
      BY <3>1, PromptBudgetIs
    <3> HIDE DEF b
    <3> DEFINE j == job[h]
    <3>3. saying(j, key, b).post = j.post
      <4>1. j \in Job
        BY <1>1
      <4> HIDE DEF j
      <4> QED BY <3>1, <3>2, <4>1, SayingIs
    <3> QED BY <1>2, <2>2, <3>3 DEF b
  <2> QED BY <1>8, <2>1, <2>2, ClassifyIs
<1> QED BY <1>3, <1>4, <1>5, <1>6, <1>7, <1>8

\* Every step is one that CapDropsFinishedFirst allows.
LEMMA StepDropsFinishedFirst ==
    ASSUME QInv, [Next]_vars
    PROVE  dropsFinishedFirst
<1>1. ASSUME NEW g \in Hooks, postsAnew(g)
      PROVE  capsWell(scavengeExpired(readQueue, now), job'[g].queue)
  <2>1. CASE UNCHANGED vars
    BY <1>1, <2>1 DEF postsAnew, vars
  <2>2. CASE Tick
    BY <1>1, <2>2 DEF postsAnew, Tick
  <2>3. ASSUME NEW h \in Hooks, PostAction(h)
        PROVE  capsWell(scavengeExpired(readQueue, now), job'[g].queue)
    <3>1. CASE g = h
      BY <1>1, <2>3, <3>1, PostActionCapsWell DEF postsAnew
    <3>2. CASE g # h
      <4>1. PICK w, read : posts(h, read, w)
        BY <2>3, PostActionIs
      <4>2. job'[g] = job[g]
        BY <3>2, <4>1 DEF posts, QInv, TypeOK
      <4> QED BY <1>1, <4>2 DEF postsAnew
    <3> QED BY <3>1, <3>2
  <2>4. ASSUME NEW h \in Hooks,
               \/ Ambient(h) \/ EmptyQueueFile(h) \/ FillQueueFile(h)
               \/ CheckBudget(h) \/ ClassifyPrompt(h)
               \/ EmptyBudgetFile(h) \/ FillBudgetFile(h) \/ WriteToPrompt(h) \/ Crash(h)
        PROVE  FALSE
    BY <1>1, <2>4, OthersPostNothing
  <2> QED BY <2>1, <2>2, <2>3, <2>4 DEF Next
<1> QED BY <1>1 DEF dropsFinishedFirst, capsWell, postsAnew

(***************************************************************************)
(* enforceCap of sunco-advisor-postaction.cjs: a hook that writes the      *)
(* queue drops no pending item while a finished one is kept, no younger    *)
(* one for an older, and never what it has just queued.                    *)
(***************************************************************************)
THEOREM FinishedDropFirst == Spec => CapDropsFinishedFirst
<1>1. QInv /\ [Next]_vars => dropsFinishedFirst
  BY StepDropsFinishedFirst
<1>2. [][dropsFinishedFirst]_vars <=> CapDropsFinishedFirst
  BY DEF CapDropsFinishedFirst, dropsFinishedFirst
<1> QED BY <1>1, <1>2, AlwaysQInv, PTL DEF Spec

-----------------------------------------------------------------------------
(* What the files tell when no two hooks overlapped                        *)

\* What showing an item prints, and what is noted when the cap drops it.
itemRemark(item) == [kind |-> "item", id |-> item.id, at |-> item.createdAt]
cutOf(r) == [id |-> r.id, createdAt |-> r.at]

\* A prompt's key is not shown again within the suppression time.
spaced(s) ==
    \A i, j \in DOMAIN s :
       (i < j /\ s[i].kind = "prompt" /\ s[j].kind = "prompt" /\ s[i].id = s[j].id)
          => s[j].at >= s[i].at + SuppressFor

knows(b, r) == b.lastSurfaced[r.id] # Never /\ r.at <= b.lastSurfaced[r.id]
late(r, s) ==
    \A i \in DOMAIN s : (s[i].kind = "prompt" /\ s[i].id = r.id) => r.at >= s[i].at + SuppressFor

\* A budget b knows of what was shown, s, and of the remark r that a hook has
\* yet to print; c is 1 when it has counted r.
quiet(b, r, c, s) ==
    /\ Len(s) + c <= b.visibleCount /\ b.visibleCount <= MaxVisible
    /\ \A i \in DOMAIN s : s[i].kind = "prompt" => knows(b, s[i])
    /\ r.kind = "prompt" => knows(b, r) /\ late(r, s)
    /\ spaced(s)

\* The items of a queue q against what was shown: what was shown is there and
\* not pending, what is marked surfaced was shown, r aside, and nothing twice.
tells(q, b, r, s, k) ==
    /\ \A m, n \in DOMAIN s : (s[m] = s[n] /\ s[m].kind = "item") => (m = n \/ cutOf(s[m]) \in k)
    /\ \A n \in DOMAIN s : s[n].kind = "item" =>
          \/ cutOf(s[n]) \in k
          \/ \E i \in DOMAIN q : itemRemark(q[i]) = s[n] /\ ~ isPending(q[i])
    /\ \A i \in DOMAIN q : q[i].status = "surfaced" =>
          \/ \E n \in DOMAIN s : s[n] = itemRemark(q[i])
          \/ ~ withinCap(b)
          \/ itemRemark(q[i]) = r
    /\ r.kind = "item" =>
          /\ \E i \in DOMAIN q : itemRemark(q[i]) = r /\ ~ isPending(q[i])
          /\ \A n \in DOMAIN s : s[n] = r => cutOf(r) \in k

holds(q, b, r, c, s, k) ==
    /\ q \in Queue /\ b \in Budget /\ r \in Remark \cup {NoRemark} /\ s \in Seq(Remark)
    /\ quiet(b, r, c, s) /\ tells(q, b, r, s, k)

\* The two kinds of remarks.
LEMMA RemarkKinds ==
    ASSUME NEW r \in Remark
    PROVE  /\ r.at \in Nat
           /\ \/ r.kind = "item" /\ r.id \in Ids
              \/ r.kind = "prompt" /\ r.id \in Keys
           /\ r.kind # "none"
BY DEF Remark

\* An item's remark names it.
LEMMA ItemRemarkIs ==
    ASSUME NEW i \in Item
    PROVE  /\ itemRemark(i) \in Remark /\ itemRemark(i).kind = "item"
           /\ itemRemark(i).id = i.id /\ itemRemark(i).at = i.createdAt
           /\ cutOf(itemRemark(i)) = [id |-> i.id, createdAt |-> i.createdAt]
BY DEF itemRemark, cutOf, Item, Remark

\* A remark of an item, field by field.
LEMMA SameRemark ==
    ASSUME NEW i \in Item, NEW r \in Remark, r.kind = "item", r.id = i.id, r.at = i.createdAt
    PROVE  r = itemRemark(i)
BY DEF itemRemark, Remark

\* The places of what was shown.
LEMMA ShownPlaces ==
    ASSUME NEW s \in Seq(Remark)
    PROVE  /\ Len(s) \in Nat /\ DOMAIN s = 1..Len(s)
           /\ \A n \in DOMAIN s : s[n] \in Remark
OBVIOUS

\* One more remark: where it stands.
LEMMA SayIs ==
    ASSUME NEW s \in Seq(Remark), NEW r \in Remark
    PROVE  /\ Append(s, r) \in Seq(Remark) /\ Len(Append(s, r)) = Len(s) + 1
           /\ DOMAIN s \subseteq DOMAIN Append(s, r)
           /\ Len(s) + 1 \in DOMAIN Append(s, r) /\ Append(s, r)[Len(s) + 1] = r
           /\ \A n \in DOMAIN Append(s, r) :
                 \/ n \in DOMAIN s /\ n < Len(s) + 1 /\ Append(s, r)[n] = s[n]
                 \/ n = Len(s) + 1 /\ Append(s, r)[n] = r
<1> DEFINE w == Append(s, r)
<1>1. /\ w \in Seq(Remark) /\ Len(w) = Len(s) + 1
      /\ \A i \in 1..Len(s) : w[i] = s[i]
      /\ w[Len(s) + 1] = r
  BY AppendProperties
<1>2. Len(s) \in Nat /\ DOMAIN s = 1..Len(s)
  OBVIOUS
<1> HIDE DEF w
<1>3. DOMAIN w = 1..(Len(s) + 1)
  BY <1>1
<1>4. w \in Seq(Remark) /\ Len(w) = Len(s) + 1 /\ w[Len(s) + 1] = r
  BY <1>1
<1>5. DOMAIN s \subseteq DOMAIN w /\ Len(s) + 1 \in DOMAIN w
  BY <1>2, <1>3
<1>6. ASSUME NEW n \in DOMAIN w
      PROVE  \/ n \in DOMAIN s /\ n < Len(s) + 1 /\ w[n] = s[n]
             \/ n = Len(s) + 1 /\ w[n] = r
  BY <1>1, <1>2, <1>3
<1> QED BY <1>4, <1>5, <1>6 DEF w

\* CheckBudget counts the remark.
LEMMA QuietPaid ==
    ASSUME NEW b \in Budget, NEW r, NEW s \in Seq(Remark), quiet(b, r, 0, s), withinCap(b)
    PROVE  quiet(withOneMore(b), r, 1, s)
<1> DEFINE v == withOneMore(b)
<1>1. v.visibleCount = b.visibleCount + 1 /\ v.lastSurfaced = b.lastSurfaced
  BY OneMoreIs
<1> HIDE DEF v
<1>2. b.visibleCount \in Nat /\ MaxVisible \in Nat /\ Len(s) \in Nat
  BY AdvisorAssumption DEF Budget
<1>3. Len(s) + 0 <= b.visibleCount /\ b.visibleCount < MaxVisible
  BY DEF quiet, withinCap
<1>4. Len(s) + 1 <= v.visibleCount /\ v.visibleCount <= MaxVisible
  BY <1>1, <1>2, <1>3
<1>5. \A p : knows(b, p) => knows(v, p)
  BY <1>1 DEF knows
<1>6. quiet(v, r, 1, s)
  BY <1>4, <1>5 DEF quiet
<1> QED BY <1>6 DEF v

\* ClassifyPrompt counts its remark and remembers the key.
LEMMA QuietPrompt ==
    ASSUME now \in Nat, NEW b \in Budget, NEW s \in Seq(Remark), NEW key \in Keys,
           quiet(b, NoRemark, 0, s), shouldSurface(b, key)
    PROVE  quiet(promptBudget(b, key), [kind |-> "prompt", id |-> key, at |-> now], 1, s)
<1> DEFINE v == promptBudget(b, key)
           r == [kind |-> "prompt", id |-> key, at |-> now]
           last == b.lastSurfaced
<1>1. v.visibleCount = b.visibleCount + 1 /\ v.lastSurfaced = [last EXCEPT ![key] = now]
  BY PromptBudgetIs
<1>2. last \in [Keys -> Nat \cup {Never}] /\ b.visibleCount \in Nat
  BY DEF Budget
<1>3. MaxVisible \in Nat /\ Len(s) \in Nat /\ SuppressFor \in Nat
  BY AdvisorAssumption
<1>4. r.kind = "prompt" /\ r.id = key /\ r.at = now
  OBVIOUS
<1> HIDE DEF v, r
<1>5. Len(s) + 1 <= v.visibleCount /\ v.visibleCount <= MaxVisible
  <2>1. Len(s) + 0 <= b.visibleCount /\ b.visibleCount < MaxVisible
    BY DEF quiet, withinCap, shouldSurface
  <2> QED BY <1>1, <1>2, <1>3, <2>1
<1>6. last[key] # Never => (last[key] \in Nat /\ now >= last[key] + SuppressFor)
  <2>1. last[key] # Never => ~ now < last[key] + SuppressFor
    BY DEF shouldSurface, recentlySurfaced
  <2>2. last[key] # Never => last[key] \in Nat
    BY <1>2
  <2> QED BY <1>3, <2>1, <2>2
<1> HIDE DEF last
<1>7. ASSUME NEW i \in DOMAIN s, s[i].kind = "prompt"
      PROVE  knows(v, s[i]) /\ (s[i].id = key => now >= s[i].at + SuppressFor)
  <2>1. s[i].at \in Nat /\ s[i].id \in Keys
    BY <1>7, ShownPlaces, RemarkKinds
  <2>2. last[s[i].id] # Never /\ s[i].at <= last[s[i].id]
    BY <1>7 DEF quiet, knows, last
  <2>3. last[s[i].id] \in Nat
    BY <1>2, <2>1, <2>2 DEF last
  <2>4. CASE s[i].id = key
    <3>1. v.lastSurfaced[s[i].id] = now
      BY <1>1, <1>2, <2>1, <2>4 DEF last
    <3>2. s[i].at <= now /\ now >= s[i].at + SuppressFor
      BY <1>3, <1>6, <2>1, <2>2, <2>3, <2>4
    <3> QED BY <3>1, <3>2, AdvisorAssumption DEF knows
  <2>5. CASE s[i].id # key
    <3>1. v.lastSurfaced[s[i].id] = last[s[i].id]
      BY <1>1, <1>2, <2>1, <2>5 DEF last
    <3> QED BY <2>2, <2>5, <3>1 DEF knows
  <2> QED BY <2>4, <2>5
<1>8. knows(v, r)
  BY <1>1, <1>2, <1>4, AdvisorAssumption DEF knows, last
<1>9. late(r, s)
  BY <1>4, <1>7 DEF late
<1>10. quiet(v, r, 1, s)
  BY <1>5, <1>7, <1>8, <1>9 DEF quiet
<1> QED BY <1>10 DEF v, r

\* WriteToPrompt prints what was counted.
LEMMA QuietSaid ==
    ASSUME NEW b \in Budget, NEW r \in Remark, NEW s \in Seq(Remark), quiet(b, r, 1, s)
    PROVE  quiet(b, NoRemark, 0, Append(s, r))
<1> DEFINE w == Append(s, r)
<1>1. /\ w \in Seq(Remark) /\ Len(w) = Len(s) + 1
      /\ \A n \in DOMAIN w : \/ n \in DOMAIN s /\ n < Len(s) + 1 /\ w[n] = s[n]
                             \/ n = Len(s) + 1 /\ w[n] = r
  BY SayIs
<1> HIDE DEF w
<1>2. Len(s) \in Nat /\ b.visibleCount \in Nat
  BY DEF Budget
<1>3. Len(w) + 0 <= b.visibleCount /\ b.visibleCount <= MaxVisible
  <2>1. Len(s) + 1 <= b.visibleCount /\ b.visibleCount <= MaxVisible
    BY DEF quiet
  <2> QED BY <1>1, <1>2, <2>1
<1>4. \A n \in DOMAIN w : w[n].kind = "prompt" => knows(b, w[n])
  BY <1>1 DEF quiet
<1>5. ASSUME NEW i \in DOMAIN w, NEW j \in DOMAIN w, i < j,
             w[i].kind = "prompt", w[j].kind = "prompt", w[i].id = w[j].id
      PROVE  w[j].at >= w[i].at + SuppressFor
  <2>1. i \in DOMAIN s /\ w[i] = s[i]
    <3>1. i \in Nat /\ j \in Nat /\ j <= Len(s) + 1
      BY <1>1, <1>2
    <3> QED BY <1>1, <1>2, <1>5, <3>1
  <2>2. CASE j \in DOMAIN s /\ w[j] = s[j]
    BY <1>5, <2>1, <2>2 DEF quiet, spaced
  <2>3. CASE w[j] = r
    BY <1>5, <2>1, <2>3 DEF quiet, late
  <2> QED BY <1>1, <2>2, <2>3
<1>6. spaced(w)
  BY <1>5 DEF spaced
<1>7. NoRemark.kind # "prompt"
  BY DEF NoRemark
<1>8. quiet(b, NoRemark, 0, w)
  BY <1>3, <1>4, <1>6, <1>7 DEF quiet
<1> QED BY <1>8 DEF w

\* A remark that is given up, or not yet thought of.
LEMMA QuietOther ==
    ASSUME NEW b, NEW r, NEW s, quiet(b, r, 0, s), NEW o, o.kind # "prompt"
    PROVE  quiet(b, o, 0, s)
BY DEF quiet

\* More that was cut takes nothing back.
LEMMA TellsMoreCut ==
    ASSUME NEW q, NEW b, NEW r, NEW s, NEW k, NEW l, tells(q, b, r, s, k), k \subseteq l
    PROVE  tells(q, b, r, s, l)
BY DEF tells

\* The budget counts a remark, an item's or a prompt's.
LEMMA TellsCounted ==
    ASSUME NEW q \in Queue, NEW b \in Budget, NEW r, NEW s, NEW k, tells(q, b, r, s, k),
           NEW v \in Budget, v.visibleCount = b.visibleCount + 1
    PROVE  tells(q, v, r, s, k)
<1>1. ~ withinCap(b) => ~ withinCap(v)
  <2>1. b.visibleCount \in Nat /\ MaxVisible \in Nat
    BY AdvisorAssumption DEF Budget
  <2> QED BY <2>1 DEF withinCap
<1> QED BY <1>1 DEF tells

\* A remark that is no item's, in the place of none.
LEMMA TellsPrompt ==
    ASSUME NEW q \in Queue, NEW b, NEW r, r.kind # "item", NEW s, NEW k,
           NEW o, o.kind # "item", tells(q, b, r, s, k)
    PROVE  tells(q, b, o, s, k)
<1>1. \A i \in DOMAIN q : itemRemark(q[i]).kind = "item"
  BY QueuePlaces, ItemRemarkIs
<1>2. \A i \in DOMAIN q : itemRemark(q[i]) # r
  BY <1>1
<1> QED BY <1>2 DEF tells

\* At the cap an item is given up.
LEMMA TellsGivenUp ==
    ASSUME NEW q, NEW b, NEW r, NEW s, NEW k, tells(q, b, r, s, k), ~ withinCap(b)
    PROVE  tells(q, b, NoRemark, s, k)
BY DEF tells, NoRemark

\* A remark is printed.
LEMMA TellsSaid ==
    ASSUME NEW q \in Queue, NEW b, NEW r \in Remark, NEW s \in Seq(Remark), NEW k,
           tells(q, b, r, s, k)
    PROVE  tells(q, b, NoRemark, Append(s, r), k)
<1> DEFINE w == Append(s, r)
           e == Len(s) + 1
<1>1. /\ w \in Seq(Remark) /\ DOMAIN s \subseteq DOMAIN w /\ e \in DOMAIN w /\ w[e] = r
      /\ \A n \in DOMAIN w : \/ n \in DOMAIN s /\ n < e /\ w[n] = s[n]
                             \/ n = e /\ w[n] = r
  BY SayIs
<1>2. \A n \in DOMAIN s : n \in DOMAIN w /\ w[n] = s[n]
  <2>1. e \notin DOMAIN s
    BY ShownPlaces
  <2> QED BY <1>1, <2>1
<1> HIDE DEF w, e
<1>3. r.kind = "item" =>
         /\ \E i \in DOMAIN q : itemRemark(q[i]) = r /\ ~ isPending(q[i])
         /\ \A n \in DOMAIN s : s[n] = r => cutOf(r) \in k
  BY DEF tells
<1>4. ASSUME NEW m \in DOMAIN w, NEW n \in DOMAIN w, w[m] = w[n], w[m].kind = "item"
      PROVE  m = n \/ cutOf(w[m]) \in k
  <2>1. CASE m \in DOMAIN s /\ w[m] = s[m] /\ n \in DOMAIN s /\ w[n] = s[n]
    BY <1>4, <2>1 DEF tells
  <2>2. CASE m \in DOMAIN s /\ w[m] = s[m] /\ n = e /\ w[n] = r
    BY <1>3, <1>4, <2>2
  <2>3. CASE m = e /\ w[m] = r /\ n \in DOMAIN s /\ w[n] = s[n]
    BY <1>3, <1>4, <2>3
  <2> QED BY <1>1, <2>1, <2>2, <2>3
<1>5. ASSUME NEW n \in DOMAIN w, w[n].kind = "item"
      PROVE  \/ cutOf(w[n]) \in k
             \/ \E i \in DOMAIN q : itemRemark(q[i]) = w[n] /\ ~ isPending(q[i])
  <2>1. CASE n \in DOMAIN s /\ w[n] = s[n]
    BY <1>5, <2>1 DEF tells
  <2>2. CASE w[n] = r
    BY <1>3, <1>5, <2>2
  <2> QED BY <1>1, <2>1, <2>2
<1>6. ASSUME NEW i \in DOMAIN q, q[i].status = "surfaced"
      PROVE  \/ \E n \in DOMAIN w : w[n] = itemRemark(q[i])
             \/ ~ withinCap(b)
  <2>1. \/ \E n \in DOMAIN s : s[n] = itemRemark(q[i])
        \/ ~ withinCap(b)
        \/ itemRemark(q[i]) = r
    BY <1>6 DEF tells
  <2> QED BY <1>1, <1>2, <2>1
<1>7. NoRemark.kind # "item"
  BY DEF NoRemark
<1>8. tells(q, b, NoRemark, w, k)
  BY <1>4, <1>5, <1>6, <1>7 DEF tells
<1> QED BY <1>8 DEF w

\* An item that is pending was not shown, unless one like it was cut.
LEMMA PendingIsNews ==
    ASSUME NEW t, NEW q, Good(q, t), NEW b, NEW r, NEW s \in Seq(Remark), NEW k,
           tells(q, b, r, s, k), NEW i \in DOMAIN q, isPending(q[i]),
           NEW n \in DOMAIN s, s[n] = itemRemark(q[i])
    PROVE  cutOf(s[n]) \in k
<1>1. q \in Queue
  BY DEF Good
<1>2. /\ q[i] \in Item /\ s[n].kind = "item"
      /\ s[n].id = q[i].id /\ s[n].at = q[i].createdAt
  BY <1>1, QueuePlaces, ItemRemarkIs
<1> SUFFICES ASSUME cutOf(s[n]) \notin k PROVE FALSE
  OBVIOUS
<1>3. PICK j \in DOMAIN q : itemRemark(q[j]) = s[n] /\ ~ isPending(q[j])
  BY <1>2 DEF tells
<1>4. q[j].id = s[n].id /\ q[j].createdAt = s[n].at
  BY <1>1, <1>3, QueuePlaces, ItemRemarkIs
<1>5. i = j
  BY <1>2, <1>4 DEF Good
<1> QED BY <1>3, <1>5

\* The ambient hook marks the oldest pending item, and has it to show.
LEMMA TellsPromoted ==
    ASSUME NEW t, NEW q, Good(q, t), NEW b, NEW s \in Seq(Remark), NEW k,
           tells(q, b, NoRemark, s, k), oldestPending(q) # 0
    PROVE  tells(promoteOldestPending(q), b, itemRemark(q[oldestPending(q)]), s, k)
<1> DEFINE o == oldestPending(q)
           w == promoteOldestPending(q)
           r == itemRemark(q[o])
<1>1. q \in Queue
  BY DEF Good
<1>2. /\ o \in DOMAIN q /\ isPending(q[o])
      /\ w \in Queue /\ DOMAIN w = DOMAIN q
      /\ \A j \in DOMAIN q : j # o => w[j] = q[j]
      /\ w[o].id = q[o].id /\ w[o].createdAt = q[o].createdAt
      /\ w[o].status = "surfaced"
  BY <1>1, PromoteIs
<1>3. \A n \in DOMAIN s : s[n] = r => cutOf(r) \in k
  BY <1>2, PendingIsNews
<1>4. itemRemark(w[o]) = r
  BY <1>2 DEF itemRemark
<1>5. ~ isPending(w[o])
  BY <1>2 DEF isPending
<1> HIDE DEF o, w, r
<1>6. ASSUME NEW i \in DOMAIN q PROVE itemRemark(w[i]) = itemRemark(q[i])
  BY <1>2 DEF itemRemark
<1>7. ASSUME NEW n \in DOMAIN s, s[n].kind = "item"
      PROVE  \/ cutOf(s[n]) \in k
             \/ \E i \in DOMAIN w : itemRemark(w[i]) = s[n] /\ ~ isPending(w[i])
  <2>1. CASE cutOf(s[n]) \in k
    BY <2>1
  <2>2. CASE \E i \in DOMAIN q : itemRemark(q[i]) = s[n] /\ ~ isPending(q[i])
    <3>1. PICK i \in DOMAIN q : itemRemark(q[i]) = s[n] /\ ~ isPending(q[i])
      BY <2>2
    <3>2. w[i] = q[i]
      BY <1>2, <3>1
    <3> QED BY <1>2, <3>1, <3>2
  <2> QED BY <1>7, <2>1, <2>2 DEF tells
<1>8. ASSUME NEW i \in DOMAIN w, w[i].status = "surfaced"
      PROVE  \/ \E n \in DOMAIN s : s[n] = itemRemark(w[i])
             \/ ~ withinCap(b)
             \/ itemRemark(w[i]) = r
  <2>1. CASE i = o
    BY <1>4, <2>1
  <2>2. CASE i # o
    <3>1. i \in DOMAIN q /\ w[i] = q[i]
      BY <1>2, <2>2
    <3>2. itemRemark(q[i]).kind = "item" /\ NoRemark.kind # "item"
      BY <1>1, <3>1, QueuePlaces, ItemRemarkIs DEF NoRemark
    <3>3. itemRemark(q[i]) # NoRemark
      BY <3>2
    <3> QED BY <1>8, <3>1, <3>3 DEF tells
  <2> QED BY <2>1, <2>2
<1>9. tells(w, b, r, s, k)
  BY <1>2, <1>3, <1>4, <1>5, <1>7, <1>8 DEF tells
<1> QED BY <1>9 DEF o, w, r

\* What enqueue adds is pending.
LEMMA EnqueuedIsPending ==
    ASSUME NEW t \in Nat, NEW q, Good(q, t), NEW id \in Ids, NEW i \in DOMAIN enqueue(q, id, t)
    PROVE  i \in DOMAIN q \/ isPending(enqueue(q, id, t)[i])
<1> DEFINE w == enqueue(q, id, t)
<1>1. /\ Good(w, t)
      /\ \/ w = q
         \/ /\ Len(w) = Len(q) + 1
            /\ w[Len(q) + 1] = [id |-> id, createdAt |-> t, status |-> "pending"]
  BY EnqueueIs
<1>2. i \in DOMAIN w
  OBVIOUS
<1> HIDE DEF w
<1>3. /\ Len(q) \in Nat /\ DOMAIN q = 1..Len(q) /\ DOMAIN w = 1..Len(w)
  BY <1>1, QueuePlaces DEF Good
<1>4. CASE w = q
  BY <1>2, <1>4
<1>5. CASE Len(w) = Len(q) + 1 /\ w[Len(q) + 1] = [id |-> id, createdAt |-> t, status |-> "pending"]
  <2>1. i \in 1..Len(q) \/ i = Len(q) + 1
    BY <1>2, <1>3, <1>5
  <2>2. isPending(w[Len(q) + 1])
    BY <1>5 DEF isPending
  <2> QED BY <1>3, <2>1, <2>2 DEF w
<1> QED BY <1>1, <1>4, <1>5 DEF w

\* Nor does the second call add another kind.
LEMMA AddedIsPending ==
    ASSUME now \in Nat, NEW q, Good(q, now), NEW first \in Ids, NEW second \in Ids,
           NEW i \in DOMAIN addedTo(q, first, second)
    PROVE  i \in DOMAIN q \/ isPending(addedTo(q, first, second)[i])
<1> DEFINE v == enqueue(q, first, now)
           w == enqueue(v, second, now)
<1>1. Good(v, now) /\ \A j \in DOMAIN v : j \in DOMAIN q \/ isPending(v[j])
  BY EnqueueIs, EnqueuedIsPending
<1>2. i \in DOMAIN w
  BY DEF addedTo
<1> HIDE DEF v
<1>3. /\ \A j \in DOMAIN v : w[j] = v[j]
      /\ i \in DOMAIN v \/ isPending(w[i])
  BY <1>1, <1>2, EnqueueIs, EnqueuedIsPending
<1> HIDE DEF w
<1>4. i \in DOMAIN q \/ isPending(w[i])
  BY <1>1, <1>3
<1> QED BY <1>4 DEF addedTo, v, w

\* The post-action hook expires, adds and cuts; what it cut is noted.
LEMMA TellsPosted ==
    ASSUME now \in Nat, NEW q, Good(q, now), NEW b, NEW s \in Seq(Remark), NEW k,
           tells(q, b, NoRemark, s, k), NEW first \in Ids, NEW second \in Ids
    PROVE  LET w == addedTo(scavengeExpired(q, now), first, second)
           IN  tells(enforceCap(w), b, NoRemark, s, k \cup goneFrom(w))
<1> DEFINE read == scavengeExpired(q, now)
           w == addedTo(read, first, second)
           kept == enforceCap(w)
           l == k \cup goneFrom(w)
<1>1. q \in Queue
  BY DEF Good
<1>2. /\ DOMAIN read = DOMAIN q
      /\ \A i \in DOMAIN q :
            /\ read[i].id = q[i].id /\ read[i].createdAt = q[i].createdAt
            /\ read[i] = q[i] \/ read[i].status = "expired"
  BY <1>1, ScavengeIs
<1>3. Good(read, now)
  BY ScavengeGood
<1> HIDE DEF read
<1>4. /\ Good(w, now)
      /\ \A i \in DOMAIN read : i \in DOMAIN w /\ w[i] = read[i]
      /\ \A i \in DOMAIN w : i \in DOMAIN read \/ isPending(w[i])
  BY <1>3, AddedIs, AddedIsPending
<1> HIDE DEF w
<1>5. Good(kept, now) /\ ToSet(kept) \subseteq ToSet(w)
  BY <1>4, CapIs
<1>6. l = k \cup {[id |-> i.id, createdAt |-> i.createdAt] : i \in ToSet(w) \ ToSet(kept)}
  BY DEF goneFrom
<1>7. \A r : r = NoRemark => r.kind = "none"
  BY DEF NoRemark
<1> HIDE DEF kept, l
<1>8. ASSUME NEW i \in DOMAIN q
      PROVE  /\ i \in DOMAIN w /\ itemRemark(w[i]) = itemRemark(q[i])
             /\ isPending(w[i]) => isPending(q[i])
             /\ w[i].status = "surfaced" => q[i].status = "surfaced"
  <2>1. i \in DOMAIN w /\ w[i] = read[i]
    BY <1>2, <1>4
  <2>2. read[i] = q[i] \/ read[i].status = "expired"
    BY <1>2
  <2>3. itemRemark(read[i]) = itemRemark(q[i])
    BY <1>2 DEF itemRemark
  <2> QED BY <2>1, <2>2, <2>3 DEF isPending
<1>9. ASSUME NEW n \in DOMAIN s, s[n].kind = "item", cutOf(s[n]) \notin l
      PROVE  \E m \in DOMAIN kept : itemRemark(kept[m]) = s[n] /\ ~ isPending(kept[m])
  <2>1. cutOf(s[n]) \notin k
    BY <1>6, <1>9
  <2>2. PICK i \in DOMAIN q : itemRemark(q[i]) = s[n] /\ ~ isPending(q[i])
    BY <1>9, <2>1 DEF tells
  <2>3. /\ i \in DOMAIN w /\ itemRemark(w[i]) = s[n] /\ ~ isPending(w[i])
    BY <1>8, <2>2
  <2>4. w \in Queue /\ kept \in Queue
    BY <1>4, <1>5 DEF Good
  <2>5. w[i] \in ToSet(w) /\ w[i] \in Item
    BY <2>3, <2>4, QueuePlaces DEF ToSet
  <2>6. w[i] \in ToSet(kept)
    <3>1. cutOf(s[n]) = [id |-> w[i].id, createdAt |-> w[i].createdAt]
      BY <2>3, <2>5, ItemRemarkIs
    <3> QED BY <1>6, <1>9, <2>5, <3>1
  <2>7. PICK m \in DOMAIN kept : kept[m] = w[i]
    BY <2>4, <2>6, QueuePlaces DEF ToSet
  <2> QED BY <2>3, <2>7
<1>10. ASSUME NEW m \in DOMAIN kept, kept[m].status = "surfaced"
       PROVE  \/ \E n \in DOMAIN s : s[n] = itemRemark(kept[m])
              \/ ~ withinCap(b)
  <2>1. w \in Queue /\ kept \in Queue
    BY <1>4, <1>5 DEF Good
  <2>2. kept[m] \in ToSet(w)
    BY <1>5, <2>1, QueuePlaces DEF ToSet
  <2>3. PICK i \in DOMAIN w : kept[m] = w[i]
    BY <2>1, <2>2, QueuePlaces DEF ToSet
  <2>4. ~ isPending(w[i])
    BY <1>10, <2>3 DEF isPending
  <2>5. i \in DOMAIN q
    BY <1>2, <1>4, <2>4
  <2>6. q[i].status = "surfaced" /\ itemRemark(q[i]) = itemRemark(kept[m])
    BY <1>8, <1>10, <2>3, <2>5
  <2>7. itemRemark(q[i]) # NoRemark
    BY <1>1, <1>7, <2>5, QueuePlaces, ItemRemarkIs
  <2> QED BY <2>5, <2>6, <2>7 DEF tells
<1>11. \A m, n \in DOMAIN s : (s[m] = s[n] /\ s[m].kind = "item") => (m = n \/ cutOf(s[m]) \in l)
  BY <1>6 DEF tells
<1>12. tells(kept, b, NoRemark, s, l)
  BY <1>7, <1>9, <1>10, <1>11 DEF tells
<1> QED BY <1>12 DEF read, w, kept, l

-----------------------------------------------------------------------------
(* The invariant of hooks that did not overlap                             *)

\* What the files will hold once a hook j has written what it is writing, what
\* it has yet to print, and whether it has counted that.
queueOf(j, file) == IF j.pc \in {"emptyQueue", "fillQueue"} THEN j.queue ELSE file
budgetOf(j, file) == IF j.pc \in {"emptyBudget", "fillBudget"} THEN j.budget ELSE file
owedBy(j) ==
    IF \/ j.post /\ j.pc \in {"emptyQueue", "fillQueue"}
       \/ j.pc \in {"idle", "classify"}
    THEN NoRemark ELSE j.remark
paidBy(j) == IF j.pc \in {"emptyBudget", "fillBudget", "remark"} THEN 1 ELSE 0

tale(j, qf, bf, s, k) == holds(queueOf(j, qf), budgetOf(j, bf), owedBy(j), paidBy(j), s, k)

Told ==
    /\ \A h \in Hooks : Running(h) => tale(job[h], queueFile, budgetFile, shown, cut)
    /\ (\A h \in Hooks : ~ Running(h)) => tale(NoJob, queueFile, budgetFile, shown, cut)

Solo == ~ count.raced => \A g, h \in Hooks : (Running(g) /\ Running(h)) => g = h

HInv == QInv /\ Solo /\ (Undisturbed => Told)

\* A hook that is not running holds the files as they are.
LEMMA IdleTale ==
    ASSUME NEW j, j.pc = "idle", NEW qf, NEW bf, NEW s, NEW k
    PROVE  tale(j, qf, bf, s, k) <=> holds(qf, bf, NoRemark, 0, s, k)
BY DEF tale, queueOf, budgetOf, owedBy, paidBy

\* Nothing was shown, queued or counted yet.
LEMMA NothingTold == holds(<<>>, NoBudget, NoRemark, 0, <<>>, {})
<1>1. /\ <<>> \in Queue /\ NoBudget \in Budget /\ <<>> \in Seq(Remark)
      /\ NoBudget.visibleCount = 0 /\ MaxVisible \in Nat
      /\ DOMAIN <<>> = {} /\ Len(<<>>) = 0
  BY AdvisorAssumption DEF Queue, NoBudget, Budget
<1>2. NoRemark.kind = "none"
  BY DEF NoRemark
<1>3. quiet(NoBudget, NoRemark, 0, <<>>)
  BY <1>1, <1>2 DEF quiet, spaced
<1>4. tells(<<>>, NoBudget, NoRemark, <<>>, {})
  BY <1>1, <1>2 DEF tells
<1> QED BY <1>1, <1>3, <1>4 DEF holds

\* The first state tells nothing.
LEMMA InitHInv == ASSUME Init PROVE HInv
<1>1. /\ queueFile = <<>> /\ budgetFile = NoBudget /\ shown = <<>> /\ cut = {}
      /\ job = [h \in Hooks |-> NoJob]
  BY DEF Init
<1>2. \A h \in Hooks : ~ Running(h)
  BY <1>1, NoJobType DEF Running
<1>3. tale(NoJob, queueFile, budgetFile, shown, cut)
  BY <1>1, NothingTold, IdleTale, NoJobType
<1> QED BY <1>2, <1>3, InitQInv DEF HInv, Solo, Told

\* The hook that makes an undisturbed step has the tale to itself.
LEMMA BeforeStep ==
    ASSUME HInv, Undisturbed, NEW h \in Hooks,
           Running(h) \/ \A g \in Hooks : ~ Running(g)
    PROVE  tale(job[h], queueFile, budgetFile, shown, cut)
<1>1. CASE Running(h)
  BY <1>1 DEF HInv, Told
<1>2. CASE \A g \in Hooks : ~ Running(g)
  <2>1. holds(queueFile, budgetFile, NoRemark, 0, shown, cut)
    BY <1>2, IdleTale, NoJobType DEF HInv, Told
  <2>2. job[h].pc = "idle"
    BY <1>2 DEF Running
  <2> QED BY <2>1, <2>2, IdleTale
<1> QED BY <1>1, <1>2

\* A step of one hook, seen from its job.
LEMMA AfterStep ==
    ASSUME QInv, Solo, NEW h \in Hooks, NEW new, job' = [job EXCEPT ![h] = new],
           ~ count'.raced =>
              (~ count.raced /\ (Running(h) \/ \A g \in Hooks : ~ Running(g))),
           Undisturbed' => tale(new, queueFile', budgetFile', shown', cut')
    PROVE  Solo' /\ (Undisturbed' => Told')
<1>1. job'[h] = new /\ \A g \in Hooks : g # h => job'[g] = job[g]
  BY DEF QInv, TypeOK
<1>2. ~ count'.raced => \A g \in Hooks : g # h => ~ Running(g)'
  BY <1>1 DEF Solo, Running
<1>3. Solo'
  BY <1>2 DEF Solo
<1>4. ASSUME Undisturbed' PROVE Told'
  <2>1. \A g \in Hooks : g # h => ~ Running(g)'
    BY <1>2, <1>4 DEF Undisturbed
  <2>2. \A g \in Hooks : Running(g)' => tale(job'[g], queueFile', budgetFile', shown', cut')
    BY <1>1, <1>4, <2>1
  <2>3. ASSUME \A g \in Hooks : ~ Running(g)'
        PROVE  tale(NoJob, queueFile', budgetFile', shown', cut')
    <3>1. new.pc = "idle"
      BY <1>1, <2>3 DEF Running
    <3> QED BY <1>4, <3>1, IdleTale, NoJobType
  <2> QED BY <2>2, <2>3 DEF Told
<1> QED BY <1>3, <1>4

\* Steps of a hook that is running already.
LEMMA RunningStep ==
    ASSUME HInv, NEW h \in Hooks, job[h].pc # "idle", NEW new,
           job' = [job EXCEPT ![h] = new], count' = count,
           (Undisturbed /\ tale(job[h], queueFile, budgetFile, shown, cut))
              => tale(new, queueFile', budgetFile', shown', cut')
    PROVE  Solo' /\ (Undisturbed' => Told')
<1>1. Running(h)
  BY DEF Running
<1>2. Undisturbed' => Undisturbed
  BY DEF Undisturbed
<1>3. Undisturbed' => tale(new, queueFile', budgetFile', shown', cut')
  BY <1>1, <1>2, BeforeStep
<1> QED BY <1>1, <1>3, AfterStep DEF HInv

\* Steps of a hook that starts.
LEMMA StartingStep ==
    ASSUME HInv, NEW h \in Hooks, Begin(h), NEW new,
           job' = [job EXCEPT ![h] = new],
           holds(queueFile, budgetFile, NoRemark, 0, shown, cut)
              => tale(new, queueFile', budgetFile', shown', cut')
    PROVE  Solo' /\ (Undisturbed' => Told')
<1>1. /\ count.raced \in BOOLEAN
      /\ count \in [starts : 0..MaxStarts, crashes : 0..MaxCrashes, raced : BOOLEAN]
  BY DEF HInv, QInv, TypeOK
<1>2. /\ count'.raced = (count.raced \/ \E o \in Hooks : Running(o))
      /\ count'.crashes = count.crashes
  BY <1>1 DEF Begin
<1>3. ~ count'.raced => (~ count.raced /\ \A g \in Hooks : ~ Running(g))
  BY <1>2
<1>4. Undisturbed' => tale(new, queueFile', budgetFile', shown', cut')
  <2>1. SUFFICES ASSUME Undisturbed' PROVE tale(new, queueFile', budgetFile', shown', cut')
    OBVIOUS
  <2>2. Undisturbed /\ \A g \in Hooks : ~ Running(g)
    BY <1>2, <1>3, <2>1 DEF Undisturbed
  <2>3. tale(job[h], queueFile, budgetFile, shown, cut) /\ job[h].pc = "idle"
    BY <2>2, BeforeStep DEF Running
  <2>4. holds(queueFile, budgetFile, NoRemark, 0, shown, cut)
    BY <2>3, IdleTale
  <2> QED BY <2>4
<1> QED BY <1>3, <1>4, AfterStep DEF HInv

\* A file that holds what it should is read as it is.
LEMMA ReadsQueue == queueFile \in Queue => readQueue = queueFile
BY TornAssumption DEF readQueue

LEMMA ReadsBudget == budgetFile \in Budget => readBudget = budgetFile
BY TornAssumption DEF readBudget

\* Now the actions again, for the tale of the hook that is alone.
LEMMA PostActionTold ==
    ASSUME HInv, NEW h \in Hooks, PostAction(h)
    PROVE  Solo' /\ (Undisturbed' => Told')
<1> DEFINE read == scavengeExpired(readQueue, now)
<1>1. PICK first \in Ids, second \in Ids : posts(h, read, addedTo(read, first, second))
  BY PostActionIs DEF HInv
<1> DEFINE w == addedTo(read, first, second)
           new == postJob(read, w)
<1>2. /\ job' = [job EXCEPT ![h] = new] /\ cut' = cut \cup goneFrom(w)
      /\ queueFile' = queueFile /\ budgetFile' = budgetFile /\ shown' = shown
      /\ Begin(h)
  BY <1>1 DEF posts, PostAction, files
<1>3. now \in Nat /\ Good(readQueue, now)
  BY QTypes DEF HInv
<1>4. Good(read, now)
  BY <1>3, ScavengeGood
<1>5. ASSUME holds(queueFile, budgetFile, NoRemark, 0, shown, cut)
      PROVE  tale(new, queueFile, budgetFile, shown, cut \cup goneFrom(w))
  <2>1. /\ readQueue = queueFile /\ shown \in Seq(Remark)
        /\ tells(readQueue, budgetFile, NoRemark, shown, cut)
        /\ quiet(budgetFile, NoRemark, 0, shown) /\ budgetFile \in Budget
        /\ queueFile \in Queue
    BY <1>5, ReadsQueue DEF holds
  <2>2. tells(enforceCap(w), budgetFile, NoRemark, shown, cut \cup goneFrom(w))
    BY <1>3, <2>1, TellsPosted
  <2>3. tells(queueFile, budgetFile, NoRemark, shown, cut \cup goneFrom(w))
    BY <2>1, TellsMoreCut
  <2> HIDE DEF read
  <2>4. Good(w, now)
    BY <1>3, <1>4, AddedIs
  <2> HIDE DEF w
  <2>5. enforceCap(w) \in Queue
    BY <1>3, <2>4, CapIs DEF Good
  <2>6. CASE Len(w) = Len(read)
    <3>1. new = NoJob
      BY <1>3, <2>4, <2>6, PostJobIs
    <3>2. holds(queueFile, budgetFile, NoRemark, 0, shown, cut \cup goneFrom(w))
      BY <2>1, <2>3 DEF holds
    <3> QED BY <3>1, <3>2, IdleTale, NoJobType
  <2>7. CASE Len(w) # Len(read)
    <3>1. new.pc = "emptyQueue" /\ new.post /\ new.queue = enforceCap(w)
      BY <1>3, <2>4, <2>7, PostJobIs
    <3>2. holds(enforceCap(w), budgetFile, NoRemark, 0, shown, cut \cup goneFrom(w))
      BY <2>1, <2>2, <2>5 DEF holds
    <3> HIDE DEF new
    <3> QED BY <3>1, <3>2 DEF tale, queueOf, budgetOf, owedBy, paidBy
  <2> QED BY <2>6, <2>7
<1> HIDE DEF new, w, read
<1> QED BY <1>2, <1>5, StartingStep

LEMMA AmbientTold ==
    ASSUME HInv, NEW h \in Hooks, Ambient(h)
    PROVE  Solo' /\ (Undisturbed' => Told')
<1> DEFINE q == readQueue
           new == IF oldestPending(q) = 0 THEN promptJob ELSE itemJob(q)
<1>1. /\ job' = [job EXCEPT ![h] = new] /\ cut' = cut /\ Begin(h)
      /\ queueFile' = queueFile /\ budgetFile' = budgetFile /\ shown' = shown
  BY AmbientIs DEF Ambient, files
<1>2. Good(q, now) /\ q \in Queue
  BY QTypes DEF HInv
<1>3. ASSUME holds(queueFile, budgetFile, NoRemark, 0, shown, cut)
      PROVE  tale(new, queueFile, budgetFile, shown, cut)
  <2>1. /\ q = queueFile /\ shown \in Seq(Remark)
        /\ tells(q, budgetFile, NoRemark, shown, cut)
        /\ quiet(budgetFile, NoRemark, 0, shown) /\ budgetFile \in Budget
    BY <1>3, ReadsQueue DEF holds
  <2>2. CASE oldestPending(q) = 0
    <3>1. new = promptJob
      BY <2>2
    <3> HIDE DEF new
    <3> QED BY <1>3, <3>1, PromptJobIs DEF tale, queueOf, budgetOf, owedBy, paidBy
  <2>3. CASE oldestPending(q) # 0
    <3> DEFINE i == oldestPending(q)
    <3>1. /\ new.pc = "emptyQueue" /\ ~ new.post /\ new.queue = promoteOldestPending(q)
          /\ new.remark = itemRemark(q[i]) /\ new.remark \in Remark
      BY <1>2, <2>3, ItemJobIs DEF itemRemark
    <3>2. tells(promoteOldestPending(q), budgetFile, itemRemark(q[i]), shown, cut)
      BY <1>2, <2>1, <2>3, TellsPromoted
    <3>3. promoteOldestPending(q) \in Queue /\ q[i] \in Item
      BY <1>2, <2>3, PromoteIs, QueuePlaces
    <3>4. itemRemark(q[i]).kind # "prompt"
      BY <3>3, ItemRemarkIs
    <3>5. quiet(budgetFile, itemRemark(q[i]), 0, shown)
      BY <2>1, <3>4, QuietOther
    <3> HIDE DEF new, q, i
    <3>6. holds(new.queue, budgetFile, new.remark, 0, shown, cut)
      BY <2>1, <3>1, <3>2, <3>3, <3>5 DEF holds
    <3> QED BY <3>1, <3>6 DEF tale, queueOf, budgetOf, owedBy, paidBy
  <2> QED BY <2>2, <2>3
<1> HIDE DEF new
<1> QED BY <1>1, <1>3, StartingStep

LEMMA EmptyQueueFileTold ==
    ASSUME HInv, NEW h \in Hooks, EmptyQueueFile(h)
    PROVE  Solo' /\ (Undisturbed' => Told')
<1> DEFINE new == [job[h] EXCEPT !.pc = "fillQueue"]
<1>1. /\ job[h].pc = "emptyQueue" /\ job' = [job EXCEPT ![h] = new]
      /\ budgetFile' = budgetFile /\ shown' = shown /\ cut' = cut /\ count' = count
  BY DEF EmptyQueueFile, Go
<1>2. /\ new.pc = "fillQueue" /\ new.post = job[h].post
      /\ new.queue = job[h].queue /\ new.remark = job[h].remark
  BY QTypes, JobGoes DEF PCs, HInv
<1> HIDE DEF new
<1>3. tale(job[h], queueFile, budgetFile, shown, cut)
         => tale(new, queueFile', budgetFile', shown', cut')
  BY <1>1, <1>2 DEF tale, queueOf, budgetOf, owedBy, paidBy
<1> QED BY <1>1, <1>3, RunningStep

LEMMA FillQueueFileTold ==
    ASSUME HInv, NEW h \in Hooks, FillQueueFile(h)
    PROVE  Solo' /\ (Undisturbed' => Told')
<1> DEFINE next == [job[h] EXCEPT !.pc = "budget", !.queue = <<>>]
           new == IF job[h].post THEN NoJob ELSE next
<1>1. /\ job[h].pc = "fillQueue" /\ job' = [job EXCEPT ![h] = new]
      /\ queueFile' = job[h].queue \/ count.raced
      /\ budgetFile' = budgetFile /\ shown' = shown /\ cut' = cut /\ count' = count
  BY DEF FillQueueFile, filled, Exit
<1>2. job[h] \in Job
  BY QTypes DEF HInv
<1>3. next.pc = "budget" /\ next.remark = job[h].remark /\ next.post = job[h].post
  BY <1>2 DEF Job
<1>4. /\ job[h].post => new.pc = "idle"
      /\ ~ job[h].post => /\ new.pc = "budget" /\ ~ new.post
                          /\ new.remark = job[h].remark
  BY <1>3, NoJobType
<1> HIDE DEF next, new
<1>5. (Undisturbed /\ tale(job[h], queueFile, budgetFile, shown, cut))
         => tale(new, queueFile', budgetFile', shown', cut')
  BY <1>1, <1>4 DEF Undisturbed, tale, queueOf, budgetOf, owedBy, paidBy
<1> QED BY <1>1, <1>5, RunningStep

LEMMA CheckBudgetTold ==
    ASSUME HInv, NEW h \in Hooks, CheckBudget(h)
    PROVE  Solo' /\ (Undisturbed' => Told')
<1> DEFINE j == job[h]
           counted == withOneMore(readBudget)
           showing == [j EXCEPT !.pc = "emptyBudget", !.budget = counted]
           silent == [j EXCEPT !.pc = "classify", !.remark = NoRemark]
           new == IF withinCap(readBudget) THEN showing ELSE silent
<1>1. /\ j.pc = "budget" /\ job' = [job EXCEPT ![h] = new]
      /\ queueFile' = queueFile /\ budgetFile' = budgetFile
      /\ shown' = shown /\ cut' = cut /\ count' = count
  BY DEF CheckBudget, files
<1>2. j \in Job /\ readBudget \in Budget
  BY QTypes DEF HInv
<1>3. /\ counted \in Budget /\ counted.visibleCount = readBudget.visibleCount + 1
  BY <1>2, OneMoreIs
<1>4. /\ showing.pc = "emptyBudget" /\ showing.budget = counted /\ showing.remark = j.remark
      /\ silent.pc = "classify"
  BY <1>2 DEF Job
<1> HIDE DEF showing, silent
<1>5. ASSUME tale(j, queueFile, budgetFile, shown, cut)
      PROVE  tale(new, queueFile, budgetFile, shown, cut)
  <2>1. holds(queueFile, budgetFile, j.remark, 0, shown, cut)
    BY <1>1, <1>5 DEF tale, queueOf, budgetOf, owedBy, paidBy
  <2>2. /\ readBudget = budgetFile /\ queueFile \in Queue /\ shown \in Seq(Remark)
        /\ quiet(budgetFile, j.remark, 0, shown)
        /\ tells(queueFile, budgetFile, j.remark, shown, cut)
        /\ j.remark \in Remark \cup {NoRemark}
    BY <2>1, ReadsBudget DEF holds
  <2>3. CASE withinCap(readBudget)
    <3>1. quiet(counted, j.remark, 1, shown)
      BY <1>2, <2>2, <2>3, QuietPaid
    <3> HIDE DEF counted
    <3>2. tells(queueFile, counted, j.remark, shown, cut)
      BY <1>2, <1>3, <2>2, TellsCounted
    <3>3. holds(queueFile, counted, j.remark, 1, shown, cut)
      BY <1>3, <2>2, <3>1, <3>2 DEF holds
    <3>4. new = showing
      BY <2>3
    <3> QED BY <1>4, <3>3, <3>4 DEF tale, queueOf, budgetOf, owedBy, paidBy
  <2>4. CASE ~ withinCap(readBudget)
    <3>1. tells(queueFile, budgetFile, NoRemark, shown, cut)
      BY <2>2, <2>4, TellsGivenUp
    <3>2. quiet(budgetFile, NoRemark, 0, shown)
      BY <2>2, QuietOther DEF NoRemark
    <3>3. holds(queueFile, budgetFile, NoRemark, 0, shown, cut)
      BY <1>2, <2>2, <3>1, <3>2 DEF holds
    <3>4. new = silent
      BY <2>4
    <3> QED BY <1>4, <3>3, <3>4 DEF tale, queueOf, budgetOf, owedBy, paidBy
  <2> QED BY <2>3, <2>4
<1> HIDE DEF new
<1> QED BY <1>1, <1>5, RunningStep

LEMMA ClassifyPromptTold ==
    ASSUME HInv, NEW h \in Hooks, ClassifyPrompt(h)
    PROVE  Solo' /\ (Undisturbed' => Told')
<1>1. /\ job[h].pc = "classify"
      /\ queueFile' = queueFile /\ budgetFile' = budgetFile
      /\ shown' = shown /\ cut' = cut /\ count' = count
  BY DEF ClassifyPrompt, files
<1>2. tale(job[h], queueFile, budgetFile, shown, cut)
         => holds(queueFile, budgetFile, NoRemark, 0, shown, cut)
  BY <1>1 DEF tale, queueOf, budgetOf, owedBy, paidBy
<1>3. CASE job' = [job EXCEPT ![h] = NoJob]
  <2>1. tale(job[h], queueFile, budgetFile, shown, cut)
           => tale(NoJob, queueFile', budgetFile', shown', cut')
    BY <1>1, <1>2, IdleTale, NoJobType
  <2> QED BY <1>1, <1>3, <2>1, RunningStep
<1>4. ASSUME NEW key \in Keys, shouldSurface(readBudget, key),
             job' = [job EXCEPT ![h] = saying(job[h], key, promptBudget(readBudget, key))]
      PROVE  Solo' /\ (Undisturbed' => Told')
  <2> DEFINE b == promptBudget(readBudget, key)
             r == [kind |-> "prompt", id |-> key, at |-> now]
             j == job[h]
             new == saying(j, key, b)
  <2>1. now \in Nat /\ j \in Job /\ readBudget \in Budget
    BY QTypes DEF HInv
  <2>2. b \in Budget /\ b.visibleCount = readBudget.visibleCount + 1
    BY <2>1, PromptBudgetIs
  <2>3. r.kind = "prompt"
    OBVIOUS
  <2>4. job' = [job EXCEPT ![h] = new]
    BY <1>4
  <2>5. /\ new.pc = "emptyBudget" /\ new.budget = b
        /\ new.remark = r /\ new.remark \in Remark
    <3> HIDE DEF b, j
    <3> QED BY <2>1, <2>2, SayingIs
  <2> HIDE DEF new
  <2>6. ASSUME tale(j, queueFile, budgetFile, shown, cut)
        PROVE  tale(new, queueFile', budgetFile', shown', cut')
    <3>1. holds(queueFile, budgetFile, NoRemark, 0, shown, cut)
      BY <1>2, <2>6
    <3>2. /\ readBudget = budgetFile /\ queueFile \in Queue /\ shown \in Seq(Remark)
          /\ quiet(readBudget, NoRemark, 0, shown)
          /\ tells(queueFile, readBudget, NoRemark, shown, cut)
      BY <3>1, ReadsBudget DEF holds
    <3>3. quiet(b, r, 1, shown)
      BY <1>4, <2>1, <3>2, QuietPrompt
    <3> HIDE DEF b, r
    <3>4. tells(queueFile, b, NoRemark, shown, cut)
      BY <2>1, <2>2, <3>2, TellsCounted
    <3>5. tells(queueFile, b, r, shown, cut)
      BY <2>2, <2>3, <3>2, <3>4, TellsPrompt DEF NoRemark
    <3>6. holds(queueFile, b, r, 1, shown, cut)
      BY <2>2, <2>5, <3>2, <3>3, <3>5 DEF holds
    <3> QED BY <1>1, <2>5, <3>6 DEF tale, queueOf, budgetOf, owedBy, paidBy
  <2> HIDE DEF j
  <2> QED BY <1>1, <2>4, <2>6, RunningStep DEF j
<1> QED BY <1>3, <1>4, ClassifyIs

LEMMA EmptyBudgetFileTold ==
    ASSUME HInv, NEW h \in Hooks, EmptyBudgetFile(h)
    PROVE  Solo' /\ (Undisturbed' => Told')
<1> DEFINE new == [job[h] EXCEPT !.pc = "fillBudget"]
<1>1. /\ job[h].pc = "emptyBudget" /\ job' = [job EXCEPT ![h] = new]
      /\ queueFile' = queueFile /\ shown' = shown /\ cut' = cut /\ count' = count
  BY DEF EmptyBudgetFile, Go
<1>2. /\ new.pc = "fillBudget" /\ new.budget = job[h].budget /\ new.remark = job[h].remark
  BY QTypes, JobGoes DEF PCs, HInv
<1> HIDE DEF new
<1>3. tale(job[h], queueFile, budgetFile, shown, cut)
         => tale(new, queueFile', budgetFile', shown', cut')
  BY <1>1, <1>2 DEF tale, queueOf, budgetOf, owedBy, paidBy
<1> QED BY <1>1, <1>3, RunningStep

LEMMA FillBudgetFileTold ==
    ASSUME HInv, NEW h \in Hooks, FillBudgetFile(h)
    PROVE  Solo' /\ (Undisturbed' => Told')
<1> DEFINE new == [job[h] EXCEPT !.pc = "remark"]
<1>1. /\ job[h].pc = "fillBudget" /\ job' = [job EXCEPT ![h] = new]
      /\ budgetFile' = job[h].budget \/ count.raced
      /\ queueFile' = queueFile /\ shown' = shown /\ cut' = cut /\ count' = count
  BY DEF FillBudgetFile, filled, Go
<1>2. new.pc = "remark" /\ new.remark = job[h].remark
  BY QTypes, JobGoes DEF PCs, HInv
<1> HIDE DEF new
<1>3. (Undisturbed /\ tale(job[h], queueFile, budgetFile, shown, cut))
         => tale(new, queueFile', budgetFile', shown', cut')
  BY <1>1, <1>2 DEF Undisturbed, tale, queueOf, budgetOf, owedBy, paidBy
<1> QED BY <1>1, <1>3, RunningStep

LEMMA WriteToPromptTold ==
    ASSUME HInv, NEW h \in Hooks, WriteToPrompt(h)
    PROVE  Solo' /\ (Undisturbed' => Told')
<1> DEFINE r == job[h].remark
<1>1. /\ job[h].pc = "remark" /\ job' = [job EXCEPT ![h] = NoJob]
      /\ shown' = Append(shown, r)
      /\ queueFile' = queueFile /\ budgetFile' = budgetFile /\ cut' = cut /\ count' = count
  BY DEF WriteToPrompt, Exit, files
<1>2. r \in Remark
  BY <1>1 DEF HInv, QInv, Speaking
<1>3. ASSUME tale(job[h], queueFile, budgetFile, shown, cut)
      PROVE  tale(NoJob, queueFile', budgetFile', shown', cut')
  <2>1. holds(queueFile, budgetFile, r, 1, shown, cut)
    BY <1>1, <1>3 DEF tale, queueOf, budgetOf, owedBy, paidBy
  <2> HIDE DEF r
  <2>2. /\ queueFile \in Queue /\ budgetFile \in Budget /\ shown \in Seq(Remark)
        /\ quiet(budgetFile, r, 1, shown) /\ tells(queueFile, budgetFile, r, shown, cut)
    BY <2>1 DEF holds
  <2>3. quiet(budgetFile, NoRemark, 0, Append(shown, r))
    BY <1>2, <2>2, QuietSaid
  <2>4. tells(queueFile, budgetFile, NoRemark, Append(shown, r), cut)
    BY <1>2, <2>2, TellsSaid
  <2>5. Append(shown, r) \in Seq(Remark)
    BY <1>2, <2>2, SayIs
  <2>6. holds(queueFile, budgetFile, NoRemark, 0, Append(shown, r), cut)
    BY <2>2, <2>3, <2>4, <2>5 DEF holds
  <2> QED BY <1>1, <2>6, IdleTale, NoJobType
<1> HIDE DEF r
<1> QED BY <1>1, <1>3, RunningStep

\* A crash disturbs, and nothing is said of what comes after.
LEMMA CrashTold ==
    ASSUME HInv, NEW h \in Hooks, Crash(h)
    PROVE  Solo' /\ (Undisturbed' => Told')
<1>1. /\ job' = [job EXCEPT ![h] = NoJob] /\ Running(h)
      /\ count' = [count EXCEPT !.crashes = count.crashes + 1]
  BY DEF Crash, Exit
<1>2. /\ count.crashes \in Nat
      /\ count \in [starts : 0..MaxStarts, crashes : 0..MaxCrashes, raced : BOOLEAN]
  BY AdvisorAssumption DEF HInv, QInv, TypeOK
<1>3. count'.raced = count.raced /\ count'.crashes = count.crashes + 1
  BY <1>1, <1>2
<1>4. ~ Undisturbed'
  BY <1>2, <1>3 DEF Undisturbed
<1> QED BY <1>1, <1>3, <1>4, AfterStep DEF HInv

\* Every step keeps HInv.
LEMMA NextHInv == ASSUME HInv, [Next]_vars PROVE HInv'
<1>1. QInv'
  BY NextQInv DEF HInv
<1>2. CASE UNCHANGED vars \/ Tick
  <2>1. /\ queueFile' = queueFile /\ budgetFile' = budgetFile /\ job' = job
        /\ shown' = shown /\ cut' = cut /\ count' = count
    BY <1>2 DEF vars, Tick, files
  <2>2. Solo' /\ (Undisturbed' => Told')
    BY <2>1 DEF HInv, Solo, Undisturbed, Told, Running
  <2> QED BY <1>1, <2>2 DEF HInv
<1>3. ASSUME NEW h \in Hooks,
             \/ PostAction(h) \/ Ambient(h)
             \/ EmptyQueueFile(h) \/ FillQueueFile(h)
             \/ CheckBudget(h) \/ ClassifyPrompt(h)
             \/ EmptyBudgetFile(h) \/ FillBudgetFile(h) \/ WriteToPrompt(h)
             \/ Crash(h)
      PROVE  HInv'
  <2>1. Solo' /\ (Undisturbed' => Told')
    BY <1>3, PostActionTold, AmbientTold, EmptyQueueFileTold, FillQueueFileTold,
       CheckBudgetTold, ClassifyPromptTold, EmptyBudgetFileTold, FillBudgetFileTold,
       WriteToPromptTold, CrashTold
  <2> QED BY <1>1, <2>1 DEF HInv
<1> QED BY <1>2, <1>3 DEF Next

\* As long as nothing disturbed the hooks, the files tell what was shown.
LEMMA AlwaysHInv == Spec => []HInv
<1>1. Init => HInv
  BY InitHInv
<1>2. HInv /\ [Next]_vars => HInv'
  BY NextHInv
<1> QED BY <1>1, <1>2, PTL DEF Spec

\* An undisturbed state has a budget that knows of all that was shown.
LEMMA QuietSomewhere ==
    ASSUME HInv, Undisturbed
    PROVE  \E b \in Budget : \E r : \E c \in {0, 1} : quiet(b, r, c, shown)
<1>1. ASSUME NEW j, tale(j, queueFile, budgetFile, shown, cut)
      PROVE  \E b \in Budget : \E r : \E c \in {0, 1} : quiet(b, r, c, shown)
  BY <1>1 DEF tale, holds, paidBy
<1>2. CASE \E h \in Hooks : Running(h)
  BY <1>1, <1>2 DEF HInv, Told
<1>3. CASE \A h \in Hooks : ~ Running(h)
  BY <1>1, <1>3 DEF HInv, Told
<1> QED BY <1>2, <1>3

(***************************************************************************)
(* max_visible_per_session and suppress_same_key_minutes of the ambient    *)
(* hook: as long as no two hooks overlapped and none died, no more is      *)
(* shown than the cap, and no prompt's key again too soon.                 *)
(***************************************************************************)
THEOREM NoiseIsBudgeted == Spec => []NoiseStaysWithinBudget
<1>1. HInv => NoiseStaysWithinBudget
  <2> SUFFICES ASSUME HInv, Undisturbed
               PROVE  /\ Len(shown) <= MaxVisible
                      /\ spaced(shown)
    BY DEF NoiseStaysWithinBudget, spaced
  <2>1. PICK b \in Budget : \E r : \E c \in {0, 1} : quiet(b, r, c, shown)
    BY QuietSomewhere
  <2>2. PICK c \in {0, 1} : \E r : quiet(b, r, c, shown)
    BY <2>1
  <2>3. Len(shown) + c <= b.visibleCount /\ b.visibleCount <= MaxVisible /\ spaced(shown)
    BY <2>2 DEF quiet
  <2>4. Len(shown) \in Nat /\ b.visibleCount \in Nat /\ MaxVisible \in Nat
    BY AdvisorAssumption, Rest DEF HInv, Budget
  <2> QED BY <2>2, <2>3, <2>4
<1> QED BY <1>1, AlwaysHInv, PTL

\* How often an item was shown.
LEMMA OneAtMost ==
    ASSUME NEW S, \A m, n \in S : m = n
    PROVE  Cardinality(S) <= 1
<1>1. CASE S = {}
  BY <1>1, FS_EmptySet
<1>2. CASE S # {}
  <2>1. PICK n \in S : TRUE
    BY <1>2
  <2>2. S = {n}
    BY <2>1
  <2>3. Cardinality({n}) = 1
    BY FS_Singleton
  <2> QED BY <2>2, <2>3
<1> QED BY <1>1, <1>2

(***************************************************************************)
(* As long as no two hooks overlapped and none died, and between two of    *)
(* them: what promoteOldestPending marked surfaced was shown, unless the   *)
(* cap was reached, nothing was shown twice, and what is pending was not   *)
(* shown; items that the cap dropped and a hook queued again aside.        *)
(***************************************************************************)
THEOREM SurfacedWereShown == Spec => []SurfacedItemsWereShown
<1>1. HInv => SurfacedItemsWereShown
  <2> SUFFICES ASSUME HInv, Undisturbed, \A h \in Hooks : ~ Running(h),
                      NEW i \in DOMAIN readQueue
               PROVE  LET item  == readQueue[i]
                          again == [id |-> item.id, createdAt |-> item.createdAt] \in cut
                          times == {n \in DOMAIN shown : /\ shown[n].kind = "item"
                                                         /\ shown[n].id = item.id
                                                         /\ shown[n].at = item.createdAt}
                      IN  /\ ~again => Cardinality(times) <= 1
                          /\ (~again /\ item.status = "pending") => times = {}
                          /\ item.status = "surfaced" => times # {} \/ ~withinCap(readBudget)
    BY DEF SurfacedItemsWereShown
  <2> DEFINE item == readQueue[i]
             again == [id |-> item.id, createdAt |-> item.createdAt] \in cut
             times == {n \in DOMAIN shown : /\ shown[n].kind = "item"
                                            /\ shown[n].id = item.id
                                            /\ shown[n].at = item.createdAt}
  <2>1. holds(queueFile, budgetFile, NoRemark, 0, shown, cut)
    BY IdleTale, NoJobType DEF HInv, Told
  <2>2. /\ readQueue = queueFile /\ readBudget = budgetFile /\ shown \in Seq(Remark)
        /\ tells(readQueue, readBudget, NoRemark, shown, cut)
    BY <2>1, ReadsQueue, ReadsBudget DEF holds
  <2>3. Good(readQueue, now) /\ item \in Item
    BY QTypes, QueuePlaces DEF HInv
  <2>4. /\ itemRemark(item).kind = "item" /\ itemRemark(item).id = item.id
        /\ itemRemark(item).at = item.createdAt
        /\ again <=> cutOf(itemRemark(item)) \in cut
    BY <2>3, ItemRemarkIs
  <2>5. ASSUME NEW n \in DOMAIN shown
        PROVE  n \in times <=> shown[n] = itemRemark(item)
    <3>1. shown[n] \in Remark
      BY <2>2, ShownPlaces
    <3>2. n \in times <=> (/\ shown[n].kind = "item" /\ shown[n].id = item.id
                           /\ shown[n].at = item.createdAt)
      OBVIOUS
    <3> HIDE DEF item, times
    <3> QED BY <2>3, <2>4, <3>1, <3>2, SameRemark
  <2>6. \A n \in times : n \in DOMAIN shown /\ shown[n] = itemRemark(item)
    BY <2>5
  <2>7. itemRemark(item) # NoRemark
    BY <2>4 DEF NoRemark
  <2> HIDE DEF times
  <2>8. ASSUME ~ again PROVE Cardinality(times) <= 1
    <3>1. \A m, n \in times : m = n
      BY <2>2, <2>4, <2>6, <2>8 DEF tells
    <3> QED BY <3>1, OneAtMost
  <2>9. ASSUME ~ again, item.status = "pending" PROVE times = {}
    <3> SUFFICES ASSUME NEW n \in times PROVE FALSE
      OBVIOUS
    <3>1. n \in DOMAIN shown /\ shown[n] = itemRemark(item)
      BY <2>6
    <3>2. isPending(item)
      BY <2>9 DEF isPending
    <3>3. cutOf(shown[n]) \in cut
      BY <2>2, <2>3, <3>1, <3>2, PendingIsNews
    <3> QED BY <2>4, <2>9, <3>1, <3>3
  <2>10. ASSUME item.status = "surfaced" PROVE times # {} \/ ~withinCap(readBudget)
    <3>1. \/ \E n \in DOMAIN shown : shown[n] = itemRemark(item)
          \/ ~ withinCap(readBudget)
      BY <2>2, <2>7, <2>10 DEF tells
    <3> QED BY <2>5, <3>1
  <2> QED BY <2>8, <2>9, <2>10 DEF times
<1> QED BY <1>1, AlwaysHInv, PTL

=============================================================================
