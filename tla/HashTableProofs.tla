-------------------------- MODULE HashTableProofs ---------------------------
(***************************************************************************)
(* Proofs about HashTable, for every set of index values, blocks and       *)
(* addresses and every number of lists.                                    *)
(***************************************************************************)
EXTENDS HashTable, FiniteSetTheorems, WellFoundedInduction, TLAPS

-----------------------------------------------------------------------------
(***************************************************************************)
(* Walks                                                                   *)
(***************************************************************************)

\* A set of numbers that is not empty has a least one.
LEMMA LeastNumber ==
  ASSUME NEW T, T \subseteq Nat, T # {}
  PROVE  \E x \in T : \A y \in T : x <= y
<1> DEFINE R == OpToRel(<, Nat)
<1>1. IsWellFoundedOn(R, Nat)
  BY NatLessThanWellFounded
<1>2. \A x, y \in Nat : <<y, x>> \in R <=> y < x
  BY DEF OpToRel
<1> HIDE DEF R
<1>3. PICK x \in T : \A y \in T : ~ (<<y, x>> \in R)
  BY <1>1, WFMin
<1>4. \A y \in T : ~ (y < x)
  BY <1>2, <1>3
<1> QED BY <1>3, <1>4

\* The address after a.
After(succ, a) == IF a = NULL THEN NULL ELSE succ[a]

\* g is the beginning of a walk, up to turn k.
Begins(first, succ, g, k) ==
  /\ g[0] = first
  /\ \A n \in 0..(k - 1) : g[n + 1] = After(succ, g[n])

\* A walk can be carried on to any turn.
LEMMA BeginningExists ==
  ASSUME NEW first, NEW succ
  PROVE  \A k \in Nat : \E g : Begins(first, succ, g, k)
<1> DEFINE Bad == {k \in Nat : ~ \E g : Begins(first, succ, g, k)}
<1> SUFFICES ASSUME Bad # {} PROVE FALSE
  OBVIOUS
<1>1. PICK k \in Bad : \A j \in Bad : k <= j
  BY LeastNumber
<1>2. CASE k = 0
  <2>1. Begins(first, succ, [n \in {0} |-> first], 0)
    BY DEF Begins
  <2> QED BY <1>1, <1>2, <2>1
<1>3. CASE k # 0
  <2>1. k - 1 \in Nat /\ k - 1 \notin Bad
    BY <1>1, <1>3
  <2>2. PICK g : Begins(first, succ, g, k - 1)
    BY <2>1
  <2> DEFINE h == [n \in 0..k |-> IF n = k THEN After(succ, g[k - 1]) ELSE g[n]]
  <2>3. h[0] = g[0] /\ h[0] = first
    BY <1>1, <1>3, <2>2 DEF Begins
  <2>4. ASSUME NEW n \in 0..(k - 1) PROVE h[n + 1] = After(succ, h[n])
    <3>1. h[n] = g[n]
      BY <1>1, <2>4
    <3>2. CASE n = k - 1
      BY <1>1, <3>1, <3>2
    <3>3. CASE n # k - 1
      <4>1. n \in 0..(k - 1 - 1) /\ n + 1 \in 0..k /\ n + 1 # k
        BY <1>1, <3>3
      <4>2. g[n + 1] = After(succ, g[n])
        BY <2>2, <4>1 DEF Begins
      <4> QED BY <3>1, <4>1, <4>2
    <3> QED BY <3>2, <3>3
  <2>5. Begins(first, succ, h, k)
    <3> HIDE DEF h
    <3> QED BY <2>3, <2>4 DEF Begins
  <2> QED BY <1>1, <2>5
<1> QED BY <1>2, <1>3

\* Two walks from the same entry pass the same.
LEMMA BeginningUnique ==
  ASSUME NEW first, NEW succ, NEW g, NEW h, NEW j \in Nat, NEW k \in Nat,
         Begins(first, succ, g, j), Begins(first, succ, h, k), j <= k
  PROVE  \A n \in 0..j : g[n] = h[n]
<1> DEFINE Bad == {n \in 0..j : g[n] # h[n]}
<1> SUFFICES ASSUME Bad # {} PROVE FALSE
  OBVIOUS
<1>a. Bad \subseteq Nat
  OBVIOUS
<1>1. PICK n \in Bad : \A m \in Bad : n <= m
  <2> HIDE DEF Bad
  <2> QED BY <1>a, LeastNumber
<1>2. CASE n = 0
  BY <1>1, <1>2 DEF Begins
<1>3. CASE n # 0
  <2>1. n - 1 \in 0..(j - 1) /\ n - 1 \in 0..(k - 1) /\ n - 1 \in 0..j /\ n - 1 \notin Bad
    BY <1>1, <1>3
  <2>2. g[n - 1] = h[n - 1]
    BY <2>1
  <2>3. g[(n - 1) + 1] = After(succ, g[n - 1]) /\ h[(n - 1) + 1] = After(succ, h[n - 1])
    BY <2>1 DEF Begins
  <2>4. (n - 1) + 1 = n
    BY <1>1
  <2> QED BY <1>1, <2>2, <2>3, <2>4
<1> QED BY <1>2, <1>3

\* Walk is what its recursive definition says.
LEMMA WalkSteps ==
  ASSUME NEW first, NEW succ
  PROVE  /\ Walk(first, succ)[0] = first
         /\ \A n \in Nat :
              Walk(first, succ)[n + 1] = After(succ, Walk(first, succ)[n])
<1> DEFINE Defines(at) ==
      at = [n \in Nat |-> IF n = 0 THEN first
                          ELSE IF at[n - 1] = NULL THEN NULL ELSE succ[at[n - 1]]]
           G == [k \in Nat |-> CHOOSE g : Begins(first, succ, g, k)]
           w == [n \in Nat |-> G[n][n]]
<1>1. \A k \in Nat : Begins(first, succ, G[k], k)
  BY BeginningExists
<1>2. Defines(w)
  <2>1. w[0] = first
    BY <1>1 DEF Begins
  <2>2. ASSUME NEW n \in Nat \ {0} PROVE w[n] = After(succ, w[n - 1])
    <3>1. n - 1 \in Nat /\ n \in Nat /\ n - 1 <= n /\ n - 1 \in 0..(n - 1)
      OBVIOUS
    <3>2. Begins(first, succ, G[n - 1], n - 1) /\ Begins(first, succ, G[n], n)
      BY <1>1, <3>1
    <3>3. G[n - 1][n - 1] = G[n][n - 1]
      <4> HIDE DEF G
      <4> QED BY <3>1, <3>2, BeginningUnique
    <3>4. G[n][(n - 1) + 1] = After(succ, G[n][n - 1])
      <4> HIDE DEF G
      <4> QED BY <3>1, <3>2 DEF Begins
    <3>5. (n - 1) + 1 = n
      OBVIOUS
    <3> HIDE DEF G
    <3> QED BY <3>1, <3>3, <3>4, <3>5
  <2> HIDE DEF G
  <2>3. ASSUME NEW n \in Nat
        PROVE  w[n] = IF n = 0 THEN first
                      ELSE IF w[n - 1] = NULL THEN NULL ELSE succ[w[n - 1]]
    <3> HIDE DEF w
    <3> QED BY <2>1, <2>2 DEF After
  <2>4. w = [n \in Nat |-> w[n]]
    OBVIOUS
  <2> HIDE DEF w
  <2> QED BY <2>3, <2>4
<1>3. Walk(first, succ) = CHOOSE at : Defines(at)
  BY DEF Walk
<1>4. Defines(Walk(first, succ))
  <2>1. \E at : Defines(at)
    BY <1>2
  <2> HIDE DEF Defines
  <2> QED BY <2>1, <1>3
<1>5. ASSUME NEW n \in Nat
      PROVE  Walk(first, succ)[n] = IF n = 0 THEN first
                                    ELSE After(succ, Walk(first, succ)[n - 1])
  <2> DEFINE u == Walk(first, succ)
  <2>1. u = [m \in Nat |-> IF m = 0 THEN first
                          ELSE IF u[m - 1] = NULL THEN NULL ELSE succ[u[m - 1]]]
    BY <1>4
  <2> HIDE DEF u
  <2>2. u[n] = IF n = 0 THEN first ELSE After(succ, u[n - 1])
    BY <2>1 DEF After
  <2> QED BY <2>2 DEF u
<1>6. ASSUME NEW n \in Nat
      PROVE  Walk(first, succ)[n + 1] = After(succ, Walk(first, succ)[n])
  <2>1. n + 1 \in Nat /\ n + 1 # 0 /\ (n + 1) - 1 = n
    OBVIOUS
  <2> QED BY <1>5, <2>1
<1> QED BY <1>5, <1>6

-----------------------------------------------------------------------------
(***************************************************************************)
(* The lists of a sound table                                              *)
(***************************************************************************)

\* What the lemmas about a state of the table assume of it.
SoundTable == TypeOK /\ ListsSound /\ ready

OnList(b) == {a \in Live : HASH_VALUE(Index(a)) = b}

\* A hash value is the number of a list.
LEMMA HashInBins == \A k \in Keys : HASH_VALUE(k) \in Bins
  BY HashTableAssumption DEF HASH_VALUE, Bins

\* An allocated entry, and its fields.
LEMMA LiveEntry ==
  ASSUME TypeOK, NEW a \in Live
  PROVE  /\ a \in Addr /\ a # NULL /\ heap[a] # NULL /\ heap[a] \in HtEntry
         /\ Index(a) \in Keys /\ Index(a) \in Nat /\ heap[a].block \in Blocks
         /\ heap[a].prev \in Pointer /\ heap[a].next \in Pointer
         /\ HASH_VALUE(Index(a)) \in Bins
<1>1. a \in Addr /\ heap[a] # NULL /\ heap[a] \in HtEntry /\ a # NULL
  BY HashTableAssumption DEF TypeOK, Live
<1>2. Index(a) \in Keys
  BY <1>1 DEF Index, HtEntry
<1> QED BY <1>1, <1>2, HashInBins, HashTableAssumption DEF HtEntry

\* The links of a sound table.
LEMMA Links ==
  ASSUME SoundTable, NEW a \in Live
  PROVE  /\ heap[a].next # NULL =>
              /\ heap[a].next \in Live /\ heap[heap[a].next].prev = a
              /\ Index(a) < Index(heap[a].next)
              /\ HASH_VALUE(Index(a)) = HASH_VALUE(Index(heap[a].next))
         /\ heap[a].prev # NULL =>
              heap[a].prev \in Live /\ heap[heap[a].prev].next = a
         /\ heap[a].prev = NULL => hasHTable[HASH_VALUE(Index(a))] = a
  BY DEF SoundTable, ListsSound

\* The first entry of a list is on that list and has no entry before it.
LEMMA Heads ==
  ASSUME SoundTable, NEW b \in Bins
  PROVE  hasHTable[b] # NULL => /\ hasHTable[b] \in OnList(b)
                                /\ heap[hasHTable[b]].prev = NULL
  BY DEF SoundTable, ListsSound, OnList

\* A list begins at its head and follows next.
LEMMA ListSteps ==
  ASSUME NEW b
  PROVE  /\ List(b)[0] = hasHTable[b]
         /\ \A n \in Nat : List(b)[n] = NULL => List(b)[n + 1] = NULL
         /\ \A n \in Nat : List(b)[n] # NULL /\ List(b)[n] \in Live =>
              List(b)[n + 1] = heap[List(b)[n]].next
<1>1. List(b)[0] = hasHTable[b]
  BY WalkSteps DEF List
<1>2. ASSUME NEW n \in Nat PROVE List(b)[n + 1] = After(Successor, List(b)[n])
  BY WalkSteps DEF List
<1> DEFINE w == List(b)
<1>3. ASSUME NEW n \in Nat, List(b)[n] = NULL PROVE List(b)[n + 1] = NULL
  BY <1>2, <1>3 DEF After
<1>4. ASSUME NEW n \in Nat, List(b)[n] # NULL, List(b)[n] \in Live
      PROVE  List(b)[n + 1] = heap[List(b)[n]].next
  <2>1. Successor[List(b)[n]] = heap[List(b)[n]].next
    BY <1>4 DEF Successor, Live
  <2> QED BY <1>2, <1>4, <2>1 DEF After
<1> QED BY <1>1, <1>3, <1>4

\* A walk along a list stays on it.
LEMMA ListStays ==
  ASSUME SoundTable, NEW b \in Bins
  PROVE  \A n \in Nat : List(b)[n] = NULL \/ List(b)[n] \in OnList(b)
<1> DEFINE Bad == {n \in Nat : ~ (List(b)[n] = NULL \/ List(b)[n] \in OnList(b))}
<1> SUFFICES ASSUME Bad # {} PROVE FALSE
  OBVIOUS
<1>1. PICK n \in Bad : \A m \in Bad : n <= m
  BY LeastNumber
<1>2. n # 0
  BY <1>1, ListSteps, Heads
<1>3. PICK m \in Nat : n = m + 1
  <2>1. n - 1 \in Nat /\ n = (n - 1) + 1
    BY <1>1, <1>2
  <2> QED BY <2>1
<1>4. m \notin Bad
  BY <1>1, <1>3
<1>5. List(b)[m] # NULL
  BY <1>1, <1>3, ListSteps
<1>6. List(b)[m] \in OnList(b)
  BY <1>4, <1>5
<1>7. List(b)[m] \in Live /\ HASH_VALUE(Index(List(b)[m])) = b
  BY <1>6 DEF OnList
<1>8. List(b)[n] = heap[List(b)[m]].next
  BY <1>3, <1>5, <1>7, ListSteps
<1> QED BY <1>1, <1>7, <1>8, Links DEF OnList

\* Index values rise along a list, and nothing follows its end.
LEMMA ListRises ==
  ASSUME SoundTable, NEW b \in Bins
  PROVE  \A n \in Nat : List(b)[n] # NULL =>
           \A m \in 0..(n - 1) :
             List(b)[m] # NULL /\ Index(List(b)[m]) < Index(List(b)[n])
<1> DEFINE Rises(n) == List(b)[n] # NULL =>
             \A m \in 0..(n - 1) :
               List(b)[m] # NULL /\ Index(List(b)[m]) < Index(List(b)[n])
           Bad == {n \in Nat : ~ Rises(n)}
<1> SUFFICES ASSUME Bad # {} PROVE FALSE
  OBVIOUS
<1>1. PICK n \in Bad : \A m \in Bad : n <= m
  <2>1. Bad \subseteq Nat
    OBVIOUS
  <2> HIDE DEF Bad
  <2> QED BY <2>1, LeastNumber
<1>2. n # 0
  BY <1>1
<1>3. PICK p \in Nat : n = p + 1
  <2>1. n - 1 \in Nat /\ n = (n - 1) + 1
    BY <1>1, <1>2
  <2> QED BY <2>1
<1>4. p \notin Bad /\ p \in Nat
  BY <1>1, <1>3
<1>5. Rises(p)
  BY <1>4
<1>6. List(b)[n] # NULL /\ List(b)[p] # NULL
  BY <1>1, <1>3, ListSteps
<1>7. List(b)[p] \in Live /\ List(b)[n] \in Live
  BY <1>1, <1>6, <1>4, ListStays DEF OnList
<1>8. Index(List(b)[p]) < Index(List(b)[n])
  BY <1>3, <1>6, <1>7, ListSteps, Links
<1>9. Index(List(b)[p]) \in Nat /\ Index(List(b)[n]) \in Nat
  BY <1>7, LiveEntry DEF SoundTable
<1>10. ASSUME NEW m \in 0..(n - 1)
       PROVE  List(b)[m] # NULL /\ Index(List(b)[m]) < Index(List(b)[n])
  <2>1. CASE m = p
    BY <1>6, <1>8, <2>1
  <2>2. CASE m # p
    <3>1. m \in 0..(p - 1) /\ m \in Nat
      BY <1>3, <2>2
    <3>2. List(b)[m] # NULL /\ Index(List(b)[m]) < Index(List(b)[p])
      BY <1>5, <1>6, <3>1
    <3>3. Index(List(b)[m]) \in Nat
      BY <3>1, <3>2, ListStays, LiveEntry DEF SoundTable, OnList
    <3> QED BY <1>8, <1>9, <3>2, <3>3
  <2> QED BY <2>1, <2>2
<1>11. Rises(n)
  BY <1>10
<1> QED BY <1>1, <1>11

\* Every entry with the hash value of a list is on it.
LEMMA ListReaches ==
  ASSUME SoundTable, NEW b \in Bins
  PROVE  \A a \in OnList(b) : \E n \in Nat : List(b)[n] = a
<1> DEFINE Missed == {a \in OnList(b) : ~ \E n \in Nat : List(b)[n] = a}
           Bad == {Index(a) : a \in Missed}
<1> SUFFICES ASSUME Missed # {} PROVE FALSE
  OBVIOUS
<1>1. \A a \in OnList(b) : a \in Live /\ a # NULL /\ Index(a) \in Nat
                           /\ HASH_VALUE(Index(a)) = b
  BY LiveEntry DEF SoundTable, OnList
<1>2. PICK i \in Bad : \A j \in Bad : i <= j
  <2>1. Bad \subseteq Nat /\ Bad # {}
    BY <1>1
  <2> HIDE DEF Bad
  <2> QED BY <2>1, LeastNumber
<1>3. PICK a \in Missed : Index(a) = i
  BY <1>2
<1>4. a \in Live /\ a # NULL /\ Index(a) \in Nat /\ HASH_VALUE(Index(a)) = b
  BY <1>1, <1>3
<1>5. heap[a].prev # NULL
  BY <1>3, <1>4, Links, ListSteps
<1> DEFINE p == heap[a].prev
<1>6. p \in Live /\ heap[p].next = a
  BY <1>4, <1>5, Links
<1>7. Index(p) < Index(a) /\ HASH_VALUE(Index(p)) = b
  BY <1>4, <1>6, Links
<1>8. p \in OnList(b)
  BY <1>6, <1>7 DEF OnList
<1>9. p \notin Missed
  <2>1. Index(p) \in Nat /\ Index(p) < i
    BY <1>1, <1>3, <1>7, <1>8
  <2>2. i \in Nat
    BY <1>3, <1>4
  <2>3. Index(p) \notin Bad
    BY <1>2, <2>1, <2>2
  <2> QED BY <2>3
<1>10. PICK n \in Nat : List(b)[n] = p
  BY <1>8, <1>9
<1>11. List(b)[n + 1] = a
  <2>1. p # NULL
    BY <1>5
  <2> QED BY <1>6, <1>10, <2>1, ListSteps
<1>12. n + 1 \in Nat
  OBVIOUS
<1> QED BY <1>3, <1>11, <1>12

\* No list is longer than there are addresses.
LEMMA ListEnds ==
  ASSUME SoundTable, NEW b \in Bins
  PROVE  \A n \in Nat : List(b)[n] # NULL => n < Cardinality(Addr)
<1> SUFFICES ASSUME NEW n \in Nat, List(b)[n] # NULL PROVE n < Cardinality(Addr)
  OBVIOUS
<1> DEFINE f == [m \in 0..n |-> List(b)[m]]
<1>1. ASSUME NEW m \in 0..n PROVE f[m] # NULL /\ f[m] \in Live /\ f[m] \in Addr
  <2>1. m \in Nat /\ (m = n \/ m \in 0..(n - 1))
    OBVIOUS
  <2>2. List(b)[m] # NULL
    BY <2>1, ListRises
  <2> QED BY <2>1, <2>2, ListStays DEF OnList, Live
<1>2. ASSUME NEW j \in 0..n, NEW k \in 0..n, j < k PROVE f[j] # f[k]
  <2>1. j \in 0..(k - 1) /\ k \in Nat
    BY <1>2
  <2>2. Index(List(b)[j]) < Index(List(b)[k])
    BY <1>1, <2>1, ListRises
  <2>3. Index(List(b)[j]) \in Nat /\ Index(List(b)[k]) \in Nat
    BY <1>1, LiveEntry DEF SoundTable
  <2> QED BY <2>2, <2>3
<1>3. f \in Injection(0..n, Addr)
  <2>1. f \in [0..n -> Addr]
    BY <1>1
  <2>2. ASSUME NEW j \in 0..n, NEW k \in 0..n, f[j] = f[k] PROVE j = k
    <3> HIDE DEF f
    <3> QED BY <1>2, <2>2
  <2> HIDE DEF f
  <2> QED BY <2>1, <2>2 DEF Injection, IsInjective
<1>4. Cardinality(0..n) = n + 1
  BY FS_Interval
<1>5. Cardinality(0..n) <= Cardinality(Addr) /\ Cardinality(Addr) \in Nat
  BY <1>3, FS_Injection, FS_CardinalityType, HashTableAssumption
<1> QED BY <1>4, <1>5

\* The walk along a list passes the entries of its hash value and no others.
LEMMA ChainIsOnList ==
  ASSUME SoundTable, NEW b \in Bins
  PROVE  Chain(b) = OnList(b)
<1>1. Turns \subseteq Nat /\ Cardinality(Addr) \in Nat
  BY FS_CardinalityType, HashTableAssumption DEF Turns
<1>2. ASSUME NEW a \in Chain(b) PROVE a \in OnList(b)
  <2>1. PICK n \in Turns : a = List(b)[n] /\ a # NULL
    BY DEF Chain
  <2> QED BY <1>1, <2>1, ListStays
<1>3. ASSUME NEW a \in OnList(b) PROVE a \in Chain(b)
  <2>1. PICK n \in Nat : List(b)[n] = a
    BY ListReaches
  <2>2. a # NULL
    BY LiveEntry DEF SoundTable, OnList
  <2>3. n \in Turns
    BY <1>1, <2>1, <2>2, ListEnds DEF Turns
  <2> QED BY <2>1, <2>2, <2>3 DEF Chain
<1> QED BY <1>2, <1>3

\* No two entries have the same index value.
LEMMA IndexIsUnique ==
  ASSUME SoundTable, NEW a \in Live, NEW c \in Live, Index(a) = Index(c)
  PROVE  a = c
<1> DEFINE b == HASH_VALUE(Index(a))
<1>1. b \in Bins /\ a \in OnList(b) /\ c \in OnList(b)
  BY LiveEntry DEF SoundTable, OnList
<1> HIDE DEF b
<1>2. PICK m \in Nat : List(b)[m] = a
  BY <1>1, ListReaches
<1>3. PICK n \in Nat : List(b)[n] = c
  BY <1>1, ListReaches
<1>4. a # NULL /\ c # NULL /\ Index(a) \in Nat /\ Index(c) \in Nat
  BY LiveEntry DEF SoundTable
<1>5. CASE m < n
  <2>1. m \in 0..(n - 1)
    BY <1>5
  <2>2. Index(a) < Index(c)
    BY <1>1, <1>2, <1>3, <1>4, <2>1, ListRises
  <2> QED BY <1>4, <2>2
<1>6. CASE n < m
  <2>1. n \in 0..(m - 1)
    BY <1>6
  <2>2. Index(c) < Index(a)
    BY <1>1, <1>2, <1>3, <1>4, <2>1, ListRises
  <2> QED BY <1>4, <2>2
<1> QED BY <1>2, <1>3, <1>5, <1>6

\* The head of a list has its smallest index value.
LEMMA HeadIsFirst ==
  ASSUME SoundTable, NEW b \in Bins, NEW a \in OnList(b)
  PROVE  hasHTable[b] # NULL /\ Index(hasHTable[b]) <= Index(a)
<1>1. PICK n \in Nat : List(b)[n] = a
  BY ListReaches
<1>2. a # NULL /\ Index(a) \in Nat
  BY LiveEntry DEF SoundTable, OnList
<1>3. CASE n = 0
  BY <1>1, <1>2, <1>3, ListSteps
<1>4. CASE n # 0
  <2>1. 0 \in 0..(n - 1)
    BY <1>4
  <2>2. List(b)[0] # NULL /\ Index(List(b)[0]) < Index(a)
    BY <1>1, <1>2, <2>1, ListRises
  <2>3. hasHTable[b] # NULL /\ Index(hasHTable[b]) < Index(a)
    BY <2>2, ListSteps
  <2>4. Index(hasHTable[b]) \in Nat
    BY <2>3, Heads, LiveEntry DEF SoundTable, OnList
  <2> QED BY <1>2, <2>3, <2>4
<1> QED BY <1>3, <1>4

\* Nothing lies between an entry and the one behind it.
LEMMA NextIsAdjacent ==
  ASSUME SoundTable, NEW b \in Bins, NEW p \in OnList(b), NEW a \in OnList(b),
         Index(p) < Index(a)
  PROVE  heap[p].next # NULL /\ Index(heap[p].next) <= Index(a)
<1>1. PICK n \in Nat : List(b)[n] = p
  BY ListReaches
<1>2. PICK m \in Nat : List(b)[m] = a
  BY ListReaches
<1>3. /\ a # NULL /\ p # NULL /\ Index(a) \in Nat /\ Index(p) \in Nat
      /\ p \in Live
  BY LiveEntry DEF SoundTable, OnList
<1>4. m > n
  <2>1. m # n
    BY <1>1, <1>2, <1>3
  <2>2. CASE m < n
    <3>1. m \in 0..(n - 1)
      BY <2>2
    <3>2. Index(a) < Index(p)
      BY <1>1, <1>2, <1>3, <3>1, ListRises
    <3> QED BY <1>3, <3>2
  <2> QED BY <2>1, <2>2
<1>5. PICK j \in Nat : j = n + 1
  OBVIOUS
<1>6. List(b)[j] = heap[p].next
  BY <1>1, <1>3, <1>5, ListSteps
<1>7. CASE m = j
  BY <1>2, <1>3, <1>6, <1>7
<1>8. CASE m # j
  <2>1. j \in 0..(m - 1)
    BY <1>4, <1>5, <1>8
  <2>2. List(b)[j] # NULL /\ Index(List(b)[j]) < Index(a)
    BY <1>2, <1>3, <2>1, ListRises
  <2>3. Index(List(b)[j]) \in Nat
    BY <2>2, ListStays, LiveEntry DEF SoundTable, OnList
  <2> QED BY <1>3, <1>6, <2>2, <2>3
<1> QED BY <1>7, <1>8

-----------------------------------------------------------------------------
(***************************************************************************)
(* Searches                                                                *)
(***************************************************************************)

\* Every list ends within Turns.
LEMMA ListEndsInTurns ==
  ASSUME SoundTable, NEW b \in Bins
  PROVE  /\ Cardinality(Addr) \in Nat
         /\ List(b)[Cardinality(Addr)] = NULL
<1>1. Cardinality(Addr) \in Nat
  BY FS_CardinalityType, HashTableAssumption
<1> QED BY <1>1, ListEnds

\* The walk for k stops, at the first entry whose index value is not smaller.
LEMMA StopTurnStops ==
  ASSUME SoundTable, NEW k \in Keys
  PROVE  LET cur == List(HASH_VALUE(k))  n == StopTurn(k) IN
         /\ n \in Nat
         /\ cur[n] = NULL \/ Index(cur[n]) >= k
         /\ \A m \in 0..(n - 1) : cur[m] # NULL /\ Index(cur[m]) < k
<1> DEFINE b == HASH_VALUE(k)
           cur == List(b)
           Stops(n) == cur[n] = NULL \/ Index(cur[n]) >= k
           At == {n \in Nat : Stops(n)}
<1>1. b \in Bins
  BY HashInBins
<1>2. Cardinality(Addr) \in At
  BY <1>1, ListEndsInTurns
<1>3. PICK n \in At : \A m \in At : n <= m
  <2>1. At \subseteq Nat
    OBVIOUS
  <2> HIDE DEF At
  <2> QED BY <1>2, <2>1, LeastNumber
<1>4. n \in Turns
  BY <1>1, <1>2, <1>3, ListEndsInTurns DEF Turns
<1>5. ASSUME NEW m \in 0..(n - 1) PROVE cur[m] # NULL /\ Index(cur[m]) < k
  <2>1. m \in Nat /\ m \notin At
    BY <1>3
  <2>2. cur[m] # NULL /\ ~ (Index(cur[m]) >= k)
    BY <2>1
  <2>3. Index(cur[m]) \in Nat /\ k \in Nat
    BY <1>1, <2>1, <2>2, ListStays, LiveEntry, HashTableAssumption
       DEF SoundTable, OnList
  <2> QED BY <2>2, <2>3
<1> DEFINE P(j) == /\ cur[j] = NULL \/ Index(cur[j]) >= k
                   /\ \A m \in 0..(j - 1) : cur[m] # NULL /\ Index(cur[m]) < k
<1>6. P(n)
  BY <1>3, <1>5
<1>7. StopTurn(k) = CHOOSE j \in Turns : P(j)
  BY DEF StopTurn
<1>8. StopTurn(k) \in Turns /\ P(StopTurn(k))
  <2> HIDE DEF P
  <2> QED BY <1>4, <1>6, <1>7
<1>9. StopTurn(k) \in Nat
  BY <1>1, <1>8, ListEndsInTurns DEF Turns
<1> QED BY <1>8, <1>9

\* What findValueInHashTable finds.
LEMMA FindEntryFinds ==
  ASSUME SoundTable, NEW k \in Keys
  PROVE  /\ FindEntry(k) # NULL =>
              FindEntry(k) \in Live /\ Index(FindEntry(k)) = k
         /\ FindEntry(k) = NULL => \A a \in Live : Index(a) # k
<1> DEFINE b == HASH_VALUE(k)
           cur == List(b)
           n == StopTurn(k)
<1>1. b \in Bins
  BY HashInBins
<1>2. /\ n \in Nat
      /\ cur[n] = NULL \/ Index(cur[n]) >= k
      /\ \A m \in 0..(n - 1) : cur[m] # NULL /\ Index(cur[m]) < k
  BY StopTurnStops
<1>3. FindEntry(k) = IF cur[n] # NULL /\ Index(cur[n]) = k THEN cur[n] ELSE NULL
  BY DEF FindEntry
<1> HIDE DEF n
<1>4. ASSUME FindEntry(k) # NULL PROVE FindEntry(k) \in Live /\ Index(FindEntry(k)) = k
  <2>1. FindEntry(k) = cur[n] /\ cur[n] # NULL /\ Index(cur[n]) = k
    BY <1>3, <1>4
  <2> QED BY <1>1, <1>2, <2>1, ListStays DEF OnList
<1>5. ASSUME NEW a \in Live, Index(a) = k PROVE FindEntry(k) # NULL
  <2>1. a \in OnList(b) /\ a # NULL
    BY <1>5, LiveEntry DEF SoundTable, OnList
  <2>2. PICK j \in Nat : cur[j] = a
    BY <1>1, <2>1, ListReaches
  <2>3. k \in Nat
    BY HashTableAssumption
  <2>4. ~ (j < n)
    <3>1. SUFFICES ASSUME j < n PROVE FALSE
      OBVIOUS
    <3>2. j \in 0..(n - 1)
      BY <1>2, <3>1
    <3>3. Index(a) < k
      BY <1>2, <2>2, <3>2
    <3> QED BY <1>5, <2>3, <3>3
  <2>5. ~ (n < j)
    <3>1. SUFFICES ASSUME n < j PROVE FALSE
      OBVIOUS
    <3>2. n \in 0..(j - 1)
      BY <1>2, <3>1
    <3>3. cur[n] # NULL /\ Index(cur[n]) < Index(a)
      BY <1>1, <2>1, <2>2, <3>2, ListRises
    <3>4. Index(cur[n]) \in Nat /\ Index(cur[n]) >= k
      BY <1>1, <1>2, <3>3, ListStays, LiveEntry DEF SoundTable, OnList
    <3> QED BY <1>5, <2>3, <3>3, <3>4
  <2>6. j = n
    BY <1>2, <2>4, <2>5
  <2> QED BY <1>3, <1>5, <2>1, <2>2, <2>6
<1> QED BY <1>4, <1>5

\* The neighbours insertValueInHashTable gives a new entry.
LEMMA InsertPlaceFits ==
  ASSUME SoundTable, NEW k \in Keys, FindEntry(k) = NULL
  PROVE  LET b == HASH_VALUE(k)
             last == InsertPlace(k).last
             cur  == InsertPlace(k).cur
         IN
         /\ cur # NULL => /\ cur \in OnList(b) /\ k < Index(cur)
                          /\ heap[cur].prev = last
         /\ last # NULL => /\ last \in OnList(b) /\ Index(last) < k
                           /\ heap[last].next = cur
         /\ last = NULL => hasHTable[b] = cur
<1> DEFINE b == HASH_VALUE(k)
           w == List(b)
           n == StopTurn(k)
           last == InsertPlace(k).last
           cur  == InsertPlace(k).cur
<1>1. b \in Bins /\ k \in Nat
  BY HashInBins, HashTableAssumption
<1>2. /\ n \in Nat
      /\ w[n] = NULL \/ Index(w[n]) >= k
      /\ \A m \in 0..(n - 1) : w[m] # NULL /\ Index(w[m]) < k
  BY StopTurnStops
<1>3. cur = w[n] /\ last = IF n = 0 THEN NULL ELSE w[n - 1]
  BY DEF InsertPlace
<1> HIDE DEF n, last, cur
<1>4. cur # NULL => cur \in OnList(b) /\ k < Index(cur)
  <2> SUFFICES ASSUME cur # NULL PROVE cur \in OnList(b) /\ k < Index(cur)
    OBVIOUS
  <2>1. cur \in OnList(b) /\ Index(cur) >= k
    BY <1>1, <1>2, <1>3, ListStays
  <2>2. cur \in Live /\ Index(cur) \in Nat
    BY <2>1, LiveEntry DEF SoundTable, OnList
  <2>3. Index(cur) # k
    BY <2>2, FindEntryFinds
  <2> QED BY <1>1, <2>1, <2>2, <2>3
<1>5. CASE n = 0
  <2>1. last = NULL /\ hasHTable[b] = cur
    BY <1>3, <1>5, ListSteps
  <2>2. cur # NULL => heap[cur].prev = NULL
    BY <1>1, <2>1, Heads
  <2> QED BY <1>4, <2>1, <2>2 DEF last, cur
<1>6. CASE n # 0
  <2>1. PICK m \in Nat : n = m + 1
    <3>1. n - 1 \in Nat /\ n = (n - 1) + 1
      BY <1>2, <1>6
    <3> QED BY <3>1
  <2>2. m \in 0..(n - 1) /\ last = w[m]
    BY <1>3, <1>6, <2>1
  <2>3. last # NULL /\ Index(last) < k
    BY <1>2, <2>2
  <2>4. last \in OnList(b) /\ last \in Live
    BY <1>1, <2>2, <2>3, ListStays DEF OnList
  <2>5. heap[last].next = cur
    BY <1>3, <2>1, <2>2, <2>3, <2>4, ListSteps
  <2>6. cur # NULL => heap[cur].prev = last
    BY <2>4, <2>5, Links
  <2> QED BY <1>4, <2>3, <2>4, <2>5, <2>6 DEF last, cur
<1> QED BY <1>5, <1>6

\* What deleteValueFromHashTable finds.
LEMMA DeleteEntryFinds ==
  ASSUME SoundTable, NEW k \in Keys
  PROVE  /\ DeleteEntry(k) # NULL =>
              DeleteEntry(k) \in Live /\ Index(DeleteEntry(k)) = k
         /\ DeleteEntry(k) = NULL => \A a \in Live : Index(a) # k
<1> DEFINE b == HASH_VALUE(k)
           cur == List(b)
           Stops(n) == cur[n] = NULL \/ Index(cur[n]) = k
           At == {n \in Nat : Stops(n)}
           P(j) == /\ Stops(j)
                   /\ \A m \in 0..(j - 1) : cur[m] # NULL /\ Index(cur[m]) # k
           d == DeleteTurn(k)
<1>1. b \in Bins
  BY HashInBins
<1>2. Cardinality(Addr) \in At
  BY <1>1, ListEndsInTurns
<1>3. PICK n \in At : \A m \in At : n <= m
  <2>1. At \subseteq Nat
    OBVIOUS
  <2> HIDE DEF At
  <2> QED BY <1>2, <2>1, LeastNumber
<1>4. n \in Turns
  BY <1>1, <1>2, <1>3, ListEndsInTurns DEF Turns
<1>5. P(n)
  <2>1. ASSUME NEW m \in 0..(n - 1) PROVE cur[m] # NULL /\ Index(cur[m]) # k
    <3>1. m \in Nat /\ m \notin At
      BY <1>3
    <3> QED BY <3>1
  <2> QED BY <1>3, <2>1
<1>6. d = CHOOSE j \in Turns : P(j)
  BY DEF DeleteTurn
<1>7. d \in Turns /\ P(d)
  <2> HIDE DEF P
  <2> QED BY <1>4, <1>5, <1>6
<1>8. d \in Nat /\ DeleteEntry(k) = cur[d]
  BY <1>1, <1>7, ListEndsInTurns DEF Turns, DeleteEntry
<1> HIDE DEF d
<1>9. ASSUME DeleteEntry(k) # NULL
      PROVE  DeleteEntry(k) \in Live /\ Index(DeleteEntry(k)) = k
  BY <1>1, <1>7, <1>8, <1>9, ListStays DEF OnList
<1>10. ASSUME NEW a \in Live, Index(a) = k PROVE DeleteEntry(k) # NULL
  <2>1. a \in OnList(b) /\ a # NULL
    BY <1>10, LiveEntry DEF SoundTable, OnList
  <2>2. PICK j \in Nat : cur[j] = a
    BY <1>1, <2>1, ListReaches
  <2>3. ~ (j < d)
    <3>1. SUFFICES ASSUME j < d PROVE FALSE
      OBVIOUS
    <3>2. j \in 0..(d - 1)
      BY <1>8, <3>1
    <3> QED BY <1>7, <1>10, <2>2, <3>2
  <2>4. CASE j = d
    BY <1>8, <2>1, <2>2, <2>4
  <2>5. CASE d < j
    <3>1. d \in 0..(j - 1)
      BY <1>8, <2>5
    <3> QED BY <1>1, <1>8, <2>1, <2>2, <3>1, ListRises
  <2> QED BY <1>8, <2>3, <2>4, <2>5
<1> QED BY <1>9, <1>10

-----------------------------------------------------------------------------
(***************************************************************************)
(* The inductive invariant                                                 *)
(***************************************************************************)

\* The entries a walk of the iterator has passed: those of the lists before
\* it.idx, and on that list those up to it.ptr.
Passed == {a \in Live : \/ HASH_VALUE(Index(a)) < it.idx
                        \/ /\ it.ptr # NULL
                           /\ HASH_VALUE(Index(a)) = it.idx
                           /\ Index(a) <= Index(it.ptr)}

IteratorSound == it.on =>
  /\ ready
  /\ it.ptr # NULL => it.ptr \in OnList(it.idx)
  /\ ToSet(seen) = Passed
  /\ Len(seen) = Cardinality(Passed)

HInv ==
  /\ TypeOK /\ ListsSound /\ ElementsCounted
  /\ ~ready => hasHTable = [b \in Bins |-> NULL]
  /\ IteratorSound

\* No more is allocated than there are addresses.
LEMMA LiveIsFinite == IsFiniteSet(Live)
  BY FS_Subset, HashTableAssumption DEF Live

\* The iterator between two walks.
LEMMA NoIteratorType == NoIterator \in [idx : 0..TableSize, ptr : Pointer, on : BOOLEAN]
                        /\ ~ NoIterator.on
  BY HashTableAssumption DEF NoIterator, Pointer

\* The history of a walk that has not begun.
LEMMA EmptySeen == <<>> \in Seq(Addr)
  OBVIOUS

\* Every result is of its type.
LEMMA ResultType ==
  ASSUME NEW call \in {"none", "insert", "find", "delete", "iterate"},
         NEW k \in Keys \cup {NULL}, NEW b \in Blocks \cup {NULL}
  PROVE  Result(call, k, b) \in
           [call : {"none", "insert", "find", "delete", "iterate"},
            index : Keys \cup {NULL}, block : Blocks \cup {NULL}]
  BY DEF Result

\* What a call returns is a block or NULL.
LEMMA BlockOfType ==
  ASSUME TypeOK, NEW a, a = NULL \/ a \in Live
  PROVE  BlockOf(a) \in Blocks \cup {NULL}
  BY LiveEntry DEF BlockOf

\* A link of an entry is set.
LEMMA Relinked ==
  ASSUME NEW e \in HtEntry, NEW x \in Pointer
  PROVE  /\ [e EXCEPT !.next = x] \in HtEntry
         /\ [e EXCEPT !.next = x].index = e.index
         /\ [e EXCEPT !.next = x].block = e.block
         /\ [e EXCEPT !.next = x].prev = e.prev
         /\ [e EXCEPT !.next = x].next = x
         /\ [e EXCEPT !.prev = x] \in HtEntry
         /\ [e EXCEPT !.prev = x].index = e.index
         /\ [e EXCEPT !.prev = x].block = e.block
         /\ [e EXCEPT !.prev = x].next = e.next
         /\ [e EXCEPT !.prev = x].prev = x
  BY DEF HtEntry

\* Nothing is allocated before the first insertion.
LEMMA HInit == Init => HInv
<1> SUFFICES ASSUME Init PROVE HInv
  OBVIOUS
<1>1. Live = {}
  BY DEF Init, Live
<1>2. hasHTable \in [Bins -> Pointer] /\ heap \in [Addr -> HtEntry \cup {NULL}]
  BY DEF Init, Pointer
<1>3. TypeOK
  BY <1>2, NoIteratorType, EmptySeen, ResultType DEF Init, TypeOK
<1>4. ListsSound /\ ElementsCounted /\ ~ it.on
  BY <1>1, NoIteratorType DEF Init, ListsSound, ElementsCounted
<1> QED BY <1>3, <1>4 DEF Init, HInv, IteratorSound

\* initHashTable finds nothing allocated: the last table was cleaned up.
LEMMA InitStep == HInv /\ initHashTable => HInv'
<1> SUFFICES ASSUME HInv, initHashTable PROVE HInv'
  OBVIOUS
<1> USE DEF initHashTable
<1>1. Live = {} /\ Live' = {}
  BY DEF HInv, ElementsCounted, Live
<1>2. hasHTable' \in [Bins -> Pointer]
  BY DEF Pointer
<1>3. TypeOK'
  BY <1>2, ResultType DEF HInv, TypeOK
<1>4. ListsSound'
  <2>1. \A b \in Bins : hasHTable'[b] = NULL
    OBVIOUS
  <2> QED BY <1>1, <2>1 DEF ListsSound
<1>5. ElementsCounted'
  BY <1>1, FS_EmptySet DEF ElementsCounted
<1>6. IteratorSound'
  <2>1. ~ it'.on
    BY DEF HInv, IteratorSound
  <2> QED BY <2>1 DEF IteratorSound
<1> QED BY <1>3, <1>4, <1>5, <1>6 DEF HInv

\* The walks find every entry of a table.
EntriesFound == UNION {Chain(b) : b \in Bins} = Live

IndexUnique == \A a, c \in Live : Index(a) = Index(c) => a = c

\* Sound lists hold all entries, each index value once.
LEMMA EntriesAreFound == HInv => EntriesFound /\ IndexUnique
<1> SUFFICES ASSUME HInv PROVE EntriesFound /\ IndexUnique
  OBVIOUS
<1>1. CASE ready
  <2>1. SoundTable
    BY <1>1 DEF HInv, SoundTable
  <2>2. \A b \in Bins : Chain(b) = OnList(b)
    BY <2>1, ChainIsOnList
  <2>3. \A a \in Live : HASH_VALUE(Index(a)) \in Bins
    BY <2>1, LiveEntry DEF SoundTable
  <2>4. EntriesFound
    BY <2>2, <2>3 DEF EntriesFound, OnList
  <2> QED BY <2>1, <2>4, IndexIsUnique DEF IndexUnique
<1>2. CASE ~ ready
  <2>1. Live = {}
    BY <1>2 DEF HInv, ElementsCounted
  <2>2. ASSUME NEW b \in Bins PROVE Chain(b) = {}
    <3>1. hasHTable[b] = NULL
      BY <1>2 DEF HInv
    <3> DEFINE Bad == {n \in Nat : List(b)[n] # NULL}
    <3>2. ASSUME Bad # {} PROVE FALSE
      <4>1. PICK n \in Bad : \A m \in Bad : n <= m
        <5>1. Bad \subseteq Nat
          OBVIOUS
        <5> HIDE DEF Bad
        <5> QED BY <3>2, <5>1, LeastNumber
      <4>2. n # 0
        BY <3>1, <4>1, ListSteps
      <4>3. PICK m \in Nat : n = m + 1
        <5>1. n - 1 \in Nat /\ n = (n - 1) + 1
          BY <4>1, <4>2
        <5> QED BY <5>1
      <4>4. List(b)[m] = NULL
        BY <4>1, <4>3
      <4> QED BY <4>1, <4>3, <4>4, ListSteps
    <3>3. Turns \subseteq Nat
      BY FS_CardinalityType, HashTableAssumption DEF Turns
    <3> QED BY <3>2, <3>3 DEF Chain
  <2> QED BY <2>1, <2>2 DEF EntriesFound, IndexUnique
<1> QED BY <1>1, <1>2

\* cleanupHashTable frees every entry.
LEMMA CleanupStep == HInv /\ cleanupHashTable => HInv'
<1> SUFFICES ASSUME HInv, cleanupHashTable PROVE HInv'
  OBVIOUS
<1> USE DEF cleanupHashTable
<1>1. ASSUME NEW a \in Addr PROVE heap'[a] = NULL
  <2>1. a \in Live => \E b \in Bins : a \in Chain(b)
    BY EntriesAreFound DEF EntriesFound
  <2>2. a \notin Live => heap[a] = NULL
    BY DEF Live
  <2> QED BY <2>1, <2>2
<1>2. Live' = {}
  BY <1>1 DEF Live
<1>3. hasHTable' \in [Bins -> Pointer]
  BY DEF Pointer
<1>4. heap' \in [Addr -> HtEntry \cup {NULL}]
  <2>1. heap' = [a \in Addr |-> NULL]
    BY <1>1
  <2> QED BY <2>1
<1>5. TypeOK'
  BY <1>3, <1>4, ResultType, NoIteratorType, EmptySeen DEF HInv, TypeOK
<1>6. ListsSound' /\ ElementsCounted'
  BY <1>2 DEF ListsSound, ElementsCounted
<1>7. IteratorSound'
  BY NoIteratorType DEF IteratorSound
<1> QED BY <1>5, <1>6, <1>7 DEF HInv

\* What an insertion changes: a new entry between two neighbours.
InsertedAt(k, b, entry, last, cur) ==
  /\ entry \in Addr \ Live /\ entry # NULL
  /\ Live' = Live \cup {entry}
  /\ heap'[entry] = [index |-> k, block |-> b, prev |-> last, next |-> cur]
  /\ \A a \in Live :
       /\ heap'[a].index = heap[a].index /\ heap'[a].block = heap[a].block
       /\ heap'[a].next = IF a = last THEN entry ELSE heap[a].next
       /\ heap'[a].prev = IF a = cur THEN entry ELSE heap[a].prev
  /\ heap' \in [Addr -> HtEntry \cup {NULL}]
  /\ hasHTable' \in [Bins -> Pointer]
  /\ \A c \in Bins : hasHTable'[c] = IF c = HASH_VALUE(k) /\ last = NULL
                                     THEN entry ELSE hasHTable[c]

\* insertValueInHashTable puts the entry between the neighbours it found.
LEMMA InsertEffect ==
  ASSUME HInv, NEW k \in Keys, NEW b \in Blocks, insertValueInHashTable(k, b)
  PROVE  \E entry : InsertedAt(k, b, entry, InsertPlace(k).last, InsertPlace(k).cur)
<1> DEFINE last == InsertPlace(k).last
           cur  == InsertPlace(k).cur
<1>1. SoundTable /\ FindEntry(k) = NULL
  BY DEF HInv, SoundTable, insertValueInHashTable
<1>2. HASH_VALUE(k) \in Bins /\ k \in Nat
  BY HashInBins, HashTableAssumption
<1>3. /\ cur # NULL => cur \in Live /\ k < Index(cur)
      /\ last # NULL => last \in Live /\ Index(last) < k
  BY <1>1, InsertPlaceFits DEF OnList
<1>4. PICK entry \in Addr \ Live :
        /\ heap' = [a \in Addr |->
             IF a = entry THEN [index |-> k, block |-> b,
                                prev |-> last, next |-> cur]
             ELSE IF a = last THEN [heap[a] EXCEPT !.next = entry]
             ELSE IF a = cur THEN [heap[a] EXCEPT !.prev = entry]
             ELSE heap[a]]
        /\ hasHTable' = IF last # NULL THEN hasHTable
                        ELSE [hasHTable EXCEPT ![HASH_VALUE(k)] = entry]
  BY DEF insertValueInHashTable
<1> HIDE DEF last, cur
<1>5. entry # NULL /\ entry \in Pointer /\ entry # last /\ entry # cur
  BY <1>3, HashTableAssumption DEF Pointer
<1>6. cur # NULL => last # cur
  <2> SUFFICES ASSUME cur # NULL, last = cur PROVE FALSE
    OBVIOUS
  <2>1. Index(cur) \in Nat
    BY <1>1, <1>3, LiveEntry DEF SoundTable
  <2> QED BY <1>2, <1>3, <2>1
<1>7. last \in Pointer /\ cur \in Pointer
  BY <1>3 DEF Live, Pointer
<1> DEFINE new == [index |-> k, block |-> b, prev |-> last, next |-> cur]
<1>8. heap'[entry] = new /\ new \in HtEntry /\ new # NULL
  BY <1>4, <1>7, HashTableAssumption DEF HtEntry
<1>9. ASSUME NEW a \in Live
      PROVE  /\ heap'[a] \in HtEntry /\ heap'[a] # NULL
             /\ heap'[a].index = heap[a].index /\ heap'[a].block = heap[a].block
             /\ heap'[a].next = IF a = last THEN entry ELSE heap[a].next
             /\ heap'[a].prev = IF a = cur THEN entry ELSE heap[a].prev
  <2>1. heap[a] \in HtEntry /\ heap[a] # NULL /\ a \in Addr /\ a # NULL /\ a # entry
    BY <1>1, LiveEntry DEF SoundTable
  <2>2. CASE a = last
    <3>1. heap'[a] = [heap[a] EXCEPT !.next = entry] /\ a # cur
      BY <1>4, <1>6, <2>1, <2>2
    <3>2. /\ heap'[a] \in HtEntry
          /\ heap'[a].index = heap[a].index /\ heap'[a].block = heap[a].block
          /\ heap'[a].prev = heap[a].prev /\ heap'[a].next = entry
      <4>1. PICK e \in HtEntry : e = heap[a]
        BY <2>1
      <4>2. entry \in Pointer
        BY <1>5
      <4>3. heap'[a] = [e EXCEPT !.next = entry]
        BY <3>1, <4>1
      <4>4. /\ [e EXCEPT !.next = entry] \in HtEntry
            /\ [e EXCEPT !.next = entry].index = e.index
            /\ [e EXCEPT !.next = entry].block = e.block
            /\ [e EXCEPT !.next = entry].prev = e.prev
            /\ [e EXCEPT !.next = entry].next = entry
        BY <4>2, Relinked
      <4> QED BY <4>1, <4>3, <4>4
    <3>3. heap'[a] # NULL
      BY <3>2, HashTableAssumption
    <3> QED BY <2>2, <3>1, <3>2, <3>3
  <2>3. CASE a = cur /\ a # last
    <3>1. heap'[a] = [heap[a] EXCEPT !.prev = entry]
      BY <1>4, <2>1, <2>3
    <3>2. /\ heap'[a] \in HtEntry
          /\ heap'[a].index = heap[a].index /\ heap'[a].block = heap[a].block
          /\ heap'[a].next = heap[a].next /\ heap'[a].prev = entry
      <4>1. PICK e \in HtEntry : e = heap[a]
        BY <2>1
      <4>2. entry \in Pointer
        BY <1>5
      <4>3. heap'[a] = [e EXCEPT !.prev = entry]
        BY <3>1, <4>1
      <4>4. /\ [e EXCEPT !.prev = entry] \in HtEntry
            /\ [e EXCEPT !.prev = entry].index = e.index
            /\ [e EXCEPT !.prev = entry].block = e.block
            /\ [e EXCEPT !.prev = entry].next = e.next
            /\ [e EXCEPT !.prev = entry].prev = entry
        BY <4>2, Relinked
      <4> QED BY <4>1, <4>3, <4>4
    <3>3. heap'[a] # NULL
      BY <3>2, HashTableAssumption
    <3> QED BY <2>3, <3>2, <3>3
  <2>4. CASE a # cur /\ a # last
    BY <1>4, <2>1, <2>4
  <2> QED BY <2>2, <2>3, <2>4
<1>10. ASSUME NEW a \in Addr \ Live, a # entry PROVE heap'[a] = NULL
  <2>1. heap[a] = NULL /\ a # NULL /\ a # last /\ a # cur
    BY <1>3, <1>10, HashTableAssumption DEF Live
  <2> QED BY <1>4, <1>10, <2>1
<1>11. Live' = Live \cup {entry}
  BY <1>8, <1>9, <1>10 DEF Live
<1>12. heap' \in [Addr -> HtEntry \cup {NULL}]
  <2>1. \A a \in Addr : heap'[a] \in HtEntry \cup {NULL}
    BY <1>8, <1>9, <1>10
  <2>2. DOMAIN heap' = Addr /\ heap' = [a \in Addr |-> heap'[a]]
    BY <1>4
  <2> QED BY <2>1, <2>2
<1>13. hasHTable \in [Bins -> Pointer]
  BY DEF HInv, TypeOK
<1>14. hasHTable' \in [Bins -> Pointer]
  BY <1>4, <1>5, <1>13
<1>15. \A c \in Bins : hasHTable'[c] = IF c = HASH_VALUE(k) /\ last = NULL
                                       THEN entry ELSE hasHTable[c]
  BY <1>2, <1>4, <1>13
<1>16. InsertedAt(k, b, entry, last, cur)
  BY <1>4, <1>5, <1>8, <1>9, <1>11, <1>12, <1>14, <1>15 DEF InsertedAt
<1> QED BY <1>16 DEF last, cur

\* An insertion keeps the lists sound.
LEMMA InsertKeepsLists ==
  ASSUME HInv, NEW k \in Keys, NEW b \in Blocks, insertValueInHashTable(k, b)
  PROVE  ListsSound'
<1> DEFINE last == InsertPlace(k).last
           cur  == InsertPlace(k).cur
           h    == HASH_VALUE(k)
<1>1. PICK entry : InsertedAt(k, b, entry, last, cur)
  BY InsertEffect
<1>2. SoundTable /\ ready'
  BY DEF HInv, SoundTable, insertValueInHashTable
<1>3. /\ cur # NULL => /\ cur \in Live /\ Index(cur) > k
                       /\ HASH_VALUE(Index(cur)) = h
                       /\ heap[cur].prev = last
      /\ last # NULL => /\ last \in Live /\ Index(last) < k
                        /\ HASH_VALUE(Index(last)) = h
                        /\ heap[last].next = cur
      /\ last = NULL => hasHTable[h] = cur
  <2>1. FindEntry(k) = NULL /\ k \in Nat
    BY HashTableAssumption DEF insertValueInHashTable
  <2>2. /\ cur # NULL => cur \in OnList(h) /\ k < Index(cur) /\ heap[cur].prev = last
        /\ last # NULL => last \in OnList(h) /\ Index(last) < k /\ heap[last].next = cur
        /\ last = NULL => hasHTable[h] = cur
    BY <1>2, <2>1, InsertPlaceFits
  <2>3. cur # NULL => cur \in Live /\ Index(cur) \in Nat
    BY <1>2, <2>2, LiveEntry DEF SoundTable, OnList
  <2> QED BY <2>1, <2>2, <2>3 DEF OnList
<1>4. h \in Bins /\ k \in Nat
  BY HashInBins, HashTableAssumption
<1> HIDE DEF last, cur, h
<1>5. /\ entry # NULL /\ entry \notin Live
      /\ Live' = Live \cup {entry}
      /\ heap'[entry].index = k /\ heap'[entry].prev = last /\ heap'[entry].next = cur
  BY <1>1 DEF InsertedAt
<1>6. \A a \in Live :
       /\ heap'[a].index = heap[a].index
       /\ heap'[a].next = IF a = last THEN entry ELSE heap[a].next
       /\ heap'[a].prev = IF a = cur THEN entry ELSE heap[a].prev
  BY <1>1 DEF InsertedAt
<1>7. \A c \in Bins : hasHTable'[c] = IF c = h /\ last = NULL
                                      THEN entry ELSE hasHTable[c]
  BY <1>1 DEF InsertedAt, h
<1>8. \A a \in Live : HASH_VALUE(Index(a)) \in Bins /\ a # NULL /\ Index(a) \in Nat
  BY <1>2, LiveEntry DEF SoundTable
<1>9. ASSUME NEW c \in Bins, hasHTable'[c] # NULL
      PROVE  /\ hasHTable'[c] \in Live' /\ heap'[hasHTable'[c]].prev = NULL
             /\ HASH_VALUE(heap'[hasHTable'[c]].index) = c
  <2>1. CASE c = h /\ last = NULL
    BY <1>5, <1>7, <2>1 DEF h
  <2>2. CASE ~ (c = h /\ last = NULL)
    <3>1. hasHTable'[c] = hasHTable[c]
      BY <1>7, <2>2
    <3>2. hasHTable[c] \in Live /\ HASH_VALUE(Index(hasHTable[c])) = c
          /\ heap[hasHTable[c]].prev = NULL
      BY <1>2, <1>9, <3>1, Heads DEF OnList
    <3>3. hasHTable[c] # cur
      BY <1>3, <1>8, <2>2, <3>2
    <3> QED BY <1>5, <1>6, <3>1, <3>2, <3>3 DEF Index
  <2> QED BY <2>1, <2>2
<1>10. ASSUME NEW a \in Live'
       PROVE  LET n == heap'[a].next  p == heap'[a].prev IN
              /\ n # NULL => /\ n \in Live' /\ heap'[n].prev = a
                             /\ heap'[a].index < heap'[n].index
                             /\ HASH_VALUE(heap'[a].index) = HASH_VALUE(heap'[n].index)
              /\ p # NULL => p \in Live' /\ heap'[p].next = a
              /\ p = NULL => hasHTable'[HASH_VALUE(heap'[a].index)] = a
  <2>1. CASE a = entry
    <3>1. cur # NULL => heap'[cur].prev = entry /\ heap'[cur].index = Index(cur)
      BY <1>3, <1>6 DEF Index
    <3>2. last # NULL => heap'[last].next = entry
      BY <1>3, <1>6
    <3>3. last = NULL => hasHTable'[h] = entry
      BY <1>4, <1>7
    <3>4. cur # NULL => k < Index(cur) /\ HASH_VALUE(Index(cur)) = HASH_VALUE(k)
      BY <1>3, <1>4, <1>8 DEF h
    <3> QED BY <1>3, <1>5, <2>1, <3>1, <3>2, <3>3, <3>4 DEF h
  <2>2. CASE a = last /\ a # entry
    <3>1. a \in Live /\ a # NULL /\ heap'[a].next = entry /\ heap'[a].index = Index(a)
      BY <1>5, <1>6, <1>8, <2>2 DEF Index
    <3>2. a # cur /\ heap'[a].prev = heap[a].prev
      BY <1>3, <1>4, <1>6, <1>8, <2>2, <3>1
    <3>3. Index(a) < k /\ HASH_VALUE(Index(a)) = HASH_VALUE(k)
      BY <1>3, <2>2, <3>1 DEF h
    <3>4. heap[a].prev # NULL =>
            heap[a].prev \in Live /\ heap[heap[a].prev].next = a
      BY <1>2, <3>1, Links
    <3>5. heap[a].prev # NULL => heap[a].prev # last
      <4> SUFFICES ASSUME heap[a].prev # NULL, heap[a].prev = a PROVE FALSE
        BY <2>2
      <4>1. Index(a) < Index(a)
        BY <1>2, <3>1, <3>4, Links
      <4> QED BY <1>8, <3>1, <4>1
    <3>6. heap[a].prev = NULL => hasHTable'[HASH_VALUE(Index(a))] = a
      BY <1>2, <1>7, <1>8, <2>2, <3>1, Links
    <3>7. heap[a].prev # NULL => heap'[heap[a].prev].next = a
      BY <1>6, <3>4, <3>5
    <3>8. heap'[entry].prev = a
      BY <1>5, <2>2
    <3> QED BY <1>5, <3>1, <3>2, <3>3, <3>4, <3>6, <3>7, <3>8
  <2>3. CASE a = cur /\ a # entry
    <3>1. a \in Live /\ a # NULL /\ heap'[a].prev = entry /\ heap'[a].index = Index(a)
      BY <1>5, <1>6, <1>8, <2>3 DEF Index
    <3>2. a # last /\ heap'[a].next = heap[a].next
      BY <1>3, <1>4, <1>6, <1>8, <2>3, <3>1
    <3>3. heap'[entry].next = a
      BY <1>5, <2>3
    <3>4. heap[a].next # NULL =>
            /\ heap[a].next \in Live /\ heap[heap[a].next].prev = a
            /\ Index(a) < Index(heap[a].next)
            /\ HASH_VALUE(Index(a)) = HASH_VALUE(Index(heap[a].next))
      BY <1>2, <3>1, Links
    <3>5. heap[a].next # NULL => heap[a].next # cur
      BY <1>8, <2>3, <3>1, <3>4
    <3>6. heap[a].next # NULL =>
            /\ heap'[heap[a].next].prev = a
            /\ heap'[heap[a].next].index = Index(heap[a].next)
      BY <1>6, <3>4, <3>5 DEF Index
    <3> QED BY <1>5, <3>1, <3>2, <3>3, <3>4, <3>6
  <2>4. CASE a # cur /\ a # last /\ a # entry
    <3>1. /\ a \in Live /\ a # NULL /\ heap'[a].index = Index(a)
          /\ heap'[a].next = heap[a].next /\ heap'[a].prev = heap[a].prev
      BY <1>5, <1>6, <1>8, <2>4 DEF Index
    <3>2. heap[a].next # NULL =>
            /\ heap[a].next \in Live /\ heap[heap[a].next].prev = a
            /\ Index(a) < Index(heap[a].next)
            /\ HASH_VALUE(Index(a)) = HASH_VALUE(Index(heap[a].next))
      BY <1>2, <3>1, Links
    <3>3. heap[a].prev # NULL =>
            heap[a].prev \in Live /\ heap[heap[a].prev].next = a
      BY <1>2, <3>1, Links
    <3>4. heap[a].next # NULL => heap[a].next # cur
      <4> SUFFICES ASSUME heap[a].next # NULL, heap[a].next = cur PROVE FALSE
        OBVIOUS
      <4>1. heap[cur].prev = a /\ heap[cur].prev = last
        BY <1>3, <3>2
      <4> QED BY <2>4, <4>1
    <3>5. heap[a].prev # NULL => heap[a].prev # last
      <4> SUFFICES ASSUME heap[a].prev # NULL, heap[a].prev = last PROVE FALSE
        OBVIOUS
      <4>1. heap[last].next = a /\ heap[last].next = cur
        BY <1>3, <3>3
      <4> QED BY <2>4, <4>1
    <3>6. heap[a].next # NULL =>
            /\ heap'[heap[a].next].prev = a
            /\ heap'[heap[a].next].index = Index(heap[a].next)
      BY <1>6, <3>2, <3>4 DEF Index
    <3>7. heap[a].prev # NULL => heap'[heap[a].prev].next = a
      BY <1>6, <3>3, <3>5
    <3>8. heap[a].prev = NULL => hasHTable'[HASH_VALUE(Index(a))] = a
      <4> SUFFICES ASSUME heap[a].prev = NULL
                   PROVE  hasHTable'[HASH_VALUE(Index(a))] = a
        OBVIOUS
      <4>1. hasHTable[HASH_VALUE(Index(a))] = a
        BY <1>2, <3>1, Links
      <4>2. ~ (HASH_VALUE(Index(a)) = h /\ last = NULL)
        BY <1>3, <2>4, <4>1
      <4> QED BY <1>7, <1>8, <3>1, <4>1, <4>2
    <3> QED BY <1>5, <3>1, <3>2, <3>3, <3>6, <3>7, <3>8
  <2> QED BY <2>1, <2>2, <2>3, <2>4
<1> QED BY <1>2, <1>9, <1>10 DEF ListsSound, Index

\* insertValueInHashTable keeps the invariant.
LEMMA InsertStep ==
  ASSUME HInv, NEW k \in Keys, NEW b \in Blocks, insertValueInHashTable(k, b)
  PROVE  HInv'
<1>1. PICK entry, last, cur : InsertedAt(k, b, entry, last, cur)
  BY InsertEffect
<1>2. /\ elements' = elements + 1 /\ it' = NoIterator /\ seen' = <<>>
      /\ ret' = Result("insert", k, NULL) /\ ready /\ ready'
  BY DEF insertValueInHashTable
<1>3. TypeOK'
  <2>1. elements' \in Nat /\ ready' \in BOOLEAN
    BY <1>2 DEF HInv, TypeOK
  <2>2. heap' \in [Addr -> HtEntry \cup {NULL}] /\ hasHTable' \in [Bins -> Pointer]
    BY <1>1 DEF InsertedAt
  <2> QED BY <1>2, <2>1, <2>2, NoIteratorType, EmptySeen, ResultType DEF TypeOK
<1>4. ElementsCounted'
  <2>1. Live' = Live \cup {entry} /\ entry \notin Live
    BY <1>1 DEF InsertedAt
  <2>2. Cardinality(Live') = Cardinality(Live) + 1
    BY <2>1, LiveIsFinite, FS_AddElement
  <2> QED BY <1>2, <2>2 DEF HInv, ElementsCounted
<1>5. IteratorSound'
  BY <1>2, NoIteratorType DEF IteratorSound
<1> QED BY <1>2, <1>3, <1>4, <1>5, InsertKeepsLists DEF HInv

\* What a deletion changes: the neighbours of an entry become neighbours.
DeletedAt(k, e) ==
  /\ e \in Live /\ Index(e) = k
  /\ Live' = Live \ {e}
  /\ \A a \in Live' :
       /\ heap'[a].index = heap[a].index /\ heap'[a].block = heap[a].block
       /\ heap'[a].next = IF a = heap[e].prev THEN heap[e].next ELSE heap[a].next
       /\ heap'[a].prev = IF a = heap[e].next THEN heap[e].prev ELSE heap[a].prev
  /\ heap' \in [Addr -> HtEntry \cup {NULL}]
  /\ hasHTable' \in [Bins -> Pointer]
  /\ \A c \in Bins :
       hasHTable'[c] = IF c = HASH_VALUE(k) /\ hasHTable[c] = e
                       THEN heap[e].next ELSE hasHTable[c]

\* deleteValueFromHashTable takes out the entry it found.
LEMMA DeleteEffect ==
  ASSUME HInv, NEW k \in Keys, deleteValueFromHashTable(k)
  PROVE  DeletedAt(k, DeleteEntry(k))
<1> DEFINE e == DeleteEntry(k)
<1>1. SoundTable /\ e # NULL
  BY DEF HInv, SoundTable, deleteValueFromHashTable
<1>2. HASH_VALUE(k) \in Bins
  BY HashInBins
<1>3. e \in Live /\ Index(e) = k
  BY <1>1, DeleteEntryFinds
<1>4. /\ hasHTable' = IF hasHTable[HASH_VALUE(k)] = e
                      THEN [hasHTable EXCEPT ![HASH_VALUE(k)] = heap[e].next]
                      ELSE hasHTable
      /\ heap' = [a \in Addr |->
           IF a = e THEN NULL
           ELSE IF a = heap[e].prev THEN [heap[a] EXCEPT !.next = heap[e].next]
           ELSE IF a = heap[e].next THEN [heap[a] EXCEPT !.prev = heap[e].prev]
           ELSE heap[a]]
  BY DEF deleteValueFromHashTable
<1> HIDE DEF e
<1> DEFINE p == heap[e].prev
           n == heap[e].next
<1>5. /\ n # NULL => n \in Live /\ Index(e) < Index(n) /\ heap[n].prev = e
      /\ p # NULL => p \in Live /\ heap[p].next = e /\ Index(p) < Index(e)
  <2>1. e # NULL
    BY <1>1
  <2> QED BY <1>1, <1>3, <2>1, Links
<1>6. p # NULL => p # n
  <2> SUFFICES ASSUME p # NULL, p = n PROVE FALSE
    OBVIOUS
  <2>1. Index(p) \in Nat /\ Index(e) \in Nat
    BY <1>1, <1>3, <1>5, LiveEntry DEF SoundTable
  <2> QED BY <1>5, <2>1
<1>7. p \in Pointer /\ n \in Pointer
  BY <1>1, <1>3, LiveEntry DEF SoundTable
<1> HIDE DEF p, n
<1>8. heap' = [a \in Addr |->
           IF a = e THEN NULL
           ELSE IF a = p THEN [heap[a] EXCEPT !.next = n]
           ELSE IF a = n THEN [heap[a] EXCEPT !.prev = p]
           ELSE heap[a]]
  BY <1>4 DEF p, n
<1>9. ASSUME NEW a \in Live, a # e
      PROVE  /\ heap'[a] \in HtEntry /\ heap'[a] # NULL
             /\ heap'[a].index = heap[a].index /\ heap'[a].block = heap[a].block
             /\ heap'[a].next = IF a = p THEN n ELSE heap[a].next
             /\ heap'[a].prev = IF a = n THEN p ELSE heap[a].prev
  <2>1. heap[a] \in HtEntry /\ heap[a] # NULL /\ a \in Addr /\ a # NULL
    BY <1>1, LiveEntry DEF SoundTable
  <2>2. PICK x \in HtEntry : x = heap[a]
    BY <2>1
  <2>3. CASE a = p
    <3>1. heap'[a] = [x EXCEPT !.next = n] /\ a # n
      BY <1>6, <1>8, <1>9, <2>1, <2>2, <2>3
    <3>2. /\ [x EXCEPT !.next = n] \in HtEntry
          /\ [x EXCEPT !.next = n].index = x.index
          /\ [x EXCEPT !.next = n].block = x.block
          /\ [x EXCEPT !.next = n].prev = x.prev
          /\ [x EXCEPT !.next = n].next = n
      BY <1>7, Relinked
    <3>3. heap'[a] # NULL
      BY <3>1, <3>2, HashTableAssumption
    <3> QED BY <2>2, <2>3, <3>1, <3>2, <3>3
  <2>4. CASE a = n /\ a # p
    <3>1. heap'[a] = [x EXCEPT !.prev = p]
      BY <1>8, <1>9, <2>1, <2>2, <2>4
    <3>2. /\ [x EXCEPT !.prev = p] \in HtEntry
          /\ [x EXCEPT !.prev = p].index = x.index
          /\ [x EXCEPT !.prev = p].block = x.block
          /\ [x EXCEPT !.prev = p].next = x.next
          /\ [x EXCEPT !.prev = p].prev = p
      BY <1>7, Relinked
    <3>3. heap'[a] # NULL
      BY <3>1, <3>2, HashTableAssumption
    <3> QED BY <2>2, <2>4, <3>1, <3>2, <3>3
  <2>5. CASE a # n /\ a # p
    BY <1>8, <1>9, <2>1, <2>5
  <2> QED BY <2>3, <2>4, <2>5
<1>10. ASSUME NEW a \in Addr, a \notin Live \/ a = e PROVE heap'[a] = NULL
  <2>1. CASE a = e
    BY <1>8, <2>1
  <2>2. CASE a \notin Live
    <3>1. heap[a] = NULL /\ a # NULL
      BY <2>2, HashTableAssumption DEF Live
    <3>2. a # p /\ a # n
      BY <1>5, <2>2, <3>1 DEF p, n
    <3> QED BY <1>8, <3>1, <3>2
  <2> QED BY <1>10, <2>1, <2>2
<1>11. Live' = Live \ {e}
  BY <1>9, <1>10 DEF Live
<1>12. heap' \in [Addr -> HtEntry \cup {NULL}]
  <2>1. \A a \in Addr : heap'[a] \in HtEntry \cup {NULL}
    BY <1>9, <1>10
  <2>2. heap' = [a \in Addr |-> heap'[a]]
    BY <1>8
  <2> QED BY <2>1, <2>2
<1>13. hasHTable \in [Bins -> Pointer]
  BY DEF HInv, TypeOK
<1>14. /\ hasHTable' \in [Bins -> Pointer]
       /\ \A c \in Bins :
            hasHTable'[c] = IF c = HASH_VALUE(k) /\ hasHTable[c] = e
                            THEN n ELSE hasHTable[c]
  BY <1>2, <1>4, <1>7, <1>13 DEF n
<1>15. \A a \in Live' : a \in Live /\ a # e
  BY <1>11
<1>16. \A a \in Live' :
       /\ heap'[a].index = heap[a].index /\ heap'[a].block = heap[a].block
       /\ heap'[a].next = IF a = p THEN n ELSE heap[a].next
       /\ heap'[a].prev = IF a = n THEN p ELSE heap[a].prev
  BY <1>9, <1>15
<1>17. DeletedAt(k, e)
  BY <1>3, <1>11, <1>12, <1>14, <1>16 DEF DeletedAt, p, n
<1> QED BY <1>17 DEF e

\* A deletion keeps the lists sound.
LEMMA DeleteKeepsLists ==
  ASSUME HInv, NEW k \in Keys, deleteValueFromHashTable(k)
  PROVE  ListsSound'
<1> DEFINE e == DeleteEntry(k)
           h == HASH_VALUE(k)
           p == heap[e].prev
           n == heap[e].next
<1>1. SoundTable /\ ready' /\ e # NULL
  BY DEF HInv, SoundTable, deleteValueFromHashTable
<1>2. h \in Bins
  BY HashInBins
<1>3. DeletedAt(k, e)
  BY DeleteEffect
<1> HIDE DEF e
<1>4. /\ e \in Live /\ e # NULL /\ Index(e) = k /\ Index(e) \in Nat
      /\ HASH_VALUE(Index(e)) = h
  BY <1>1, <1>3, LiveEntry DEF DeletedAt, SoundTable
<1>5. /\ n # NULL => /\ n \in Live /\ heap[n].prev = e /\ Index(e) < Index(n)
                     /\ HASH_VALUE(Index(n)) = h
      /\ p # NULL => /\ p \in Live /\ heap[p].next = e /\ Index(p) < Index(e)
                     /\ HASH_VALUE(Index(p)) = h
      /\ p = NULL => hasHTable[h] = e
  <2>1. p # NULL => p \in Live /\ heap[p].next = e
    BY <1>1, <1>4, Links
  <2>2. p # NULL => /\ Index(p) < Index(e)
                    /\ HASH_VALUE(Index(p)) = HASH_VALUE(Index(e))
    BY <1>1, <1>4, <2>1, Links
  <2> QED BY <1>1, <1>4, <2>1, <2>2, Links
<1>6. hasHTable[h] = e => p = NULL
  BY <1>1, <1>2, <1>4, Heads
<1> HIDE DEF h, p, n
<1>7. \A a \in Live' :
       /\ a \in Live /\ a # e
       /\ heap'[a].index = heap[a].index
       /\ heap'[a].next = IF a = p THEN n ELSE heap[a].next
       /\ heap'[a].prev = IF a = n THEN p ELSE heap[a].prev
  BY <1>3 DEF DeletedAt, p, n
<1>8. \A a \in Live : a # e => a \in Live'
  BY <1>3 DEF DeletedAt
<1>9. \A c \in Bins : hasHTable'[c] = IF c = h /\ hasHTable[c] = e
                                      THEN n ELSE hasHTable[c]
  BY <1>3 DEF DeletedAt, n, h
<1>10. \A a \in Live : HASH_VALUE(Index(a)) \in Bins /\ a # NULL /\ Index(a) \in Nat
  BY <1>1, LiveEntry DEF SoundTable
<1>11. /\ n # NULL => n \in Live' /\ heap'[n].prev = p /\ heap'[n].index = Index(n)
       /\ p # NULL => p \in Live' /\ heap'[p].next = n /\ heap'[p].index = Index(p)
  <2>1. n # e /\ p # e
    BY <1>4, <1>5
  <2> QED BY <1>5, <1>7, <1>8, <2>1 DEF Index
<1>12. p # NULL /\ n # NULL => Index(p) < Index(n)
  BY <1>4, <1>5, <1>10
<1>13. ASSUME NEW c \in Bins, hasHTable'[c] # NULL
       PROVE  /\ hasHTable'[c] \in Live' /\ heap'[hasHTable'[c]].prev = NULL
              /\ HASH_VALUE(heap'[hasHTable'[c]].index) = c
  <2>1. CASE c = h /\ hasHTable[c] = e
    BY <1>5, <1>6, <1>9, <1>11, <1>13, <2>1
  <2>2. CASE ~ (c = h /\ hasHTable[c] = e)
    <3>1. hasHTable'[c] = hasHTable[c] /\ hasHTable[c] # NULL
      BY <1>9, <1>13, <2>2
    <3>2. /\ hasHTable[c] \in Live /\ HASH_VALUE(Index(hasHTable[c])) = c
          /\ heap[hasHTable[c]].prev = NULL
      BY <1>1, <3>1, Heads DEF OnList
    <3>3. hasHTable[c] # e
      BY <1>4, <2>2, <3>2
    <3>4. hasHTable[c] # n
      BY <1>4, <1>5, <3>1, <3>2
    <3> QED BY <1>7, <1>8, <3>1, <3>2, <3>3, <3>4 DEF Index
  <2> QED BY <2>1, <2>2
<1>14. ASSUME NEW a \in Live'
       PROVE  LET x == heap'[a].next  y == heap'[a].prev IN
              /\ x # NULL => /\ x \in Live' /\ heap'[x].prev = a
                             /\ heap'[a].index < heap'[x].index
                             /\ HASH_VALUE(heap'[a].index) = HASH_VALUE(heap'[x].index)
              /\ y # NULL => y \in Live' /\ heap'[y].next = a
              /\ y = NULL => hasHTable'[HASH_VALUE(heap'[a].index)] = a
  <2>1. a \in Live /\ a # e /\ a # NULL /\ heap'[a].index = Index(a)
    BY <1>7, <1>10 DEF Index
  <2>2. heap[a].next # NULL =>
          /\ heap[a].next \in Live /\ heap[heap[a].next].prev = a
          /\ Index(a) < Index(heap[a].next)
          /\ HASH_VALUE(Index(a)) = HASH_VALUE(Index(heap[a].next))
    BY <1>1, <2>1, Links
  <2>3. /\ heap[a].prev # NULL =>
             heap[a].prev \in Live /\ heap[heap[a].prev].next = a
        /\ heap[a].prev = NULL => hasHTable[HASH_VALUE(Index(a))] = a
    BY <1>1, <2>1, Links
  <2>4. heap'[a].next # NULL =>
          LET x == heap'[a].next IN
          /\ x \in Live' /\ heap'[x].prev = a
          /\ heap'[a].index < heap'[x].index
          /\ HASH_VALUE(heap'[a].index) = HASH_VALUE(heap'[x].index)
    <3>1. CASE a = p
      <4>1. heap'[a].next = n
        BY <1>7, <3>1
      <4> QED BY <1>5, <1>11, <1>12, <2>1, <3>1, <4>1
    <3>2. CASE a # p
      <4>1. heap'[a].next = heap[a].next
        BY <1>7, <3>2
      <4> SUFFICES ASSUME heap[a].next # NULL
                   PROVE  /\ heap[a].next \in Live' /\ heap'[heap[a].next].prev = a
                          /\ heap'[heap[a].next].index = Index(heap[a].next)
        BY <2>1, <2>2, <4>1
      <4>2. heap[a].next # e
        BY <2>2, <3>2 DEF p
      <4>3. heap[a].next # n
        BY <1>5, <2>1, <2>2
      <4> QED BY <1>7, <1>8, <2>2, <4>2, <4>3 DEF Index
    <3> QED BY <3>1, <3>2
  <2>5. LET y == heap'[a].prev IN
        /\ y # NULL => y \in Live' /\ heap'[y].next = a
        /\ y = NULL => hasHTable'[HASH_VALUE(heap'[a].index)] = a
    <3>1. CASE a = n
      <4>1. heap'[a].prev = p
        BY <1>7, <3>1
      <4>2. p = NULL => hasHTable'[h] = n
        BY <1>2, <1>5, <1>9
      <4> QED BY <1>5, <1>11, <2>1, <3>1, <4>1, <4>2
    <3>2. CASE a # n
      <4>1. heap'[a].prev = heap[a].prev
        BY <1>7, <3>2
      <4>2. CASE heap[a].prev # NULL
        <5>1. heap[a].prev # e
          BY <2>3, <3>2, <4>2 DEF n
        <5>2. heap[a].prev # p
          BY <1>5, <2>1, <2>3, <4>2
        <5> QED BY <1>7, <1>8, <2>3, <4>1, <4>2, <5>1, <5>2
      <4>3. CASE heap[a].prev = NULL
        <5>1. hasHTable[HASH_VALUE(Index(a))] = a
          BY <2>3, <4>3
        <5> QED BY <1>9, <1>10, <2>1, <4>1, <4>3, <5>1
      <4> QED BY <4>2, <4>3
    <3> QED BY <3>1, <3>2
  <2> QED BY <2>4, <2>5
<1> QED BY <1>1, <1>13, <1>14 DEF ListsSound, Index

\* deleteValueFromHashTable keeps the invariant.
LEMMA DeleteStep ==
  ASSUME HInv, NEW k \in Keys, deleteValueFromHashTable(k)
  PROVE  HInv'
<1> DEFINE e == DeleteEntry(k)
<1>1. DeletedAt(k, e) /\ SoundTable
  BY DeleteEffect DEF deleteValueFromHashTable, HInv, SoundTable
<1>2. /\ elements' = elements - 1 /\ it' = NoIterator /\ seen' = <<>>
      /\ ret' = Result("delete", k, BlockOf(e)) /\ ready /\ ready'
  BY DEF deleteValueFromHashTable
<1> HIDE DEF e
<1>3. e \in Live /\ Live' = Live \ {e}
  BY <1>1 DEF DeletedAt
<1>4. Cardinality(Live) \in Nat /\ Cardinality(Live') \in Nat
      /\ Cardinality(Live') = Cardinality(Live) - 1
  <2>1. IsFiniteSet(Live') /\ Cardinality(Live') = Cardinality(Live) - 1
    BY <1>3, LiveIsFinite, FS_RemoveElement
  <2> QED BY <2>1, LiveIsFinite, FS_CardinalityType
<1>5. elements' = Cardinality(Live')
  BY <1>2, <1>4 DEF HInv, ElementsCounted
<1>6. TypeOK'
  <2>1. BlockOf(e) \in Blocks \cup {NULL}
    BY <1>3, BlockOfType DEF HInv
  <2>2. heap' \in [Addr -> HtEntry \cup {NULL}] /\ hasHTable' \in [Bins -> Pointer]
    BY <1>1 DEF DeletedAt
  <2>3. ret' \in [call : {"none", "insert", "find", "delete", "iterate"},
                  index : Keys \cup {NULL}, block : Blocks \cup {NULL}]
    BY <1>2, <2>1, ResultType
  <2>4. elements' \in Nat /\ ready' \in BOOLEAN
    BY <1>2, <1>4, <1>5
  <2> QED BY <1>2, <2>2, <2>3, <2>4, NoIteratorType, EmptySeen DEF TypeOK
<1>7. IteratorSound'
  BY <1>2, NoIteratorType DEF IteratorSound
<1> QED BY <1>2, <1>5, <1>6, <1>7, DeleteKeepsLists DEF HInv, ElementsCounted

\* A call that only answers.
LEMMA AnswerStep ==
  ASSUME HInv, NEW call \in {"none", "insert", "find", "delete", "iterate"},
         NEW k \in Keys \cup {NULL}, NEW b \in Blocks \cup {NULL},
         ret' = Result(call, k, b),
         UNCHANGED <<ready, hasHTable, heap, elements, it, seen>>
  PROVE  HInv'
<1>1. TypeOK'
  BY ResultType DEF HInv, TypeOK
<1>2. ListsSound'
  BY DEF HInv, ListsSound, Live, Index
<1>3. ElementsCounted'
  BY DEF HInv, ElementsCounted, Live
<1>4. IteratorSound'
  BY DEF HInv, IteratorSound, Passed, OnList, Live, Index
<1>5. (~ ready => hasHTable = [c \in Bins |-> NULL])'
  BY DEF HInv
<1> QED BY <1>1, <1>2, <1>3, <1>4, <1>5 DEF HInv

\* findValueInHashTable keeps the invariant.
LEMMA FindStep ==
  ASSUME HInv, NEW k \in Keys, findValueInHashTable(k)
  PROVE  HInv'
<1>1. SoundTable
  BY DEF HInv, SoundTable, findValueInHashTable
<1>2. FindEntry(k) = NULL \/ FindEntry(k) \in Live
  BY <1>1, FindEntryFinds
<1>3. BlockOf(FindEntry(k)) \in Blocks \cup {NULL}
  BY <1>2, BlockOfType DEF HInv
<1> DEFINE found == BlockOf(FindEntry(k))
<1>4. /\ ret' = Result("find", k, found)
      /\ UNCHANGED <<ready, hasHTable, heap, elements, it, seen>>
  BY DEF findValueInHashTable
<1> HIDE DEF found
<1>5. found \in Blocks \cup {NULL}
  BY <1>3 DEF found
<1> QED BY <1>4, <1>5, AnswerStep

\* So does a deletion that finds nothing.
LEMMA MissStep ==
  ASSUME HInv, NEW k \in Keys, deleteMisses(k)
  PROVE  HInv'
<1>1. /\ ret' = Result("delete", k, NULL)
      /\ UNCHANGED <<ready, hasHTable, heap, elements, it, seen>>
  BY DEF deleteMisses
<1> QED BY <1>1, AnswerStep

\* A new walk has passed nothing.
LEMMA BeginWalkStep == HInv /\ initHashTableIterator => HInv'
<1> SUFFICES ASSUME HInv, initHashTableIterator PROVE HInv'
  OBVIOUS
<1>1. /\ ready /\ it' = [idx |-> 0, ptr |-> NULL, on |-> TRUE] /\ seen' = <<>>
      /\ UNCHANGED <<ready, hasHTable, heap, elements, ret>>
  BY DEF initHashTableIterator
<1>2. TypeOK'
  <2>1. it' \in [idx : 0..TableSize, ptr : Pointer, on : BOOLEAN]
    BY <1>1, HashTableAssumption DEF Pointer
  <2> QED BY <1>1, <2>1, EmptySeen DEF HInv, TypeOK
<1>3. ListsSound' /\ ElementsCounted'
  BY <1>1 DEF HInv, ListsSound, ElementsCounted, Live, Index
<1>4. Passed' = {}
  <2>1. ASSUME NEW a \in Live' PROVE a \notin Passed'
    <3>1. a \in Live /\ heap'[a].index = Index(a) /\ it'.ptr = NULL /\ it'.idx = 0
      BY <1>1, <2>1 DEF Live, Index
    <3>2. HASH_VALUE(Index(a)) \in Nat
      BY <3>1, LiveEntry DEF HInv, Bins
    <3> QED BY <3>1, <3>2 DEF Passed, Index
  <2> QED BY <2>1 DEF Passed
<1>5. ToSet(seen') = {} /\ Len(seen') = 0 /\ Cardinality({}) = 0
  BY <1>1, FS_EmptySet DEF ToSet
<1>6. IteratorSound'
  BY <1>1, <1>4, <1>5 DEF IteratorSound
<1> QED BY <1>1, <1>2, <1>3, <1>6 DEF HInv

\* One more entry in the history of a walk.
LEMMA AppendSeen ==
  ASSUME NEW s \in Seq(Addr), NEW a \in Addr
  PROVE  /\ Append(s, a) \in Seq(Addr)
         /\ Len(Append(s, a)) = Len(s) + 1
         /\ ToSet(Append(s, a)) = ToSet(s) \cup {a}
<1>1. /\ Append(s, a) \in Seq(Addr) /\ Len(Append(s, a)) = Len(s) + 1
      /\ Len(s) \in Nat /\ DOMAIN s = 1..Len(s)
      /\ DOMAIN Append(s, a) = 1..(Len(s) + 1)
      /\ \A i \in 1..Len(s) : Append(s, a)[i] = s[i]
      /\ Append(s, a)[Len(s) + 1] = a
  OBVIOUS
<1>2. 1..(Len(s) + 1) = 1..Len(s) \cup {Len(s) + 1}
  BY <1>1
<1> DEFINE t == Append(s, a)
<1>3. ToSet(t) = {t[i] : i \in 1..(Len(s) + 1)} /\ ToSet(s) = {s[i] : i \in 1..Len(s)}
  BY <1>1 DEF ToSet
<1> HIDE DEF t
<1>4. \A i \in 1..Len(s) : t[i] = s[i]
  BY <1>1 DEF t
<1>5. t[Len(s) + 1] = a
  BY <1>1 DEF t
<1>6. ToSet(t) = ToSet(s) \cup {a}
  BY <1>2, <1>3, <1>4, <1>5
<1> QED BY <1>1, <1>6 DEF t

\* A step of a walk passes exactly one more entry, or comes to the end.
LEMMA IterateStep == HInv /\ iterateHashTable => HInv'
<1> SUFFICES ASSUME HInv, iterateHashTable PROVE HInv'
  OBVIOUS
<1>1. /\ SoundTable /\ ready /\ it.on
      /\ UNCHANGED <<ready, hasHTable, heap, elements>>
      /\ seen' = IF it'.ptr = NULL THEN seen ELSE Append(seen, it'.ptr)
      /\ ret' = Result("iterate", NULL, BlockOf(it'.ptr))
  BY DEF HInv, SoundTable, iterateHashTable
<1>2. /\ it \in [idx : 0..TableSize, ptr : Pointer, on : BOOLEAN]
      /\ seen \in Seq(Addr)
      /\ hasHTable \in [Bins -> Pointer]
  BY DEF HInv, TypeOK
<1>3. /\ it.ptr # NULL => it.ptr \in OnList(it.idx) /\ it.ptr \in Live
      /\ ToSet(seen) = Passed /\ Len(seen) = Cardinality(Passed)
  BY <1>1 DEF HInv, IteratorSound, OnList
<1>4. Live' = Live /\ \A a \in Live : heap'[a].index = Index(a)
  BY <1>1 DEF Live, Index
<1>5. \A a \in Live : /\ Index(a) \in Nat /\ HASH_VALUE(Index(a)) \in Bins
                      /\ HASH_VALUE(Index(a)) \in Nat /\ a # NULL
                      /\ a \in OnList(HASH_VALUE(Index(a)))
  BY <1>1, LiveEntry DEF SoundTable, Bins, OnList
<1>6. it.ptr # NULL => it.idx \in Bins /\ HASH_VALUE(Index(it.ptr)) = it.idx
  BY <1>3, <1>5 DEF OnList
<1>7. it.idx \in Nat /\ FromBin \in Nat /\ TableSize \in Nat
  BY <1>2, HashTableAssumption DEF FromBin
\* It is enough to know what the step passes.
<1>8. ASSUME NEW i \in 0..TableSize, NEW a \in OnList(i), i \in Bins,
             it' = [idx |-> i, ptr |-> a, on |-> TRUE],
             a \notin Passed, Passed' = Passed \cup {a}
      PROVE  HInv'
  <2>1. a \in Live /\ a \in Addr /\ a # NULL /\ a \in Pointer
    BY <1>5 , <1>8 DEF OnList, Live, Pointer
  <2>2. it'.ptr = a /\ it'.idx = i /\ seen' = Append(seen, a)
    BY <1>1, <1>8, <2>1
  <2>3. seen' \in Seq(Addr) /\ Len(seen') = Len(seen) + 1
        /\ ToSet(seen') = Passed'
    BY <1>2, <1>3, <1>8, <2>1, <2>2, AppendSeen
  <2>4. Cardinality(Passed') = Cardinality(Passed) + 1
    <3>1. Passed \subseteq Live
      BY DEF Passed
    <3>2. IsFiniteSet(Passed)
      BY <3>1, LiveIsFinite, FS_Subset
    <3> QED BY <1>8, <3>2, FS_AddElement
  <2>5. TypeOK'
    <3>1. it' \in [idx : 0..TableSize, ptr : Pointer, on : BOOLEAN]
      BY <1>8, <2>1
    <3>2. BlockOf(a) \in Blocks \cup {NULL}
      BY <2>1, BlockOfType DEF HInv
    <3>3. ret' = Result("iterate", NULL, BlockOf(a)')
      BY <1>1, <2>2 DEF BlockOf
    <3>4. BlockOf(a)' = BlockOf(a)
      BY <1>1 DEF BlockOf
    <3>5. ret' \in [call : {"none", "insert", "find", "delete", "iterate"},
                    index : Keys \cup {NULL}, block : Blocks \cup {NULL}]
      BY <3>2, <3>3, <3>4, ResultType
    <3> QED BY <1>1, <2>3, <3>1, <3>5 DEF HInv, TypeOK
  <2>6. ListsSound' /\ ElementsCounted'
    BY <1>1 DEF HInv, ListsSound, ElementsCounted, Live, Index
  <2>7. IteratorSound'
    <3>1. a \in Live' /\ HASH_VALUE(heap'[a].index) = i
      BY <1>4, <1>8, <2>1 DEF OnList
    <3>2. it'.ptr \in {c \in Live' : HASH_VALUE(heap'[c].index) = it'.idx}
      BY <2>2, <3>1
    <3> QED BY <1>1, <1>3, <2>3, <2>4, <3>2 DEF IteratorSound, OnList, Index
  <2> QED BY <1>1, <2>5, <2>6, <2>7 DEF HInv
\* Behind it.ptr there is nothing more on its list.
<1>9. ASSUME AfterPtr = NULL
      PROVE  \A a \in Live : a \in Passed <=> HASH_VALUE(Index(a)) < FromBin
  <2>1. CASE it.ptr = NULL
    BY <2>1 DEF Passed, FromBin
  <2>2. CASE it.ptr # NULL
    <3>1. heap[it.ptr].next = NULL /\ FromBin = it.idx + 1
      BY <1>9, <2>2 DEF AfterPtr, FromBin
    <3>2. ASSUME NEW a \in Live, HASH_VALUE(Index(a)) = it.idx
          PROVE  Index(a) <= Index(it.ptr)
      <4>1. a \in OnList(it.idx) /\ it.ptr \in OnList(it.idx) /\ it.idx \in Bins
        BY <1>3, <1>5, <1>6, <2>2, <3>2
      <4>2. ~ (Index(it.ptr) < Index(a))
        BY <1>1, <3>1, <4>1, NextIsAdjacent
      <4> QED BY <1>3, <1>5, <2>2, <4>2
    <3>3. ASSUME NEW a \in Live PROVE a \in Passed <=> HASH_VALUE(Index(a)) < FromBin
      <4>1. HASH_VALUE(Index(a)) \in Nat
        BY <1>5
      <4> HIDE DEF HASH_VALUE
      <4>2. HASH_VALUE(Index(a)) < FromBin <=>
              HASH_VALUE(Index(a)) < it.idx \/ HASH_VALUE(Index(a)) = it.idx
        BY <1>7, <3>1, <4>1
      <4> QED BY <2>2, <3>2, <4>2 DEF Passed
    <3> QED BY <3>3
  <2> QED BY <2>1, <2>2
\* An empty list has no entries.
<1>10. ASSUME NEW c \in Bins, hasHTable[c] = NULL
       PROVE  \A a \in Live : HASH_VALUE(Index(a)) # c
  BY <1>1, <1>5, <1>10, HeadIsFirst
<1>11. CASE AfterPtr # NULL /\ it' = [it EXCEPT !.ptr = AfterPtr]
  <2> DEFINE a == heap[it.ptr].next
  <2>1. it.ptr # NULL /\ AfterPtr = a /\ a # NULL
    BY <1>11 DEF AfterPtr
  <2>2. /\ a \in Live /\ Index(it.ptr) < Index(a)
        /\ HASH_VALUE(Index(a)) = it.idx /\ a \in OnList(it.idx)
    <3>1. a \in Live /\ Index(it.ptr) < Index(a)
          /\ HASH_VALUE(Index(it.ptr)) = HASH_VALUE(Index(a))
      BY <1>1, <1>3, <2>1, Links
    <3> QED BY <1>6, <2>1, <3>1 DEF OnList
  <2>3. it' = [idx |-> it.idx, ptr |-> a, on |-> TRUE]
    BY <1>1, <1>2, <1>11, <2>1
  <2> HIDE DEF a
  <2>4. Index(it.ptr) \in Nat /\ Index(a) \in Nat /\ it.ptr \in Live /\ it.idx \in Bins
    BY <1>3, <1>5, <1>6, <2>1, <2>2
  <2>5. a \notin Passed
    BY <1>7, <2>2, <2>4 DEF Passed
  <2>6. ASSUME NEW c \in Live
        PROVE  c \in Passed' <=> c \in Passed \/ c = a
    <3>1. c \in Passed' <=> \/ HASH_VALUE(Index(c)) < it.idx
                            \/ HASH_VALUE(Index(c)) = it.idx /\ Index(c) <= Index(a)
      <4>1. heap'[c].index = Index(c) /\ heap'[a].index = Index(a)
            /\ it'.ptr = a /\ it'.idx = it.idx /\ a # NULL /\ c \in Live'
        BY <1>4, <2>1, <2>2, <2>3 DEF a
      <4> QED BY <4>1 DEF Passed, Index
    <3>2. c \in Passed <=> \/ HASH_VALUE(Index(c)) < it.idx
                           \/ /\ HASH_VALUE(Index(c)) = it.idx
                              /\ Index(c) <= Index(it.ptr)
      BY <2>1 DEF Passed
    <3>3. Index(c) \in Nat
      BY <1>5
    <3>4. Index(c) <= Index(it.ptr) => Index(c) <= Index(a)
      BY <2>2, <2>4, <3>3
    <3>5. HASH_VALUE(Index(c)) = it.idx /\ Index(it.ptr) < Index(c) => Index(a) <= Index(c)
      <4> SUFFICES ASSUME HASH_VALUE(Index(c)) = it.idx, Index(it.ptr) < Index(c)
                   PROVE  Index(a) <= Index(c)
        OBVIOUS
      <4>1. c \in OnList(it.idx) /\ it.ptr \in OnList(it.idx)
        BY <1>3, <1>5, <2>1
      <4> QED BY <1>1, <2>4, <4>1, NextIsAdjacent DEF a
    <3>6. HASH_VALUE(Index(c)) = it.idx /\ Index(c) <= Index(a)
            => Index(c) <= Index(it.ptr) \/ Index(c) = Index(a)
      BY <2>4, <3>3, <3>5
    <3>7. Index(c) = Index(a) => c = a
      BY <1>1, <2>2, IndexIsUnique
    <3>8. Index(a) <= Index(a)
      BY <2>4
    <3> QED BY <2>2, <3>1, <3>2, <3>4, <3>6, <3>7, <3>8
  <2>7. Passed' = Passed \cup {a}
    <3>1. Passed' \subseteq Live /\ Passed \subseteq Live
      BY <1>4 DEF Passed
    <3> QED BY <2>2, <2>6, <3>1
  <2> QED BY <1>2, <1>7, <1>8, <2>2, <2>3, <2>4, <2>5, <2>7
<1>12. ASSUME AfterPtr = NULL, NEW b \in NextBin,
              it' = [it EXCEPT !.ptr = hasHTable[b], !.idx = b]
       PROVE  HInv'
  <2> DEFINE a == hasHTable[b]
  <2>1. b \in Bins /\ b \in Nat /\ b >= FromBin /\ a # NULL
        /\ \A c \in FromBin..(b - 1) : hasHTable[c] = NULL
    BY <1>12 DEF NextBin, Bins
  <2>2. a \in OnList(b) /\ a \in Live /\ HASH_VALUE(Index(a)) = b /\ Index(a) \in Nat
    BY <1>1, <1>5, <2>1, Heads DEF OnList
  <2>3. it' = [idx |-> b, ptr |-> a, on |-> TRUE]
    BY <1>1, <1>2, <1>12
  <2>4. a \notin Passed
    BY <1>7, <1>9, <1>12, <2>1, <2>2
  <2> HIDE DEF a
  <2>5. ASSUME NEW c \in Live
        PROVE  c \in Passed' <=> c \in Passed \/ c = a
    <3>1. c \in Passed' <=> \/ HASH_VALUE(Index(c)) < b
                            \/ HASH_VALUE(Index(c)) = b /\ Index(c) <= Index(a)
      <4>1. heap'[c].index = Index(c) /\ heap'[a].index = Index(a)
            /\ it'.ptr = a /\ it'.idx = b /\ a # NULL /\ c \in Live'
        BY <1>4, <2>1, <2>2, <2>3
      <4> QED BY <4>1 DEF Passed, Index
    <3>2. c \in Passed <=> HASH_VALUE(Index(c)) < FromBin
      BY <1>9, <1>12
    <3>3. HASH_VALUE(Index(c)) < b <=> HASH_VALUE(Index(c)) < FromBin
      <4> DEFINE hc == HASH_VALUE(Index(c))
      <4>1. hc \in Nat /\ hc \in Bins
        BY <1>5
      <4>2. ~ (hc \in FromBin..(b - 1))
        BY <1>10, <2>1, <4>1
      <4> HIDE DEF hc
      <4>3. hc < b <=> hc < FromBin
        BY <1>7, <2>1, <4>1, <4>2
      <4> QED BY <4>3 DEF hc
    <3>4. HASH_VALUE(Index(c)) = b => Index(a) <= Index(c)
      BY <1>1, <1>5, <2>1, HeadIsFirst DEF a
    <3>5. HASH_VALUE(Index(c)) = b /\ Index(c) <= Index(a) => c = a
      <4> SUFFICES ASSUME HASH_VALUE(Index(c)) = b, Index(c) <= Index(a) PROVE c = a
        OBVIOUS
      <4>1. Index(c) = Index(a)
        BY <1>5, <2>2, <3>4
      <4> QED BY <1>1, <2>2, <4>1, IndexIsUnique
    <3>6. Index(a) <= Index(a)
      BY <2>2
    <3> QED BY <2>2, <3>1, <3>2, <3>3, <3>5, <3>6
  <2>6. Passed' = Passed \cup {a}
    <3>1. Passed' \subseteq Live /\ Passed \subseteq Live
      BY <1>4 DEF Passed
    <3> QED BY <2>2, <2>5, <3>1
  <2>7. b \in 0..TableSize
    BY <2>1, HashTableAssumption DEF Bins
  <2> QED BY <1>8, <2>1, <2>2, <2>3, <2>4, <2>6, <2>7
<1>13. CASE AfterPtr = NULL /\ NextBin = {}
            /\ it' = [it EXCEPT !.ptr = NULL, !.idx = TableSize]
  <2>1. it' = [idx |-> TableSize, ptr |-> NULL, on |-> TRUE]
    BY <1>1, <1>2, <1>13
  <2>2. it'.ptr = NULL /\ it'.idx = TableSize /\ it'.on /\ seen' = seen
        /\ ret' = Result("iterate", NULL, NULL)
    BY <1>1, <2>1 DEF BlockOf
  <2>3. ASSUME NEW c \in Bins, c >= FromBin PROVE hasHTable[c] = NULL
    <3> DEFINE Bad == {j \in Bins : j >= FromBin /\ hasHTable[j] # NULL}
    <3>1. ASSUME Bad # {} PROVE FALSE
      <4>1. PICK j \in Bad : \A m \in Bad : j <= m
        <5>1. Bad \subseteq Nat
          BY DEF Bins
        <5> HIDE DEF Bad
        <5> QED BY <3>1, <5>1, LeastNumber
      <4>2. ASSUME NEW m \in FromBin..(j - 1) PROVE hasHTable[m] = NULL
        <5>1. m \in Bins /\ m >= FromBin /\ m < j /\ m \in Nat /\ j \in Nat
          BY <1>7, <4>1, HashTableAssumption DEF Bins
        <5> QED BY <4>1, <5>1
      <4> QED BY <1>13, <4>1, <4>2 DEF NextBin
    <3> QED BY <2>3, <3>1
  <2>4. Passed = Live
    <3>1. ASSUME NEW a \in Live PROVE a \in Passed
      <4>1. HASH_VALUE(Index(a)) \in Bins /\ HASH_VALUE(Index(a)) \in Nat
        BY <1>5
      <4>2. ~ (HASH_VALUE(Index(a)) >= FromBin)
        BY <1>10, <2>3, <4>1
      <4>3. HASH_VALUE(Index(a)) < FromBin
        BY <1>7, <4>1, <4>2
      <4> QED BY <1>9, <1>13, <4>3
    <3> QED BY <3>1 DEF Passed
  <2>5. Passed' = Live
    <3>1. ASSUME NEW a \in Live PROVE a \in Passed'
      <4>1. HASH_VALUE(Index(a)) < TableSize /\ heap'[a].index = Index(a) /\ a \in Live'
        BY <1>4, <1>5, HashTableAssumption DEF Bins
      <4> QED BY <2>2, <4>1 DEF Passed, Index
    <3> QED BY <1>4, <3>1 DEF Passed
  <2>6. TypeOK'
    <3>1. it' \in [idx : 0..TableSize, ptr : Pointer, on : BOOLEAN]
      BY <1>7, <2>1 DEF Pointer
    <3>2. ret' \in [call : {"none", "insert", "find", "delete", "iterate"},
                    index : Keys \cup {NULL}, block : Blocks \cup {NULL}]
      BY <2>2, ResultType
    <3> QED BY <1>1, <2>2, <3>1, <3>2 DEF HInv, TypeOK
  <2>7. ListsSound' /\ ElementsCounted'
    BY <1>1 DEF HInv, ListsSound, ElementsCounted, Live, Index
  <2>8. IteratorSound'
    BY <1>1, <1>3, <2>2, <2>4, <2>5 DEF IteratorSound
  <2> QED BY <1>1, <2>6, <2>7, <2>8 DEF HInv
<1> QED BY <1>11, <1>12, <1>13 DEF iterateHashTable

\* Every call keeps the invariant.
LEMMA HNext == HInv /\ [Next]_vars => HInv'
<1> SUFFICES ASSUME HInv, [Next]_vars PROVE HInv'
  OBVIOUS
<1>1. CASE initHashTable
  BY <1>1, InitStep
<1>2. CASE cleanupHashTable
  BY <1>2, CleanupStep
<1>3. ASSUME NEW k \in Keys, findValueInHashTable(k) PROVE HInv'
  BY <1>3, FindStep
<1>4. ASSUME NEW k \in Keys, deleteValueFromHashTable(k) PROVE HInv'
  BY <1>4, DeleteStep
<1>5. ASSUME NEW k \in Keys, deleteMisses(k) PROVE HInv'
  BY <1>5, MissStep
<1>6. ASSUME NEW k \in Keys, NEW b \in Blocks, insertValueInHashTable(k, b) PROVE HInv'
  BY <1>6, InsertStep
<1>7. CASE initHashTableIterator
  BY <1>7, BeginWalkStep
<1>8. CASE iterateHashTable
  BY <1>8, IterateStep
<1>9. CASE UNCHANGED vars
  <2>1. UNCHANGED <<ready, hasHTable, heap, elements, it, seen, ret>>
    BY <1>9 DEF vars
  <2>2. TypeOK' /\ ListsSound' /\ ElementsCounted'
    BY <2>1 DEF HInv, TypeOK, ListsSound, ElementsCounted, Live, Index
  <2>3. IteratorSound'
    BY <2>1 DEF HInv, IteratorSound, Passed, OnList, Live, Index
  <2> QED BY <2>1, <2>2, <2>3 DEF HInv
<1> QED BY <1>1, <1>2, <1>3, <1>4, <1>5, <1>6, <1>7, <1>8, <1>9 DEF Next

\* The inductive invariant holds in every state the table can reach.
THEOREM TableInvariant == Spec => []HInv
  BY HInit, HNext, PTL DEF Spec

\* Every variable of the table stays in its range, whatever is inserted and
\* deleted: elements never wraps below zero.
THEOREM TableTyped == Spec => []TypeOK
<1>1. HInv => TypeOK
  BY DEF HInv
<1> QED BY <1>1, TableInvariant, PTL

\* insertValueInHashTable and deleteValueFromHashTable keep every list sorted,
\* doubly linked and free of freed entries.
THEOREM TableListsSound == Spec => []ListsSound
<1>1. HInv => ListsSound
  BY DEF HInv
<1> QED BY <1>1, TableInvariant, PTL

\* elements is the number of entries, and cleanupHashTable leaks none.
THEOREM TableCounted == Spec => []ElementsCounted
<1>1. HInv => ElementsCounted
  BY DEF HInv
<1> QED BY <1>1, TableInvariant, PTL

\* iterateHashTable returns every entry exactly once.
THEOREM TableWalked == Spec => []WalkComplete
<1>1. HInv => WalkComplete
  <2> SUFFICES ASSUME HInv, it.on, it.idx = TableSize
               PROVE  ToSet(seen) = Live /\ Len(seen) = Cardinality(Live)
    BY DEF WalkComplete
  <2>1. \A a \in Live : HASH_VALUE(Index(a)) < TableSize
    BY LiveEntry, HashTableAssumption DEF HInv, Bins
  <2>2. Passed = Live
    BY <2>1 DEF Passed
  <2> QED BY <2>2 DEF HInv, IteratorSound
<1> QED BY <1>1, TableInvariant, PTL

-----------------------------------------------------------------------------
(***************************************************************************)
(* The table is a dictionary                                               *)
(***************************************************************************)

\* The dictionary maps the index value of each entry to its block.
DictionaryHolds ==
  /\ DOMAIN dictionary = {Index(a) : a \in Live}
  /\ \A a \in Live : dictionary[Index(a)] = heap[a].block
  /\ dictionary = [k \in DOMAIN dictionary |-> dictionary[k]]

\* The dictionary is that of the allocated entries.
LEMMA DictionaryIsLive == HInv => DictionaryHolds
<1> SUFFICES ASSUME HInv PROVE DictionaryHolds
  OBVIOUS
<1>1. EntriesFound /\ IndexUnique
  BY EntriesAreFound
<1>2. dictionary = [k \in {Index(a) : a \in Live} |->
                      BlockOf(CHOOSE a \in Live : Index(a) = k)]
  <2> DEFINE F(S) == [k \in {Index(a) : a \in S} |->
                        BlockOf(CHOOSE a \in S : Index(a) = k)]
             Found == UNION {Chain(b) : b \in Bins}
  <2>1. dictionary = F(Found)
    BY DEF dictionary
  <2>2. Found = Live
    BY <1>1 DEF EntriesFound
  <2> HIDE DEF Found
  <2>3. F(Found) = F(Live)
    BY <2>2
  <2> QED BY <2>1, <2>3
<1>3. ASSUME NEW a \in Live PROVE dictionary[Index(a)] = heap[a].block
  <2> DEFINE c == CHOOSE d \in Live : Index(d) = Index(a)
  <2>1. c \in Live /\ Index(c) = Index(a)
    OBVIOUS
  <2>2. c = a
    <3> HIDE DEF c
    <3> QED BY <1>1, <2>1 DEF IndexUnique
  <2>3. dictionary[Index(a)] = BlockOf(c)
    BY <1>2
  <2>4. BlockOf(a) = heap[a].block
    BY LiveEntry DEF HInv, BlockOf
  <2> QED BY <2>2, <2>3, <2>4
<1>4. DOMAIN dictionary = {Index(a) : a \in Live}
      /\ dictionary = [k \in DOMAIN dictionary |-> dictionary[k]]
  BY <1>2
<1> QED BY <1>3, <1>4 DEF DictionaryHolds

\* The dictionary after a step is the function f, given what f maps.
LEMMA NextDictionary ==
  ASSUME DictionaryHolds', NEW f,
         f = [k \in DOMAIN f |-> f[k]],
         DOMAIN f = {heap'[a].index : a \in Live'},
         \A a \in Live' : f[heap'[a].index] = heap'[a].block
  PROVE  dictionary' = f
<1> DEFINE d == dictionary'
<1>1. /\ DOMAIN d = {heap'[a].index : a \in Live'}
      /\ \A a \in Live' : d[heap'[a].index] = heap'[a].block
      /\ d = [k \in DOMAIN d |-> d[k]]
  BY DEF DictionaryHolds, Index
<1> HIDE DEF d
<1>2. DOMAIN d = DOMAIN f /\ \A k \in DOMAIN f : d[k] = f[k]
  BY <1>1
<1>3. d = f
  BY <1>1, <1>2
<1> QED BY <1>3 DEF d

\* A call that leaves the entries alone leaves the dictionary alone.
LEMMA SameDictionary ==
  ASSUME DictionaryHolds, DictionaryHolds', UNCHANGED heap
  PROVE  dictionary' = dictionary
<1> DEFINE f == dictionary
<1>1. /\ f = [k \in DOMAIN f |-> f[k]]
      /\ DOMAIN f = {heap'[a].index : a \in Live'}
      /\ \A a \in Live' : f[heap'[a].index] = heap'[a].block
  <2>1. Live' = Live
    BY DEF Live
  <2> QED BY <2>1 DEF DictionaryHolds, Index
<1> HIDE DEF f
<1>2. dictionary' = f
  BY <1>1, NextDictionary
<1> QED BY <1>2 DEF f

\* Without entries the dictionary is empty.
LEMMA EmptyDictionary ==
  ASSUME DictionaryHolds', Live' = {}
  PROVE  dictionary' = Promised!Empty
<1> DEFINE d == dictionary'
<1>1. DOMAIN d = {} /\ d = [k \in DOMAIN d |-> d[k]]
  BY DEF DictionaryHolds
<1> HIDE DEF d
<1>2. d = [k \in {} |-> NULL]
  BY <1>1
<1> QED BY <1>2 DEF d, Promised!Empty

\* The block Lookup finds.
LEMMA LookupEntry ==
  ASSUME HInv, DictionaryHolds, NEW k, NEW e,
         e # NULL => e \in Live /\ Index(e) = k,
         e = NULL => \A a \in Live : Index(a) # k
  PROVE  /\ Promised!Lookup(k) = BlockOf(e)
         /\ k \in DOMAIN dictionary <=> e # NULL
<1>1. CASE e # NULL
  BY <1>1 DEF DictionaryHolds, Promised!Lookup, BlockOf
<1>2. CASE e = NULL
  BY <1>2 DEF DictionaryHolds, Promised!Lookup, BlockOf
<1> QED BY <1>1, <1>2

\* A table not yet initialised is an empty dictionary.
LEMMA DictionaryInit == HInv /\ Init => Promised!Init
<1> SUFFICES ASSUME HInv, Init PROVE Promised!Init
  OBVIOUS
<1>1. Live = {}
  BY DEF Init, Live
<1>2. DOMAIN dictionary = {} /\ dictionary = [k \in DOMAIN dictionary |-> dictionary[k]]
  BY <1>1, DictionaryIsLive DEF DictionaryHolds
<1>3. dictionary = Promised!Empty
  BY <1>2 DEF Promised!Empty
<1> QED BY <1>3 DEF Init, Promised!Init, Result, Promised!Result

\* An insertion inserts.
LEMMA DictionaryInsert ==
  ASSUME HInv, DictionaryHolds, DictionaryHolds', NEW k \in Keys, NEW b \in Blocks,
         insertValueInHashTable(k, b)
  PROVE  Promised!Insert(k, b)
<1>1. PICK entry, last, cur : InsertedAt(k, b, entry, last, cur)
  BY InsertEffect
<1>2. FindEntry(k) = NULL /\ SoundTable /\ ret' = Result("insert", k, NULL)
  BY DEF HInv, SoundTable, insertValueInHashTable
<1>3. \A a \in Live : Index(a) # k
  BY <1>2, FindEntryFinds
<1>4. k \notin DOMAIN dictionary
  BY <1>3 DEF DictionaryHolds
<1>5. /\ Live' = Live \cup {entry} /\ entry \notin Live
      /\ heap'[entry].index = k /\ heap'[entry].block = b
      /\ \A a \in Live : heap'[a].index = Index(a) /\ heap'[a].block = heap[a].block
  BY <1>1 DEF InsertedAt, Index
<1> DEFINE f == [j \in DOMAIN dictionary \cup {k} |->
                   IF j = k THEN b ELSE dictionary[j]]
<1>6. DOMAIN f = {heap'[a].index : a \in Live'}
  BY <1>5 DEF DictionaryHolds
<1>7. ASSUME NEW a \in Live' PROVE f[heap'[a].index] = heap'[a].block
  <2>1. CASE a = entry
    BY <1>5, <2>1
  <2>2. CASE a # entry
    <3>1. a \in Live /\ Index(a) \in DOMAIN dictionary /\ Index(a) # k
      BY <1>3, <1>5, <2>2 DEF DictionaryHolds
    <3> QED BY <1>5, <3>1 DEF DictionaryHolds
  <2> QED BY <2>1, <2>2
<1>8. f = [j \in DOMAIN f |-> f[j]]
  OBVIOUS
<1> HIDE DEF f
<1>9. dictionary' = f
  BY <1>6, <1>7, <1>8, NextDictionary
<1> QED BY <1>2, <1>4, <1>9 DEF f, Promised!Insert, Result, Promised!Result

\* A deletion deletes, and returns what was stored.
LEMMA DictionaryDelete ==
  ASSUME HInv, DictionaryHolds, DictionaryHolds', NEW k \in Keys,
         deleteValueFromHashTable(k)
  PROVE  Promised!Delete(k)
<1> DEFINE e == DeleteEntry(k)
<1>1. DeletedAt(k, e)
  BY DeleteEffect
<1>2. SoundTable /\ ret' = Result("delete", k, BlockOf(e))
  BY DEF HInv, SoundTable, deleteValueFromHashTable
<1>3. /\ e # NULL => e \in Live /\ Index(e) = k
      /\ e = NULL => \A a \in Live : Index(a) # k
  BY <1>2, DeleteEntryFinds
<1> HIDE DEF e
<1>4. Promised!Lookup(k) = BlockOf(e)
  BY <1>3, LookupEntry
<1>5. /\ e \in Live /\ Index(e) = k /\ Live' = Live \ {e}
      /\ \A a \in Live' : heap'[a].index = Index(a) /\ heap'[a].block = heap[a].block
  BY <1>1 DEF DeletedAt, Index
<1>6. \A a \in Live' : a \in Live /\ Index(a) # k
  BY <1>5, EntriesAreFound DEF IndexUnique
<1> DEFINE f == [j \in DOMAIN dictionary \ {k} |-> dictionary[j]]
<1>7. DOMAIN f = {heap'[a].index : a \in Live'}
  <2>1. \A a \in Live : Index(a) # k => a \in Live' /\ Index(a) = heap'[a].index
    BY <1>5
  <2> QED BY <1>5, <1>6, <2>1 DEF DictionaryHolds
<1>8. \A a \in Live' : f[heap'[a].index] = heap'[a].block
  BY <1>5, <1>6 DEF DictionaryHolds
<1>9. f = [j \in DOMAIN f |-> f[j]]
  OBVIOUS
<1> HIDE DEF f
<1>10. dictionary' = f
  BY <1>7, <1>8, <1>9, NextDictionary
<1> QED BY <1>2, <1>4, <1>10 DEF f, Promised!Delete, Result, Promised!Result

\* So does one that finds nothing.
LEMMA DictionaryMiss ==
  ASSUME HInv, DictionaryHolds, DictionaryHolds', NEW k \in Keys, deleteMisses(k)
  PROVE  Promised!Delete(k)
<1>1. SoundTable /\ ret' = Result("delete", k, NULL) /\ DeleteEntry(k) = NULL
      /\ UNCHANGED heap
  BY DEF HInv, SoundTable, deleteMisses
<1>2. \A a \in Live : Index(a) # k
  BY <1>1, DeleteEntryFinds
<1>3. Promised!Lookup(k) = NULL /\ k \notin DOMAIN dictionary
  BY <1>2 DEF DictionaryHolds, Promised!Lookup
<1>4. dictionary' = dictionary
  BY <1>1, SameDictionary
<1>5. dictionary = [j \in DOMAIN dictionary \ {k} |-> dictionary[j]]
  <2>1. DOMAIN dictionary \ {k} = DOMAIN dictionary
    BY <1>3
  <2> QED BY <2>1 DEF DictionaryHolds
<1> QED BY <1>1, <1>3, <1>4, <1>5 DEF Promised!Delete, Result, Promised!Result

\* findValueInHashTable finds what Find finds.
LEMMA DictionaryFind ==
  ASSUME HInv, DictionaryHolds, DictionaryHolds', NEW k \in Keys,
         findValueInHashTable(k)
  PROVE  Promised!Find(k)
<1> DEFINE e == FindEntry(k)
<1>1. SoundTable /\ ret' = Result("find", k, BlockOf(e)) /\ UNCHANGED heap
  BY DEF HInv, SoundTable, findValueInHashTable
<1>2. /\ e # NULL => e \in Live /\ Index(e) = k
      /\ e = NULL => \A a \in Live : Index(a) # k
  BY <1>1, FindEntryFinds
<1> HIDE DEF e
<1>3. Promised!Lookup(k) = BlockOf(e)
  BY <1>2, LookupEntry
<1>4. dictionary' = dictionary
  BY <1>1, SameDictionary
<1> QED BY <1>1, <1>3, <1>4 DEF Promised!Find, Result, Promised!Result

\* A walk returns blocks of the dictionary.
LEMMA DictionaryWalk ==
  ASSUME HInv, HInv', DictionaryHolds, DictionaryHolds', iterateHashTable
  PROVE  Promised!Walk
<1>1. /\ UNCHANGED heap /\ ret' = Result("iterate", NULL, BlockOf(it'.ptr))
      /\ ready /\ it.on
  BY DEF iterateHashTable
<1>2. it'.on /\ Live' = Live
  <2>1. it \in [idx : 0..TableSize, ptr : Pointer, on : BOOLEAN]
    BY DEF HInv, TypeOK
  <2> QED BY <1>1, <2>1 DEF iterateHashTable, Live
<1>3. it'.ptr # NULL => it'.ptr \in Live
  BY <1>2 DEF HInv, IteratorSound, OnList
<1>4. dictionary' = dictionary
  BY <1>1, SameDictionary
<1> DEFINE b == BlockOf(it'.ptr)
<1>5. b \in {dictionary[k] : k \in DOMAIN dictionary} \cup {NULL}
  <2>1. CASE it'.ptr = NULL
    BY <2>1 DEF BlockOf
  <2>2. CASE it'.ptr # NULL
    <3>1. b = heap[it'.ptr].block
      BY <1>1, <2>2 DEF BlockOf
    <3>2. /\ Index(it'.ptr) \in DOMAIN dictionary
          /\ dictionary[Index(it'.ptr)] = heap[it'.ptr].block
      BY <1>3, <2>2 DEF DictionaryHolds, Index
    <3> QED BY <3>1, <3>2
  <2> QED BY <2>1, <2>2
<1>6. ret' = Result("iterate", NULL, b)
  BY <1>1
<1> HIDE DEF b
<1> QED BY <1>4, <1>5, <1>6 DEF Promised!Walk, Result, Promised!Result

\* Every call is a call of the dictionary or changes nothing of it.
LEMMA DictionaryStep ==
  HInv /\ HInv' /\ DictionaryHolds /\ DictionaryHolds' /\ [Next]_vars
    => [Promised!Next]_<<dictionary, ret>>
<1> SUFFICES ASSUME HInv, HInv', DictionaryHolds, DictionaryHolds', [Next]_vars
             PROVE  Promised!Next \/ UNCHANGED <<dictionary, ret>>
  OBVIOUS
<1>1. CASE initHashTable
  <2>1. Live' = {} /\ ret' = Result("none", NULL, NULL)
    BY <1>1 DEF initHashTable, HInv, ElementsCounted, Live
  <2> QED BY <2>1, EmptyDictionary DEF Promised!Next, Promised!Clear, Result, Promised!Result
<1>2. CASE cleanupHashTable
  <2>1. Live' = {} /\ ret' = Result("none", NULL, NULL)
    BY <1>2 DEF cleanupHashTable, HInv, ElementsCounted
  <2> QED BY <2>1, EmptyDictionary DEF Promised!Next, Promised!Clear, Result, Promised!Result
<1>3. ASSUME NEW k \in Keys, findValueInHashTable(k) PROVE Promised!Next
  BY <1>3, DictionaryFind DEF Promised!Next
<1>4. ASSUME NEW k \in Keys, deleteValueFromHashTable(k) PROVE Promised!Next
  BY <1>4, DictionaryDelete DEF Promised!Next
<1>5. ASSUME NEW k \in Keys, deleteMisses(k) PROVE Promised!Next
  BY <1>5, DictionaryMiss DEF Promised!Next
<1>6. ASSUME NEW k \in Keys, NEW b \in Blocks, insertValueInHashTable(k, b)
      PROVE  Promised!Next
  BY <1>6, DictionaryInsert DEF Promised!Next
<1>7. CASE initHashTableIterator
  BY <1>7, SameDictionary DEF initHashTableIterator
<1>8. CASE iterateHashTable
  BY <1>8, DictionaryWalk DEF Promised!Next
<1>9. CASE UNCHANGED vars
  BY <1>9, SameDictionary DEF vars
<1> QED BY <1>1, <1>2, <1>3, <1>4, <1>5, <1>6, <1>7, <1>8, <1>9 DEF Next

\* The hash table implements the dictionary its header promises: a search
\* finds the block inserted last under that index value and not deleted since,
\* through every collision and however the lists were spliced.
THEOREM TableIsDictionary == Spec => DictionarySpec
<1>1. HInv /\ Init => Promised!Init
  BY DictionaryInit
<1>2. HInv => DictionaryHolds
  BY DictionaryIsLive
<1>3. HInv /\ HInv' /\ DictionaryHolds /\ DictionaryHolds' /\ [Next]_vars
        => [Promised!Next]_<<dictionary, ret>>
  BY DictionaryStep
<1> QED BY <1>1, <1>2, <1>3, TableInvariant, PTL
        DEF Spec, DictionarySpec, Promised!Spec
=============================================================================
