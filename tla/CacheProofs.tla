---------------------------- MODULE CacheProofs -----------------------------
(***************************************************************************)
(* Theorems about the cache, for every set of cids and buffers, all limits *)
(* and every word size.                                                    *)
(***************************************************************************)
EXTENDS Cache, FiniteSetTheorems, WellFoundedInduction, TLAPS

-----------------------------------------------------------------------------
(***************************************************************************)
(* Residues                                                                *)
(***************************************************************************)
\* Division by the word size leaves a remainder below it.
LEMMA Division ==
  ASSUME NEW w \in Nat \ {0}, NEW a \in Int
  PROVE  /\ a % w \in 0..(w - 1) /\ a \div w \in Int
         /\ a = w * (a \div w) + (a % w)
<1>1. a % w \in 0..(w - 1)
  OBVIOUS
<1>2. a \div w \in Int
  OBVIOUS
<1>3. a = w * (a \div w) + (a % w)
  BY <1>1, <1>2
<1> QED
  BY <1>1, <1>2, <1>3

\* A positive multiple of the word size is at least the word size.
LEMMA Multiple ==
  ASSUME NEW w \in Nat \ {0}, NEW m \in Int, m >= 1
  PROVE  w * m >= w
OBVIOUS

\* A number has one remainder.
LEMMA ResidueIsUnique ==
  ASSUME NEW w \in Nat \ {0}, NEW k \in Int, NEW d \in Int,
         NEW r \in 0..(w - 1), NEW s \in 0..(w - 1), w * k + r = w * d + s
  PROVE  r = s
<1>1. w * (k - d) = s - r /\ w * (d - k) = r - s
  OBVIOUS
<1>2. CASE k - d >= 1
  BY <1>1, <1>2, Multiple
<1>3. CASE d - k >= 1
  BY <1>1, <1>3, Multiple
<1>4. CASE k = d
  BY <1>1, <1>4
<1> QED
  BY <1>2, <1>3, <1>4

\* A sum of residues is the residue of the sum: the counter may wrap on the
\* way.
LEMMA ResidueOfSum ==
  ASSUME NEW w \in Nat \ {0}, NEW a \in Int, NEW b \in Int
  PROVE  ((a % w) + b) % w = (a + b) % w
<1> DEFINE q == a \div w
           u == ((a % w) + b) \div w
           v == (a + b) \div w
           r == ((a % w) + b) % w
           s == (a + b) % w
<1>1. a % w \in Int /\ a = w * q + (a % w) /\ q \in Int
  BY Division
<1>2. (a % w) + b \in Int /\ a + b \in Int
  BY <1>1
<1>3. r \in 0..(w - 1) /\ (a % w) + b = w * u + r /\ u \in Int
  BY <1>2, Division
<1>4. s \in 0..(w - 1) /\ a + b = w * v + s /\ v \in Int
  BY <1>2, Division
<1> HIDE DEF q, u, v, r, s
<1>5. w * (u + q) + r = w * v + s
  <2>1. /\ w * (u + q) = w * u + w * q
        /\ w * u \in Int /\ w * q \in Int /\ w * v \in Int
    BY <1>1, <1>3, <1>4
  <2>2. a % w \in Int /\ r \in Int /\ s \in Int /\ a \in Int /\ b \in Int
    BY <1>1, <1>3, <1>4
  <2>3. (w * u + r) - b = a - (w * q)
    BY <1>1, <1>3, <2>1, <2>2
  <2> QED
    BY <1>4, <2>1, <2>2, <2>3
<1>6. u + q \in Int
  BY <1>1, <1>3
<1>7. r = s
  BY <1>3, <1>4, <1>5, <1>6, ResidueIsUnique
<1> QED
  BY <1>7 DEF r, s

-----------------------------------------------------------------------------
(***************************************************************************)
(* Sums over the entries                                                   *)
(***************************************************************************)

\* A set of subsets of a finite set has a smallest one.
LEMMA SmallestSubset ==
  ASSUME NEW S, IsFiniteSet(S), NEW T, T \subseteq SUBSET S, T # {}
  PROVE  \E x \in T : \A y \in T : y \subseteq x => y = x
<1>1. T \subseteq FiniteSubsetsOf(S)
  BY FS_Subset DEF FiniteSubsetsOf
<1>2. \E x \in T : \A y \in T : ~ (<<y, x>> \in StrictSubsetOrdering(S))
  BY <1>1, FS_StrictSubsetOrderingWellFounded, WFMin
<1> QED
  BY <1>1, <1>2 DEF StrictSubsetOrdering, FiniteSubsetsOf

Pick(s) == CHOOSE y \in s : TRUE

\* Pick takes an element of the set.
LEMMA Picked == \A s : s # {} => Pick(s) \in s
BY DEF Pick

\* g is the fold of Bytes on the subsets of S of a table h.
SumsOn(h, S, g) ==
  \A s \in SUBSET S :
    g[s] = IF s = {} THEN 0 ELSE h[Pick(s)].size + g[s \ {Pick(s)}]

Sums(h, S) ==
  CHOOSE g : g = [s \in SUBSET S |->
                    IF s = {} THEN 0
                    ELSE h[Pick(s)].size + g[s \ {Pick(s)}]]

\* Two folds over tables with the same sizes agree.
LEMMA SumsAgree ==
  ASSUME NEW h1, NEW S1, NEW g1, SumsOn(h1, S1, g1),
         NEW h2, NEW S2, NEW g2, SumsOn(h2, S2, g2),
         NEW S, IsFiniteSet(S), S \subseteq S1, S \subseteq S2,
         \A c \in S : h1[c].size = h2[c].size
  PROVE  g1[S] = g2[S]
<1> DEFINE Bad == {s \in SUBSET S : g1[s] # g2[s]}
<1> SUFFICES ASSUME Bad # {} PROVE FALSE
  OBVIOUS
<1>1. PICK s \in Bad : \A t \in Bad : t \subseteq s => t = s
  <2>1. Bad \subseteq SUBSET S
    OBVIOUS
  <2> HIDE DEF Bad
  <2> QED
    BY <2>1, SmallestSubset
<1>2. s \in SUBSET S1 /\ s \in SUBSET S2 /\ s \in SUBSET S
  OBVIOUS
<1>3. s # {}
  BY <1>1, <1>2 DEF SumsOn
<1>4. Pick(s) \in s
  BY <1>3, Picked
<1> DEFINE t == s \ {Pick(s)}
<1>5. g1[t] = g2[t]
  <2>1. t \in SUBSET S /\ t \subseteq s /\ t # s
    BY <1>2, <1>4
  <2> QED
    BY <1>1, <2>1
<1>6. g1[s] = h1[Pick(s)].size + g1[t] /\ g2[s] = h2[Pick(s)].size + g2[t]
  BY <1>2, <1>3 DEF SumsOn
<1>7. h1[Pick(s)].size = h2[Pick(s)].size
  BY <1>2, <1>4
<1> QED
  BY <1>1, <1>5, <1>6, <1>7

\* Every finite set of cids has such a fold.
LEMMA SumsExistOn ==
  ASSUME NEW h, NEW S, IsFiniteSet(S)
  PROVE  \E g : SumsOn(h, S, g)
<1> DEFINE Bad == {s \in SUBSET S : ~ \E g : SumsOn(h, s, g)}
<1> SUFFICES ASSUME Bad # {} PROVE FALSE
  OBVIOUS
<1>1. PICK s \in Bad : \A t \in Bad : t \subseteq s => t = s
  <2>1. Bad \subseteq SUBSET S
    OBVIOUS
  <2> HIDE DEF Bad
  <2> QED
    BY <2>1, SmallestSubset
<1>2. s \in SUBSET S
  OBVIOUS
<1> DEFINE G == [t \in (SUBSET s) \ {s} |-> CHOOSE g : SumsOn(h, t, g)]
           V(t) == G[t][t]
           f == [t \in SUBSET s |->
                   IF t = {} THEN 0
                   ELSE h[Pick(t)].size + V(t \ {Pick(t)})]
<1>3. \A t \in (SUBSET s) \ {s} : SumsOn(h, t, G[t])
  BY <1>1, <1>2
<1>4. ASSUME NEW t \in (SUBSET s) \ {s} PROVE f[t] = V(t)
  <2>1. SumsOn(h, t, G[t])
    BY <1>3
  <2>2. CASE t = {}
    BY <2>1, <2>2 DEF SumsOn
  <2>3. CASE t # {}
    <3> DEFINE u == t \ {Pick(t)}
    <3>1. Pick(t) \in t
      BY <2>3, Picked
    <3>2. u \in (SUBSET s) \ {s} /\ u \subseteq t
      BY <3>1
    <3>3. SumsOn(h, u, G[u])
      BY <1>3, <3>2
    <3>4. IsFiniteSet(u)
      <4>1. u \in SUBSET S
        BY <1>2
      <4> HIDE DEF u
      <4> QED
        BY <4>1, FS_Subset
    <3>5. G[t][u] = G[u][u]
      <4> HIDE DEF u, G
      <4> QED
        BY <2>1, <3>2, <3>3, <3>4, SumsAgree
    <3>6. G[t][t] = h[Pick(t)].size + G[t][u]
      <4> HIDE DEF G
      <4> QED
        BY <2>1, <2>3 DEF SumsOn
    <3>7. f[t] = h[Pick(t)].size + V(u)
      <4> HIDE DEF V
      <4> QED
        BY <2>3
    <3> HIDE DEF G, f, u
    <3> QED
      BY <3>5, <3>6, <3>7
  <2> HIDE DEF f, V
  <2> QED
    BY <2>2, <2>3
<1>5. ASSUME NEW t \in SUBSET s
      PROVE  f[t] = IF t = {} THEN 0 ELSE h[Pick(t)].size + f[t \ {Pick(t)}]
  <2>1. f[t] = IF t = {} THEN 0 ELSE h[Pick(t)].size + V(t \ {Pick(t)})
    OBVIOUS
  <2>2. CASE t = {}
    BY <2>1, <2>2
  <2>3. CASE t # {}
    <3>1. t \ {Pick(t)} \in (SUBSET s) \ {s}
      BY <2>3, Picked
    <3>2. f[t \ {Pick(t)}] = V(t \ {Pick(t)})
      <4> HIDE DEF f, V
      <4> QED
        BY <1>4, <3>1
    <3> HIDE DEF f, V
    <3> QED
      BY <2>1, <2>3, <3>2
  <2> HIDE DEF f, V
  <2> QED
    BY <2>2, <2>3
<1>6. SumsOn(h, s, f)
  <2> HIDE DEF f
  <2> QED
    BY <1>5 DEF SumsOn
<1> HIDE DEF f
<1> QED
  BY <1>1, <1>6

\* The fold is what its recursive definition says.
LEMMA SumsAre ==
  ASSUME NEW h, NEW S, IsFiniteSet(S)
  PROVE  SumsOn(h, S, Sums(h, S))
<1> DEFINE Defines(g) ==
             g = [s \in SUBSET S |->
                    IF s = {} THEN 0
                    ELSE h[Pick(s)].size + g[s \ {Pick(s)}]]
<1>1. PICK g : SumsOn(h, S, g)
  BY SumsExistOn
<1> DEFINE f == [s \in SUBSET S |-> g[s]]
<1>2. ASSUME NEW s \in SUBSET S
      PROVE  f[s] = IF s = {} THEN 0 ELSE h[Pick(s)].size + f[s \ {Pick(s)}]
  <2>1. s \ {Pick(s)} \in SUBSET S
    OBVIOUS
  <2>2. f[s] = g[s] /\ f[s \ {Pick(s)}] = g[s \ {Pick(s)}]
    BY <2>1
  <2> HIDE DEF f
  <2> QED
    BY <1>1, <2>2 DEF SumsOn
<1>3. Defines(f)
  <2>1. f = [s \in SUBSET S |-> f[s]]
    OBVIOUS
  <2> HIDE DEF f
  <2> QED
    BY <1>2, <2>1
<1>4. Sums(h, S) = CHOOSE d : Defines(d)
  BY DEF Sums
<1>5. Defines(Sums(h, S))
  <2>1. \E d : Defines(d)
    BY <1>3
  <2> HIDE DEF Defines
  <2> QED
    BY <1>4, <2>1
<1> DEFINE d == Sums(h, S)
<1>6. d = [s \in SUBSET S |->
             IF s = {} THEN 0 ELSE h[Pick(s)].size + d[s \ {Pick(s)}]]
  BY <1>5
<1> HIDE DEF d
<1>7. SumsOn(h, S, d)
  BY <1>6 DEF SumsOn
<1> QED
  BY <1>7 DEF d

\* Sums of numbers are numbers, and any element may be taken out first.
LEMMA SumsAreNumbers ==
  ASSUME NEW h, NEW S, IsFiniteSet(S), \A c \in S : h[c].size \in Nat,
         NEW g, SumsOn(h, S, g)
  PROVE  \A s \in SUBSET S : g[s] \in Nat
<1> DEFINE Bad == {s \in SUBSET S : g[s] \notin Nat}
<1> SUFFICES ASSUME Bad # {} PROVE FALSE
  OBVIOUS
<1>1. PICK s \in Bad : \A t \in Bad : t \subseteq s => t = s
  <2>1. Bad \subseteq SUBSET S
    OBVIOUS
  <2> HIDE DEF Bad
  <2> QED
    BY <2>1, SmallestSubset
<1>2. s # {}
  <2>1. s \in SUBSET S /\ g[s] \notin Nat
    BY <1>1
  <2>2. s = {} => g[s] = 0
    BY <2>1 DEF SumsOn
  <2> QED
    BY <2>1, <2>2
<1>3. Pick(s) \in s /\ Pick(s) \in S
  BY <1>2, Picked
<1>4. g[s \ {Pick(s)}] \in Nat
  <2>1. s \ {Pick(s)} \in SUBSET S /\ s \ {Pick(s)} \subseteq s
        /\ s \ {Pick(s)} # s
    BY <1>3
  <2> QED
    BY <1>1, <2>1
<1>5. g[s] = h[Pick(s)].size + g[s \ {Pick(s)}]
  BY <1>2 DEF SumsOn
<1>6. h[Pick(s)].size \in Nat
  BY <1>3
<1>7. g[s] \in Nat
  BY <1>4, <1>5, <1>6
<1> QED
  BY <1>1, <1>7

\* Taking any cid out of a set takes its size out of the sum.
LEMMA SumsWithout ==
  ASSUME NEW h, NEW S, IsFiniteSet(S), \A c \in S : h[c].size \in Nat,
         NEW g, SumsOn(h, S, g)
  PROVE  \A s \in SUBSET S : \A c \in s : g[s] = h[c].size + g[s \ {c}]
<1> DEFINE Right(s) == \A c \in s : g[s] = h[c].size + g[s \ {c}]
           Bad == {s \in SUBSET S : ~ Right(s)}
<1> SUFFICES ASSUME Bad # {} PROVE FALSE
  OBVIOUS
<1>1. PICK s \in Bad : \A t \in Bad : t \subseteq s => t = s
  <2>1. Bad \subseteq SUBSET S
    OBVIOUS
  <2> HIDE DEF Bad
  <2> QED
    BY <2>1, SmallestSubset
<1>2. s \in SUBSET S
  BY <1>1
<1>3. ASSUME NEW c \in s PROVE g[s] = h[c].size + g[s \ {c}]
  <2> DEFINE y == Pick(s)
  <2>1. y \in s
    BY Picked
  <2>2. g[s] = h[y].size + g[s \ {y}]
    BY <1>2 DEF SumsOn
  <2> HIDE DEF y
  <2>3. CASE c = y
    BY <2>2, <2>3
  <2>4. CASE c # y
    <3>1. Right(s \ {y}) /\ Right(s \ {c})
      <4>1. /\ s \ {y} \in SUBSET S /\ s \ {y} \subseteq s /\ s \ {y} # s
            /\ s \ {c} \in SUBSET S /\ s \ {c} \subseteq s /\ s \ {c} # s
        BY <1>2, <2>1
      <4> HIDE DEF Right
      <4> QED
        BY <1>1, <4>1
    <3>2. g[s \ {y}] = h[c].size + g[(s \ {y}) \ {c}]
      BY <2>4, <3>1
    <3>3. g[s \ {c}] = h[y].size + g[(s \ {c}) \ {y}]
      BY <2>1, <2>4, <3>1
    <3>4. (s \ {y}) \ {c} = (s \ {c}) \ {y}
      OBVIOUS
    <3>5. /\ g[(s \ {c}) \ {y}] \in Nat
          /\ h[c].size \in Nat /\ h[y].size \in Nat
      <4>1. (s \ {c}) \ {y} \in SUBSET S /\ c \in S /\ y \in S
        BY <1>2, <2>1
      <4> QED
        BY <4>1, SumsAreNumbers
    <3>6. g[(s \ {y}) \ {c}] = g[(s \ {c}) \ {y}]
      BY <3>4
    <3> DEFINE r == g[(s \ {c}) \ {y}]
    <3>7. /\ r \in Nat /\ g[s \ {c}] = h[y].size + r
          /\ g[s] = h[y].size + (h[c].size + r)
      BY <2>2, <3>2, <3>3, <3>5, <3>6
    <3> HIDE DEF r
    <3> QED
      BY <3>5, <3>7
  <2> QED
    BY <2>3, <2>4
<1>4. Right(s)
  BY <1>3
<1> QED
  BY <1>1, <1>4

Sized(h, S) == \A d \in S : h[d].size \in Nat
SameSizes(h1, h2, S) == \A d \in S : h1[d].size = h2[d].size

\* The sum over a set is the size of one of its entries and the sum of the
\* rest.
LEMMA SumWithoutOne ==
  ASSUME NEW h1, NEW h2, NEW S, NEW c \in S,
         IsFiniteSet(S), Sized(h1, S), SameSizes(h1, h2, S \ {c})
  PROVE  /\ Sums(h2, S \ {c})[S \ {c}] \in Nat
         /\ Sums(h1, S)[S] = h1[c].size + Sums(h2, S \ {c})[S \ {c}]
<1> DEFINE T == S \ {c}
           g1 == Sums(h1, S)
           g2 == Sums(h2, T)
<1>1. IsFiniteSet(T) /\ T \subseteq S /\ T \in SUBSET S /\ S \in SUBSET S
  BY FS_RemoveElement
<1>2. SumsOn(h1, S, g1) /\ SumsOn(h2, T, g2)
  BY <1>1, SumsAre
<1>3. g1[S] = h1[c].size + g1[T]
  <2> HIDE DEF g1
  <2> QED
    BY <1>1, <1>2, SumsWithout DEF Sized
<1>4. g1[T] \in Nat
  <2> HIDE DEF g1, T
  <2> QED
    BY <1>1, <1>2, SumsAreNumbers DEF Sized
<1>5. g1[T] = g2[T]
  <2>1. \A d \in T : h1[d].size = h2[d].size
    BY DEF SameSizes
  <2>2. T \subseteq T
    OBVIOUS
  <2> HIDE DEF g1, g2, T
  <2> QED
    BY <1>1, <1>2, <2>1, <2>2, SumsAgree
<1> QED
  BY <1>3, <1>4, <1>5

\* Bytes, the fold of the community modules, is such a sum.
LEMMA BytesIsSum ==
  /\ Bytes = Sums(htable, Cached)[Cached]
  /\ Bytes' = Sums(htable', Cached')[Cached']
<1>1. Bytes = Sums(htable, Cached)[Cached]
  BY DEF Bytes, MapThenSumSet, MapThenFoldSet, Sums, Pick
<1>2. Bytes' = Sums(htable', Cached')[Cached']
  BY DEF Bytes, MapThenSumSet, MapThenFoldSet, Sums, Pick
<1> QED
  BY <1>1, <1>2

-----------------------------------------------------------------------------
(***************************************************************************)
(* The invariant                                                           *)
(***************************************************************************)

\* What put_cmpsc311_cache knows of its arguments while its loop runs: the
\* buffer is still the caller's.
Putting == call.op = "put" =>
  /\ call.cid \in Cids /\ call.buf \in Buffers /\ call.len \in Lengths
  /\ owner[call.buf] = "caller"

\* A cache that is not open holds nothing.
Closed == ~initialized => Cached = {} /\ call = NoCall

IInv ==
  /\ TypeOK /\ ItemsCounted /\ BuffersOwned /\ ItemsWithinLimit /\ Putting
  /\ Closed

\* The table never holds more than all cids.
LEMMA CachedIsFinite ==
  IsFiniteSet(Cached) /\ Cardinality(Cached) \in Nat
<1>1. Cached \subseteq Cids
  BY DEF Cached
<1> QED
  BY <1>1, CacheAssumption, FS_Subset, FS_CardinalityType

\* The values a call in progress begins with are of their type.
LEMMA CallTypes ==
  /\ 0 \in 0..(WordSize - 1)
  /\ NoCall \in Call /\ [NoCall EXCEPT !.op = "close"] \in Call
BY CacheAssumption DEF NoCall, Call

\* After init_cmpsc311_cache nothing is cached.
LEMMA EmptyTable ==
  ASSUME htable' = [c \in Cids |-> NoEntry]
  PROVE  Cached' = {} /\ Cardinality(Cached') = 0
BY FS_EmptySet DEF Cached

\* Taking an entry out keeps counts and owners right, whoever is to have the
\* buffer, except the cache.
LEMMA TakeOutKeeps ==
  ASSUME IInv, running, running' = running, NEW c \in Cached,
         NEW who \in {"none", "caller"},
         TakeOut(c, who), UNCHANGED limits, UNCHANGED now
  PROVE  /\ htable' \in [Cids -> CacheEntry \cup {NoEntry}]
         /\ owner' \in [Buffers -> {"none", "caller", "cache"}]
         /\ current_items' \in Nat /\ current_size' \in 0..(WordSize - 1)
         /\ ItemsCounted' /\ BuffersOwned' /\ ItemsWithinLimit'
         /\ \A b \in Buffers : owner[b] = "caller" => owner'[b] = "caller"
<1> USE DEF IInv
<1>1. c \in Cids /\ htable[c] \in CacheEntry /\ NULL \notin Cids \cup Buffers
  BY CacheAssumption DEF Cached, TypeOK
<1>2. htable[c].buf \in Buffers /\ htable[c].size \in 0..(WordSize - 1)
  BY <1>1, CacheAssumption DEF CacheEntry
<1>3. Cached' = Cached \ {c}
  BY <1>1 DEF Cached, TakeOut, TypeOK
<1>4. /\ Cardinality(Cached') = Cardinality(Cached) - 1
      /\ Cardinality(Cached) \in Nat /\ Cardinality(Cached') \in Nat
  <2>1. IsFiniteSet(Cached \ {c})
    BY CachedIsFinite, FS_RemoveElement
  <2> QED
    BY <1>3, <2>1, CachedIsFinite, FS_RemoveElement, FS_CardinalityType
<1>5. htable' \in [Cids -> CacheEntry \cup {NoEntry}]
  BY <1>1 DEF TakeOut, TypeOK
<1>6. owner' \in [Buffers -> {"none", "caller", "cache"}]
  BY <1>2 DEF TakeOut, TypeOK
<1>7. current_items' \in Nat /\ ItemsCounted'
  BY <1>4 DEF TakeOut, ItemsCounted
<1>8. current_size' \in 0..(WordSize - 1)
  <2>1. current_size - htable[c].size \in Int /\ WordSize \in Nat \ {0}
    BY <1>2, CacheAssumption DEF TypeOK
  <2> QED
    BY <2>1 DEF TakeOut
<1>9. BuffersOwned'
  <2>1. \A d \in Cached' : d \in Cached /\ d # c /\ htable'[d] = htable[d]
    BY <1>3, <1>1 DEF TakeOut, TypeOK, Cached
  <2>2. \A b \in Buffers : b # htable[c].buf => owner'[b] = owner[b]
    BY <1>2 DEF TakeOut, TypeOK
  <2>3. \A d \in Cached : htable[d].buf \in Buffers
    BY DEF Cached, TypeOK, CacheEntry
  <2>4. \A d \in Cached' : owner'[htable'[d].buf] = "cache"
    BY <2>1, <2>2, <2>3 DEF BuffersOwned
  <2>5. \A d, f \in Cached' : htable'[d].buf = htable'[f].buf => d = f
    BY <2>1 DEF BuffersOwned
  <2>6. owner'[htable[c].buf] # "cache"
    BY <1>2 DEF TakeOut, TypeOK
  <2>7. ASSUME NEW b \in Buffers, owner'[b] = "cache"
        PROVE  \E d \in Cached' : htable'[d].buf = b
    <3>1. b # htable[c].buf /\ owner[b] = "cache"
      BY <2>2, <2>6, <2>7
    <3>2. PICK d \in Cached : htable[d].buf = b
      BY <3>1 DEF BuffersOwned
    <3>3. d \in Cached'
      BY <3>1, <3>2, <1>3
    <3> QED
      BY <3>2, <3>3, <2>1
  <2> QED
    BY <2>4, <2>5, <2>7 DEF BuffersOwned
<1>10. ItemsWithinLimit'
  BY <1>4 DEF ItemsWithinLimit, limits, TypeOK
<1>11. \A b \in Buffers : owner[b] = "caller" => owner'[b] = "caller"
  BY <1>1, <1>2 DEF TakeOut, TypeOK, BuffersOwned
<1> QED
  BY <1>5, <1>6, <1>7, <1>8, <1>9, <1>10, <1>11

\* Steps that leave the table and the owners alone.
LEMMA TableUnchanged ==
  ASSUME BuffersOwned, UNCHANGED <<htable, owner>>
  PROVE  BuffersOwned' /\ Cached' = Cached
BY DEF BuffersOwned, Cached

\* One turn of a loop, or a deletion: c leaves, the rest of the invariant holds.
LEMMA EntryLeaves ==
  ASSUME IInv, running, initialized, NEW c \in Cached,
         NEW who \in {"none", "caller"}, TakeOut(c, who),
         UNCHANGED <<limits, now, call, running>>
  PROVE  IInv'
<1>1. UNCHANGED limits /\ running' = running /\ now' = now /\ call' = call
  OBVIOUS
<1>2. /\ htable' \in [Cids -> CacheEntry \cup {NoEntry}]
      /\ owner' \in [Buffers -> {"none", "caller", "cache"}]
      /\ current_items' \in Nat /\ current_size' \in 0..(WordSize - 1)
      /\ ItemsCounted' /\ BuffersOwned' /\ ItemsWithinLimit'
      /\ \A b \in Buffers : owner[b] = "caller" => owner'[b] = "caller"
  BY <1>1, TakeOutKeeps
<1>3. TypeOK'
  BY <1>1, <1>2 DEF IInv, TypeOK, limits
<1>4. Putting'
  BY <1>1, <1>2 DEF IInv, Putting
<1>5. Closed'
  BY <1>1 DEF Closed, limits
<1> QED
  BY <1>2, <1>3, <1>4, <1>5 DEF IInv

\* The invariant holds before init_cmpsc311_cache.
LEMMA CacheInit == Init => IInv
<1> SUFFICES ASSUME Init PROVE IInv
  OBVIOUS
<1> USE DEF Init
<1>1. Cached = {} /\ Cardinality(Cached) = 0
  BY FS_EmptySet DEF Cached
<1>2. TypeOK
  <2>1. /\ htable \in [Cids -> CacheEntry \cup {NoEntry}]
        /\ owner \in [Buffers -> {"none", "caller", "cache"}]
    OBVIOUS
  <2>2. now \in 0..MaxTime
    BY CacheAssumption
  <2> QED
    BY <2>1, <2>2, CallTypes DEF TypeOK
<1>3. ItemsCounted /\ BuffersOwned /\ ItemsWithinLimit /\ Putting /\ Closed
  BY <1>1 DEF ItemsCounted, BuffersOwned, ItemsWithinLimit, Putting, Closed,
              NoCall
<1> QED
  BY <1>2, <1>3 DEF IInv

\* init_cmpsc311_cache keeps the invariant.
LEMMA InitKeeps ==
  ASSUME IInv, NEW items \in ItemLimits, NEW size \in SizeLimits,
         init_cmpsc311_cache(items, size)
  PROVE  IInv'
<1> USE DEF init_cmpsc311_cache, Idle
<1>1. /\ Cached = {} /\ Cached' = {} /\ Cardinality(Cached') = 0
  BY EmptyTable DEF IInv, Closed
<1>2. items \in 0..(WordSize - 1) /\ size \in 0..(WordSize - 1)
  BY CacheAssumption
<1>3. TypeOK'
  BY <1>2, CallTypes DEF IInv, TypeOK
<1>4. ItemsCounted' /\ ItemsWithinLimit'
  BY <1>1, <1>2 DEF ItemsCounted, ItemsWithinLimit
<1>5. Putting' /\ Closed'
  BY DEF Putting, NoCall, Closed
<1>6. BuffersOwned'
  BY <1>1 DEF IInv, BuffersOwned
<1> QED
  BY <1>3, <1>4, <1>5, <1>6 DEF IInv

\* The beginning of put_cmpsc311_cache keeps the invariant.
LEMMA PutKeeps ==
  ASSUME IInv, NEW c \in Cids, NEW b \in Buffers, NEW n \in Lengths,
         put_cmpsc311_cache(c, b, n)
  PROVE  IInv'
<1> USE DEF put_cmpsc311_cache, Idle
<1>1. n \in 0..(WordSize - 1)
  BY CacheAssumption
<1>2. UNCHANGED <<htable, owner>> /\ UNCHANGED limits
  OBVIOUS
<1>3. BuffersOwned' /\ Cached' = Cached
  BY <1>2, TableUnchanged DEF IInv
<1>4. TypeOK'
  <2>1. call' \in Call
    BY <1>1 DEF Call
  <2> QED
    BY <1>2, <2>1 DEF IInv, TypeOK, limits
<1>5. ItemsCounted' /\ ItemsWithinLimit'
  BY <1>2, <1>3 DEF IInv, ItemsCounted, ItemsWithinLimit, limits
<1>6. Putting' /\ Closed'
  BY <1>2 DEF Putting, Closed, limits
<1> QED
  BY <1>3, <1>4, <1>5, <1>6 DEF IInv

\* The entry a call puts is new; its buffer passes from caller to cache.
LEMMA PutEntryKeeps ==
  ASSUME IInv, PutEntry
  PROVE  IInv'
<1> USE DEF PutEntry
<1> DEFINE c == call.cid
           b == call.buf
           n == call.len
<1>1. /\ c \in Cids /\ b \in Buffers /\ n \in Lengths
      /\ owner[b] = "caller" /\ initialized
  BY DEF IInv, Putting, Closed, NoCall
<1>2. n \in 0..(WordSize - 1) /\ NULL \notin Cids \cup Buffers
  BY <1>1, CacheAssumption
<1>3. UNCHANGED limits /\ now' = now /\ call' = NoCall
  OBVIOUS
<1>4. /\ current_items' \in Nat /\ current_size' \in 0..(WordSize - 1)
      /\ current_items < max_items
  <2>1. current_size + n \in Int /\ WordSize \in Nat \ {0}
    BY <1>2, CacheAssumption DEF IInv, TypeOK
  <2> QED
    BY <2>1 DEF IInv, TypeOK, Full
<1>5. Putting' /\ Closed'
  BY <1>1, <1>3 DEF Putting, Closed, NoCall, limits
<1>6. CASE c \in Cached
  <2>1. ~running' /\ UNCHANGED <<htable, owner>>
    BY <1>6
  <2>2. BuffersOwned' /\ Cached' = Cached
    BY <2>1, TableUnchanged DEF IInv
  <2>3. TypeOK'
    BY <1>3, <1>4, <2>1, CallTypes DEF IInv, TypeOK, limits
  <2>4. ItemsCounted' /\ ItemsWithinLimit'
    BY <1>3, <2>1, <2>2 DEF IInv, ItemsCounted, ItemsWithinLimit, limits
  <2> QED
    BY <1>5, <2>2, <2>3, <2>4 DEF IInv
<1>7. CASE c \notin Cached
  <2> DEFINE entry == [size |-> n, buf |-> b, last_used |-> now]
  <2>1. /\ running' /\ htable' = [htable EXCEPT ![c] = entry]
        /\ owner' = [owner EXCEPT ![b] = "cache"]
    BY <1>7
  <2>2. entry \in CacheEntry /\ entry.buf = b
    BY <1>1 DEF CacheEntry, IInv, TypeOK
  <2>3. entry # NoEntry
    BY <1>1, <1>2, <2>2 DEF NoEntry
  <2>4. Cached' = Cached \cup {c} /\ htable' [c] = entry
    BY <1>1, <2>1, <2>3 DEF Cached, IInv, TypeOK
  <2>5. /\ Cardinality(Cached') = Cardinality(Cached) + 1
        /\ Cardinality(Cached) \in Nat
    BY <1>7, <2>4, CachedIsFinite, FS_AddElement
  <2>6. htable' \in [Cids -> CacheEntry \cup {NoEntry}]
    BY <2>1, <2>2 DEF IInv, TypeOK
  <2>7. owner' \in [Buffers -> {"none", "caller", "cache"}]
    BY <2>1 DEF IInv, TypeOK
  <2>8. TypeOK'
    BY <1>3, <1>4, <2>1, <2>6, <2>7, CallTypes DEF IInv, TypeOK, limits
  <2>9. ItemsCounted' /\ ItemsWithinLimit'
    BY <1>3, <1>4, <2>5
    DEF IInv, TypeOK, ItemsCounted, ItemsWithinLimit, limits
  <2>10. BuffersOwned'
    <3>1. \A d \in Cached : d # c /\ htable'[d] = htable[d]
                             /\ htable[d].buf \in Buffers
      BY <1>7, <2>1 DEF Cached, CacheEntry, IInv, TypeOK
    <3>2. \A d \in Cached : htable[d].buf # b
      BY <1>1 DEF IInv, BuffersOwned
    <3>3. /\ owner'[b] = "cache"
          /\ \A a \in Buffers : a # b => owner'[a] = owner[a]
      BY <1>1, <2>1 DEF IInv, TypeOK
    <3>4. \A d \in Cached' : owner'[htable'[d].buf] = "cache"
      BY <2>2, <2>4, <3>1, <3>2, <3>3 DEF IInv, BuffersOwned
    <3>5. \A d, f \in Cached' : htable'[d].buf = htable'[f].buf => d = f
      BY <2>2, <2>4, <3>1, <3>2 DEF IInv, BuffersOwned
    <3>6. \A a \in Buffers : owner'[a] = "cache" =>
            \E d \in Cached' : htable'[d].buf = a
      BY <1>1, <2>2, <2>4, <3>1, <3>3 DEF IInv, BuffersOwned
    <3> QED
      BY <3>4, <3>5, <3>6 DEF BuffersOwned
  <2> QED
    BY <1>5, <2>8, <2>9, <2>10 DEF IInv
<1> QED
  BY <1>6, <1>7

\* get_cmpsc311_cache keeps the invariant.
LEMMA GetKeeps ==
  ASSUME IInv, NEW c \in Cids, get_cmpsc311_cache(c)
  PROVE  IInv'
<1> USE DEF get_cmpsc311_cache, Idle
<1>1. htable[c] \in CacheEntry /\ NULL \notin Buffers
  BY CacheAssumption DEF Cached, IInv, TypeOK
<1>2. UNCHANGED limits
  OBVIOUS
<1>3. /\ htable'[c] \in CacheEntry /\ htable'[c].buf = htable[c].buf
      /\ \A d \in Cids : d # c => htable'[d] = htable[d]
      /\ htable' \in [Cids -> CacheEntry \cup {NoEntry}]
  BY <1>1 DEF IInv, TypeOK, CacheEntry
<1>4. htable'[c] # NoEntry
  BY <1>1, <1>3 DEF CacheEntry, NoEntry
<1>5. Cached' = Cached
  BY <1>3, <1>4 DEF Cached
<1>6. \A d \in Cached : htable'[d].buf = htable[d].buf
  BY <1>3 DEF Cached
<1>7. TypeOK'
  BY <1>2, <1>3 DEF IInv, TypeOK, limits
<1>8. ItemsCounted' /\ ItemsWithinLimit' /\ Putting' /\ Closed'
  BY <1>2, <1>5
  DEF IInv, ItemsCounted, ItemsWithinLimit, Putting, Closed, limits
<1>9. BuffersOwned'
  BY <1>5, <1>6 DEF IInv, BuffersOwned
<1> QED
  BY <1>7, <1>8, <1>9 DEF IInv

\* The end of close_cmpsc311_cache keeps the invariant.
LEMMA CloseEndKeeps ==
  ASSUME IInv, CloseEnd
  PROVE  IInv'
<1> USE DEF CloseEnd
<1>1. Cached = {}
  BY CachedIsFinite, FS_EmptySet DEF IInv, ItemsCounted
<1>2. Cached' = {} /\ Cardinality(Cached') = 0
  BY EmptyTable
<1>3. TypeOK'
  BY CacheAssumption, CallTypes DEF IInv, TypeOK
<1>4. /\ ItemsCounted' /\ ItemsWithinLimit' /\ Putting' /\ Closed'
      /\ BuffersOwned'
  BY <1>1, <1>2
  DEF IInv, ItemsCounted, ItemsWithinLimit, Putting, Closed, BuffersOwned,
      NoCall
<1> QED
  BY <1>3, <1>4 DEF IInv

\* malloc hands out a buffer nobody has.
LEMMA AllocateKeeps ==
  ASSUME IInv, NEW b \in Buffers, Allocate(b)
  PROVE  IInv'
<1> USE DEF Allocate, Idle
<1>1. Cached' = Cached /\ UNCHANGED limits
  BY DEF Cached
<1>2. TypeOK'
  BY DEF IInv, TypeOK, limits
<1>3. ItemsCounted' /\ ItemsWithinLimit' /\ Putting' /\ Closed'
  BY <1>1
  DEF IInv, ItemsCounted, ItemsWithinLimit, Putting, Closed, limits, NoCall
<1>4. \A c \in Cached : htable[c].buf \in Buffers /\ htable[c].buf # b
  BY DEF Cached, CacheEntry, IInv, TypeOK, BuffersOwned
<1>5. BuffersOwned'
  BY <1>1, <1>4 DEF IInv, TypeOK, BuffersOwned
<1> QED
  BY <1>2, <1>3, <1>5 DEF IInv

\* Steps that change no more than the call in progress and the clock.
LEMMA OthersKeep ==
  ASSUME IInv,
         UNCHANGED <<limits, current_items, current_size, htable, owner,
                     running>>,
         now' \in 0..MaxTime,
         \/ call' = call
         \/ initialized /\ call' \in {NoCall, [NoCall EXCEPT !.op = "close"]}
  PROVE  IInv'
<1>1. BuffersOwned' /\ Cached' = Cached
  BY TableUnchanged DEF IInv
<1>2. TypeOK'
  BY CallTypes DEF IInv, TypeOK, limits
<1>3. ItemsCounted' /\ ItemsWithinLimit' /\ Putting' /\ Closed'
  BY <1>1
  DEF IInv, ItemsCounted, ItemsWithinLimit, Putting, Closed, limits, NoCall
<1> QED
  BY <1>1, <1>2, <1>3 DEF IInv

\* Every step keeps the invariant.
LEMMA CacheStep == IInv /\ [Next]_vars => IInv'
<1> SUFFICES ASSUME IInv, [Next]_vars PROVE IInv'
  OBVIOUS
<1>1. now \in 0..MaxTime /\ MaxTime \in Nat
  BY CacheAssumption DEF IInv, TypeOK
<1>2. CASE UNCHANGED vars
  BY <1>1, <1>2, OthersKeep DEF vars, limits
<1>3. ASSUME NEW items \in ItemLimits, NEW size \in SizeLimits,
             init_cmpsc311_cache(items, size)
      PROVE  IInv'
  BY <1>3, InitKeeps
<1>4. ASSUME NEW c \in Cids, get_cmpsc311_cache(c) PROVE IInv'
  BY <1>4, GetKeeps
<1>5. ASSUME NEW c \in Cids, delete_cmpsc311_cache(c) PROVE IInv'
  BY <1>5, EntryLeaves DEF delete_cmpsc311_cache, Idle
<1>6. ASSUME NEW c \in Cids, NEW b \in Buffers, NEW n \in Lengths,
             put_cmpsc311_cache(c, b, n)
      PROVE  IInv'
  BY <1>6, PutKeeps
<1>7. CASE close_cmpsc311_cache
  BY <1>1, <1>7, OthersKeep DEF close_cmpsc311_cache, Idle
<1>8. CASE eject_cmpsc311_cache
  <2>1. initialized
    BY <1>8 DEF eject_cmpsc311_cache, IInv, Closed, NoCall
  <2>2. CASE Cached = {}
    BY <1>1, <1>8, <2>1, <2>2, OthersKeep DEF eject_cmpsc311_cache
  <2>3. CASE Cached # {}
    BY <1>8, <2>1, <2>3, EntryLeaves DEF eject_cmpsc311_cache
  <2> QED
    BY <2>2, <2>3
<1>9. CASE PutEntry
  BY <1>9, PutEntryKeeps
<1>10. CASE CloseEntry
  <2>1. initialized
    BY <1>10 DEF CloseEntry, IInv, Closed, NoCall
  <2>2. CASE Cached = {}
    BY <1>1, <1>10, <2>1, <2>2, OthersKeep DEF CloseEntry
  <2>3. CASE Cached # {}
    BY <1>10, <2>1, <2>3, EntryLeaves DEF CloseEntry
  <2> QED
    BY <2>2, <2>3
<1>11. CASE CloseEnd
  BY <1>11, CloseEndKeeps
<1>12. ASSUME NEW b \in Buffers, Allocate(b) PROVE IInv'
  BY <1>12, AllocateKeeps
<1>13. CASE Tick
  BY <1>1, <1>13, OthersKeep DEF Tick
<1> QED
  BY <1>2, <1>3, <1>4, <1>5, <1>6, <1>7, <1>8, <1>9, <1>10, <1>11, <1>12,
     <1>13
  DEF Next, Calls, Continue

\* The invariant holds throughout.
THEOREM Invariance == Spec => []IInv
<1> QED
  BY CacheInit, CacheStep, PTL DEF Spec

\* Type correctness: in particular current_items never falls below zero.
THEOREM TypeCorrect == Spec => []TypeOK
<1>1. IInv => TypeOK
  BY DEF IInv
<1> QED
  BY <1>1, Invariance, PTL

\* current_items is the number of entries, and never more than max_items.
THEOREM ItemsRight == Spec => [](ItemsCounted /\ ItemsWithinLimit)
<1>1. IInv => ItemsCounted /\ ItemsWithinLimit
  BY DEF IInv
<1> QED
  BY <1>1, Invariance, PTL

\* No buffer is leaked, freed twice, or freed while its caller owns it.
THEOREM Ownership == Spec => []BuffersOwned
<1>1. IInv => BuffersOwned
  BY DEF IInv
<1> QED
  BY <1>1, Invariance, PTL

-----------------------------------------------------------------------------
(***************************************************************************)
(* Bytes                                                                   *)
(***************************************************************************)
\* Cached entries have sizes.
LEMMA EntrySizes ==
  ASSUME TypeOK
  PROVE  \A c \in Cached : htable[c] \in CacheEntry /\ htable[c].size \in Nat
BY CacheAssumption DEF TypeOK, Cached, CacheEntry

\* The bytes cached are a number.
LEMMA BytesType ==
  ASSUME TypeOK
  PROVE  Bytes \in Nat
<1>1. SumsOn(htable, Cached, Sums(htable, Cached))
  BY CachedIsFinite, SumsAre
<1>2. Sums(htable, Cached)[Cached] \in Nat
  BY <1>1, CachedIsFinite, EntrySizes, SumsAreNumbers
<1> QED
  BY <1>2, BytesIsSum

\* An empty cache holds no bytes.
LEMMA BytesOfNone == (Cached = {} => Bytes = 0) /\ (Cached' = {} => Bytes' = 0)
<1>1. SumsOn(htable, {}, Sums(htable, {})) /\ SumsOn(htable', {}, Sums(htable', {}))
  BY FS_EmptySet, SumsAre
<1>2. Sums(htable, {})[{}] = 0 /\ Sums(htable', {})[{}] = 0
  BY <1>1 DEF SumsOn
<1> QED
  BY <1>2, BytesIsSum

\* The same entries, apart from their times.
LEMMA BytesStay ==
  ASSUME TypeOK, Cached' = Cached,
         \A c \in Cached : htable'[c].size = htable[c].size
  PROVE  Bytes' = Bytes
<1>1. /\ SumsOn(htable, Cached, Sums(htable, Cached))
      /\ SumsOn(htable', Cached, Sums(htable', Cached))
  BY CachedIsFinite, SumsAre
<1>2. Sums(htable, Cached)[Cached] = Sums(htable', Cached)[Cached]
  BY <1>1, CachedIsFinite, SumsAgree
<1> QED
  BY <1>2, BytesIsSum

\* One entry leaves.
LEMMA BytesLeave ==
  ASSUME TypeOK, NEW c \in Cached, htable' = [htable EXCEPT ![c] = NoEntry]
  PROVE  /\ Cached' = Cached \ {c}
         /\ Bytes' \in Nat /\ htable[c].size \in Nat
         /\ Bytes = htable[c].size + Bytes'
<1>1. Cached' = Cached \ {c} /\ \A d \in Cached \ {c} : htable'[d] = htable[d]
  BY DEF Cached, TypeOK
<1>2. \A d \in Cached \ {c} : htable'[d].size = htable[d].size
  BY <1>1
<1>3. IsFiniteSet(Cached) /\ \A d \in Cached : htable[d].size \in Nat
  BY CachedIsFinite, EntrySizes
<1> DEFINE sum == Sums(htable', Cached \ {c})[Cached \ {c}]
<1>4. sum \in Nat /\ Sums(htable, Cached)[Cached] = htable[c].size + sum
  <2>1. Sized(htable, Cached) /\ SameSizes(htable, htable', Cached \ {c})
    BY <1>2, <1>3 DEF Sized, SameSizes
  <2> QED
    BY <1>3, <2>1, SumWithoutOne
<1>5. Bytes = Sums(htable, Cached)[Cached] /\ Bytes' = sum
  BY <1>1, BytesIsSum
<1> HIDE DEF sum
<1> QED
  BY <1>1, <1>3, <1>4, <1>5

\* One entry comes in.
LEMMA BytesEnter ==
  ASSUME TypeOK, NEW c \in Cids \ Cached, NEW e \in CacheEntry, e # NoEntry,
         htable' = [htable EXCEPT ![c] = e]
  PROVE  Bytes' = Bytes + e.size
<1>1. /\ Cached' = Cached \cup {c} /\ htable'[c] = e
      /\ \A d \in Cached : htable'[d] = htable[d]
  BY DEF Cached, TypeOK
<1>2. Cached' \ {c} = Cached /\ c \in Cached'
  BY <1>1
<1>3. IsFiniteSet(Cached')
  BY <1>1, CachedIsFinite, FS_AddElement
<1>4. e.size \in Nat
  BY CacheAssumption DEF CacheEntry
<1>5. \A d \in Cached' : htable'[d].size \in Nat
  BY <1>1, <1>4, EntrySizes
<1>6. \A d \in Cached' \ {c} : htable[d].size = htable'[d].size
  BY <1>1, <1>2
<1> DEFINE sum == Sums(htable, Cached' \ {c})[Cached' \ {c}]
<1>7. sum \in Nat /\ Sums(htable', Cached')[Cached'] = htable'[c].size + sum
  <2> DEFINE h == htable'
             S == Cached'
  <2>1. /\ IsFiniteSet(S) /\ c \in S /\ Sized(h, S)
        /\ SameSizes(h, htable, S \ {c})
    BY <1>2, <1>3, <1>5, <1>6 DEF Sized, SameSizes
  <2> HIDE DEF h, S
  <2>2. /\ Sums(htable, S \ {c})[S \ {c}] \in Nat
        /\ Sums(h, S)[S] = h[c].size + Sums(htable, S \ {c})[S \ {c}]
    BY <2>1, SumWithoutOne
  <2> QED
    BY <2>2 DEF h, S
<1>8. Bytes' = Sums(htable', Cached')[Cached'] /\ Bytes = sum
  BY <1>2, BytesIsSum
<1> HIDE DEF sum
<1> QED
  BY <1>1, <1>4, <1>7, <1>8

\* What put_cmpsc311_cache has tested, and what an open cache was given.
Admitted ==
  /\ initialized => max_items > 0 /\ max_size \in SizeLimits
  /\ call.op = "put" => initialized /\ call.len <= max_size

SInv == SizeCounted /\ Admitted

\* Nothing is counted and nothing admitted at first.
LEMMA SizeInit == Init => SInv
<1> SUFFICES ASSUME Init PROVE SInv
  OBVIOUS
<1>1. Cached = {}
  BY DEF Init, Cached
<1>2. Bytes = 0 /\ WordSize \in Nat \ {0}
  BY <1>1, BytesOfNone, CacheAssumption
<1>3. SizeCounted
  BY <1>2 DEF Init, SizeCounted
<1> QED
  BY <1>3 DEF Init, SInv, Admitted, NoCall

\* Taking an entry out, whoever gets its buffer.
LEMMA SizeLeaves ==
  ASSUME IInv, SInv, NEW c \in Cached, NEW who, TakeOut(c, who), running
  PROVE  SizeCounted'
<1>1. htable' = [htable EXCEPT ![c] = NoEntry]
  BY DEF TakeOut
<1>2. Bytes' \in Nat /\ htable[c].size \in Nat /\ Bytes = htable[c].size + Bytes'
  BY <1>1, BytesLeave DEF IInv
<1>3. current_size = Bytes % WordSize /\ WordSize \in Nat \ {0} /\ Bytes \in Nat
  BY BytesType, CacheAssumption DEF IInv, SInv, SizeCounted
<1> DEFINE n == htable[c].size
<1>4. current_size' = (current_size - n) % WordSize
  BY DEF TakeOut
<1> HIDE DEF n
<1>5. n \in Nat /\ -n \in Int /\ Bytes + (-n) = Bytes'
  BY <1>2, <1>3 DEF n
<1>6. ((Bytes % WordSize) + (-n)) % WordSize = (Bytes + (-n)) % WordSize
  <2> DEFINE a == Bytes
             m == -n
  <2>1. a \in Int /\ m \in Int /\ WordSize \in Nat \ {0}
    BY <1>3, <1>5
  <2> HIDE DEF a, m
  <2>2. ((a % WordSize) + m) % WordSize = (a + m) % WordSize
    BY <2>1, ResidueOfSum
  <2> QED
    BY <2>2 DEF a, m
<1>7. current_size - n = (Bytes % WordSize) + (-n)
  BY <1>3, <1>5
<1>8. current_size' = Bytes' % WordSize
  BY <1>4, <1>5, <1>6, <1>7
<1> QED
  BY <1>8 DEF SizeCounted

\* Steps that change nothing the number of bytes depends on.
LEMMA SizeStays ==
  ASSUME IInv, SInv, UNCHANGED <<current_size, htable, running>>
  PROVE  SizeCounted' /\ Bytes' = Bytes
<1>1. Cached' = Cached
  BY DEF Cached
<1>2. Bytes' = Bytes
  BY <1>1, BytesStay DEF IInv
<1> QED
  BY <1>2 DEF SInv, SizeCounted

\* The end of put_cmpsc311_cache adds the length of the buffer to both sides.
LEMMA SizeEnters ==
  ASSUME IInv, SInv, PutEntry
  PROVE  /\ SizeCounted'
         /\ ~ running' => Bytes' = Bytes
         /\ running' => Bytes' = Bytes + call.len
<1>1. CASE call.cid \in Cached
  <2>1. ~ running' /\ UNCHANGED htable
    BY <1>1 DEF PutEntry
  <2>2. Cached' = Cached
    BY <2>1 DEF Cached
  <2>3. Bytes' = Bytes
    BY <2>1, <2>2, BytesStay DEF IInv
  <2> QED
    BY <2>1, <2>3 DEF SizeCounted
<1>2. CASE call.cid \notin Cached
  <2> DEFINE e == [size |-> call.len, buf |-> call.buf, last_used |-> now]
             c == call.cid
             n == call.len
  <2>1. running' /\ htable' = [htable EXCEPT ![c] = e]
    BY <1>2 DEF PutEntry
  <2>2. c \in Cids /\ call.buf \in Buffers /\ n \in Lengths
    BY DEF PutEntry, IInv, Putting
  <2>3. e \in CacheEntry
    BY <2>2 DEF CacheEntry, IInv, TypeOK
  <2>4. e # NoEntry
    <3>1. e.buf # NULL
      BY <2>2, CacheAssumption
    <3> QED
      BY <3>1 DEF NoEntry
  <2>5. c \in Cids \ Cached /\ e.size = n
    BY <1>2, <2>2
  <2> HIDE DEF c, e
  <2>6. Bytes' = Bytes + n
    BY <2>1, <2>3, <2>4, <2>5, BytesEnter DEF IInv
  <2>7. /\ current_size = Bytes % WordSize /\ WordSize \in Nat \ {0}
        /\ Bytes \in Nat /\ n \in Nat
    BY <2>2, BytesType, CacheAssumption DEF PutEntry, IInv, SInv, SizeCounted
  <2>8. current_size' = (current_size + n) % WordSize
    BY DEF PutEntry
  <2> HIDE DEF n
  <2>9. current_size' = (Bytes + n) % WordSize
    <3> DEFINE a == Bytes
    <3>1. /\ a \in Int /\ n \in Int /\ WordSize \in Nat \ {0}
          /\ current_size' = ((a % WordSize) + n) % WordSize
      BY <2>7, <2>8
    <3> HIDE DEF a
    <3>2. ((a % WordSize) + n) % WordSize = (a + n) % WordSize
      BY <3>1, ResidueOfSum
    <3> QED
      BY <3>1, <3>2 DEF a
  <2> QED
    BY <2>1, <2>6, <2>9 DEF SizeCounted, n
<1> QED
  BY <1>1, <1>2

\* An empty table is one of no bytes.
LEMMA SizeOfNone ==
  ASSUME htable' = [c \in Cids |-> NoEntry], current_size' = 0
  PROVE  SizeCounted' /\ Bytes' = 0
<1>1. Bytes' = 0
  BY EmptyTable, BytesOfNone
<1> QED
  BY <1>1, CacheAssumption DEF SizeCounted

\* An entry that is used keeps its size.
LEMMA SizeUsed ==
  ASSUME IInv, SInv, NEW c \in Cids, get_cmpsc311_cache(c)
  PROVE  SizeCounted' /\ Bytes' = Bytes
<1>1. /\ c \in Cached /\ htable' = [htable EXCEPT ![c].last_used = now]
      /\ UNCHANGED <<current_size, running>>
  BY DEF get_cmpsc311_cache
<1>2. htable[c] \in CacheEntry /\ NULL \notin Buffers
  BY <1>1, CacheAssumption DEF Cached, IInv, TypeOK
<1>3. /\ htable'[c].buf = htable[c].buf /\ htable'[c].size = htable[c].size
      /\ \A d \in Cids : d # c => htable'[d] = htable[d]
  BY <1>1, <1>2 DEF IInv, TypeOK, CacheEntry
<1>4. htable'[c] # NoEntry
  BY <1>2, <1>3 DEF CacheEntry, NoEntry
<1>5. Cached' = Cached /\ \A d \in Cached : htable'[d].size = htable[d].size
  BY <1>1, <1>3, <1>4 DEF Cached
<1>6. Bytes' = Bytes
  BY <1>5, BytesStay DEF IInv
<1> QED
  BY <1>1, <1>6 DEF SInv, SizeCounted

\* A put goes on only with a buffer that max_size allows.
LEMMA AdmittedStep ==
  ASSUME IInv, SInv, [Next]_vars
  PROVE  Admitted'
<1> USE DEF SInv, Admitted
<1>1. CASE UNCHANGED <<limits, call>>
  BY <1>1 DEF limits
<1>2. CASE UNCHANGED limits /\ call'.op # "put"
  BY <1>2 DEF limits
<1>3. ASSUME NEW items \in ItemLimits, NEW size \in SizeLimits,
             init_cmpsc311_cache(items, size)
      PROVE  Admitted'
  <2>1. items \in Nat /\ items # 0
    BY <1>3, CacheAssumption DEF init_cmpsc311_cache
  <2> QED
    BY <1>3, <2>1 DEF init_cmpsc311_cache, Idle, NoCall
<1>4. ASSUME NEW c \in Cids, NEW b \in Buffers, NEW n \in Lengths,
             put_cmpsc311_cache(c, b, n)
      PROVE  Admitted'
  BY <1>4 DEF put_cmpsc311_cache, limits
<1>5. CASE CloseEnd
  BY <1>5 DEF CloseEnd, NoCall
<1>6. NoCall.op # "put" /\ [NoCall EXCEPT !.op = "close"].op # "put"
  BY DEF NoCall
<1>7. ASSUME NEW c \in Cids, get_cmpsc311_cache(c) \/ delete_cmpsc311_cache(c)
      PROVE  Admitted'
  BY <1>1, <1>7 DEF get_cmpsc311_cache, delete_cmpsc311_cache
<1>8. CASE close_cmpsc311_cache
  BY <1>2, <1>6, <1>8 DEF close_cmpsc311_cache
<1>9. CASE eject_cmpsc311_cache
  BY <1>1, <1>2, <1>6, <1>9 DEF eject_cmpsc311_cache
<1>10. CASE PutEntry
  BY <1>2, <1>6, <1>10 DEF PutEntry
<1>11. CASE CloseEntry
  BY <1>1, <1>2, <1>6, <1>11 DEF CloseEntry
<1>12. ASSUME NEW b \in Buffers, Allocate(b) PROVE Admitted'
  BY <1>1, <1>12 DEF Allocate
<1>13. CASE Tick
  BY <1>1, <1>13 DEF Tick
<1>14. CASE UNCHANGED vars
  BY <1>1, <1>14 DEF vars, limits
<1> QED
  BY <1>3, <1>4, <1>5, <1>7, <1>8, <1>9, <1>10, <1>11, <1>12, <1>13, <1>14
  DEF Next, Calls, Continue

\* Every step keeps current_size and the table together.
LEMMA SizeStep == IInv /\ SInv /\ [Next]_vars => SizeCounted'
<1> SUFFICES ASSUME IInv, SInv, [Next]_vars PROVE SizeCounted'
  OBVIOUS
<1>1. CASE UNCHANGED <<current_size, htable, running>>
  BY <1>1, SizeStays
<1>2. ASSUME NEW items \in ItemLimits, NEW size \in SizeLimits,
             init_cmpsc311_cache(items, size)
      PROVE  SizeCounted'
  BY <1>2, SizeOfNone DEF init_cmpsc311_cache
<1>3. ASSUME NEW c \in Cids, get_cmpsc311_cache(c) PROVE SizeCounted'
  BY <1>3, SizeUsed
<1>4. ASSUME NEW c \in Cids, delete_cmpsc311_cache(c) PROVE SizeCounted'
  BY <1>4, SizeLeaves DEF delete_cmpsc311_cache, Idle
<1>5. ASSUME NEW c \in Cids, NEW b \in Buffers, NEW n \in Lengths,
             put_cmpsc311_cache(c, b, n)
      PROVE  SizeCounted'
  BY <1>1, <1>5 DEF put_cmpsc311_cache
<1>6. CASE close_cmpsc311_cache
  BY <1>1, <1>6 DEF close_cmpsc311_cache
<1>7. CASE eject_cmpsc311_cache
  <2>1. CASE Cached = {}
    BY <1>1, <1>7, <2>1 DEF eject_cmpsc311_cache
  <2>2. CASE Cached # {}
    BY <1>7, <2>2, SizeLeaves DEF eject_cmpsc311_cache
  <2> QED
    BY <2>1, <2>2
<1>8. CASE PutEntry
  BY <1>8, SizeEnters
<1>9. CASE CloseEntry
  <2>1. CASE Cached = {}
    BY <1>1, <1>9, <2>1 DEF CloseEntry
  <2>2. CASE Cached # {}
    BY <1>9, <2>2, SizeLeaves DEF CloseEntry
  <2> QED
    BY <2>1, <2>2
<1>10. CASE CloseEnd
  BY <1>10, SizeOfNone DEF CloseEnd
<1>11. ASSUME NEW b \in Buffers, Allocate(b) PROVE SizeCounted'
  BY <1>1, <1>11 DEF Allocate
<1>12. CASE Tick
  BY <1>1, <1>12 DEF Tick
<1>13. CASE UNCHANGED vars
  BY <1>1, <1>13 DEF vars
<1> QED
  BY <1>2, <1>3, <1>4, <1>5, <1>6, <1>7, <1>8, <1>9, <1>10, <1>11, <1>12,
     <1>13
  DEF Next, Calls, Continue

\* current_size follows the table in every state the cache can reach.
LEMMA SizeInvariance == Spec => []SInv
<1>1. Init => SInv
  BY SizeInit
<1>2. IInv /\ SInv /\ [Next]_vars => SInv'
  BY SizeStep, AdmittedStep DEF SInv
<1> QED
  BY <1>1, <1>2, Invariance, PTL DEF Spec

\* current_size is the number of bytes of the entries, modulo 2^32, through
\* every put, ejection, deletion and close.
THEOREM SizeRight == Spec => []SizeCounted
<1>1. SInv => SizeCounted
  BY DEF SInv
<1> QED
  BY <1>1, SizeInvariance, PTL

\* While put_cmpsc311_cache has no room there is an entry to eject.
THEOREM VictimFound == Spec => []VictimExists
<1>1. IInv /\ SInv => VictimExists
  <2> SUFFICES ASSUME IInv, SInv, running, call.op = "put", Full(call.len),
                      Cached = {}
               PROVE  FALSE
    BY DEF VictimExists
  <2>1. current_items = 0
    BY FS_EmptySet DEF IInv, ItemsCounted
  <2>2. current_size = 0
    <3>1. Bytes = 0 /\ WordSize \in Nat \ {0}
      BY BytesOfNone, CacheAssumption
    <3> QED
      BY <3>1 DEF SInv, SizeCounted
  <2>3. /\ max_items > 0 /\ call.len <= max_size /\ max_size \in 0..(WordSize - 1)
        /\ call.len \in 0..(WordSize - 1) /\ max_items \in Nat
    BY DEF SInv, Admitted, IInv, TypeOK, Call
  <2>4. WordSize \in Nat /\ 0 + call.len = call.len
    BY <2>3, CacheAssumption
  <2>5. call.len % WordSize = call.len
    BY <2>3, <2>4
  <2> QED
    BY <2>1, <2>2, <2>3, <2>4, <2>5 DEF Full
<1> QED
  BY <1>1, Invariance, SizeInvariance, PTL

-----------------------------------------------------------------------------
(***************************************************************************)
(* The byte limit                                                          *)
(***************************************************************************)

\* What put_cmpsc311_cache tests is a sum of 32 bits.  It says something about
\* the limit as long as a full cache and one more buffer do not wrap it.
NoWrap == \A s \in SizeLimits, n \in Lengths : n <= s => s + n < WordSize

\* No bytes are cached at first.
LEMMA BytesInit == Init => BytesWithinLimit
<1> SUFFICES ASSUME Init PROVE BytesWithinLimit
  OBVIOUS
<1>1. Cached = {}
  BY DEF Init, Cached
<1> QED
  BY <1>1, BytesOfNone DEF Init, BytesWithinLimit

\* Steps after which there are no more bytes than before.
LEMMA NoMoreBytes ==
  ASSUME IInv, BytesWithinLimit, UNCHANGED limits, Bytes' \in Nat, Bytes' <= Bytes
  PROVE  BytesWithinLimit'
<1>1. Bytes \in Nat /\ max_size \in Nat /\ max_size' = max_size
  BY BytesType, CacheAssumption DEF IInv, TypeOK, limits
<1> QED
  BY <1>1 DEF BytesWithinLimit

\* Steps that leave the table alone keep the limit.
LEMMA SameTable ==
  ASSUME IInv, BytesWithinLimit, UNCHANGED limits, UNCHANGED htable
  PROVE  BytesWithinLimit'
<1>1. Cached' = Cached
  BY DEF Cached
<1>2. Bytes' = Bytes /\ Bytes \in Nat
  BY <1>1, BytesStay, BytesType DEF IInv
<1> QED
  BY <1>2, NoMoreBytes

\* Steps that take an entry out of the table keep the limit.
LEMMA OneLess ==
  ASSUME IInv, BytesWithinLimit, UNCHANGED limits, NEW c \in Cached, NEW who,
         TakeOut(c, who)
  PROVE  BytesWithinLimit'
<1>1. htable' = [htable EXCEPT ![c] = NoEntry]
  BY DEF TakeOut
<1>2. /\ Bytes' \in Nat /\ htable[c].size \in Nat
      /\ Bytes = htable[c].size + Bytes'
  BY <1>1, BytesLeave DEF IInv
<1>3. Bytes' <= Bytes
  BY <1>2
<1> QED
  BY <1>2, <1>3, NoMoreBytes

\* Every step keeps the bytes cached within max_size.
LEMMA BytesStep ==
  ASSUME NoWrap, IInv, SInv, BytesWithinLimit, [Next]_vars
  PROVE  BytesWithinLimit'
<1>1. CASE UNCHANGED <<limits, htable>>
  BY <1>1, SameTable
<1>2. ASSUME NEW items \in ItemLimits, NEW size \in SizeLimits,
             init_cmpsc311_cache(items, size)
      PROVE  BytesWithinLimit'
  <2>1. size >= 0
    BY CacheAssumption
  <2> QED
    BY <1>2, <2>1, SizeOfNone DEF init_cmpsc311_cache, BytesWithinLimit
<1>3. ASSUME NEW c \in Cids, get_cmpsc311_cache(c) PROVE BytesWithinLimit'
  <2>1. Bytes' = Bytes /\ UNCHANGED limits
    BY <1>3, SizeUsed DEF get_cmpsc311_cache
  <2>2. Bytes \in Nat
    BY BytesType DEF IInv
  <2> QED
    BY <2>1, <2>2, NoMoreBytes
<1>4. ASSUME NEW c \in Cids, delete_cmpsc311_cache(c) PROVE BytesWithinLimit'
  BY <1>4, OneLess DEF delete_cmpsc311_cache
<1>5. ASSUME NEW c \in Cids, NEW b \in Buffers, NEW n \in Lengths,
             put_cmpsc311_cache(c, b, n)
      PROVE  BytesWithinLimit'
  BY <1>1, <1>5 DEF put_cmpsc311_cache
<1>6. CASE close_cmpsc311_cache
  BY <1>1, <1>6 DEF close_cmpsc311_cache
<1>7. CASE eject_cmpsc311_cache
  <2>1. CASE Cached = {}
    BY <1>1, <1>7, <2>1 DEF eject_cmpsc311_cache
  <2>2. CASE Cached # {}
    BY <1>7, <2>2, OneLess DEF eject_cmpsc311_cache
  <2> QED
    BY <2>1, <2>2
<1>8. CASE PutEntry
  <2> DEFINE n == call.len
  <2>1. CASE ~ running'
    BY <1>1, <1>8, <2>1 DEF PutEntry
  <2>2. CASE running'
    <3>1. Bytes' = Bytes + n
      BY <1>8, <2>2, SizeEnters
    <3>2. /\ n \in Lengths /\ n <= max_size /\ max_size \in SizeLimits
          /\ current_size = Bytes % WordSize
          /\ ~ ((current_size + n) % WordSize > max_size)
          /\ max_size' = max_size
      BY <1>8 DEF PutEntry, IInv, SInv, Putting, Admitted, SizeCounted, Full, limits
    <3>3. max_size + n < WordSize
      BY <3>2 DEF NoWrap
    <3>4. /\ Bytes \in Nat /\ Bytes <= max_size /\ max_size \in 0..(WordSize - 1)
          /\ WordSize \in Nat \ {0} /\ n \in 0..(WordSize - 1)
      BY <3>2, BytesType, CacheAssumption DEF IInv, TypeOK, BytesWithinLimit
    <3> HIDE DEF n
    <3>5. current_size = Bytes
      BY <3>2, <3>4
    <3>6. Bytes + n \in 0..(WordSize - 1)
      BY <3>3, <3>4
    <3>7. (current_size + n) % WordSize = Bytes + n
      BY <3>4, <3>5, <3>6
    <3>8. Bytes + n <= max_size
      BY <3>2, <3>4, <3>7
    <3> QED
      BY <3>1, <3>2, <3>8 DEF BytesWithinLimit
  <2> QED
    BY <2>1, <2>2
<1>9. CASE CloseEntry
  <2>1. CASE Cached = {}
    BY <1>1, <1>9, <2>1 DEF CloseEntry
  <2>2. CASE Cached # {}
    BY <1>9, <2>2, OneLess DEF CloseEntry
  <2> QED
    BY <2>1, <2>2
<1>10. CASE CloseEnd
  BY <1>10, SizeOfNone DEF CloseEnd, BytesWithinLimit
<1>11. ASSUME NEW b \in Buffers, Allocate(b) PROVE BytesWithinLimit'
  BY <1>1, <1>11 DEF Allocate
<1>12. CASE Tick
  BY <1>1, <1>12 DEF Tick
<1>13. CASE UNCHANGED vars
  BY <1>1, <1>13 DEF vars, limits
<1> QED
  BY <1>2, <1>3, <1>4, <1>5, <1>6, <1>7, <1>8, <1>9, <1>10, <1>11, <1>12,
     <1>13
  DEF Next, Calls, Continue

\* The cache holds no more than max_items objects and no more than max_size
\* bytes, as the comment at the head of put_cmpsc311_cache has it, for every
\* pair of limits the 32 bit sum can express.
THEOREM LimitsRight ==
  ASSUME NoWrap
  PROVE  Spec => []LimitsKept
<1>1. Init => BytesWithinLimit
  BY BytesInit
<1>2. IInv /\ SInv /\ BytesWithinLimit /\ [Next]_vars => BytesWithinLimit'
  BY BytesStep
<1>3. IInv /\ BytesWithinLimit => LimitsKept
  BY DEF IInv, LimitsKept
<1> QED
  BY <1>1, <1>2, <1>3, Invariance, SizeInvariance, PTL DEF Spec
=============================================================================
