----------------------------- MODULE HashTable ------------------------------
(***************************************************************************)
(* The hash table of lib/cmpsc311_hashtable.c: an array of doubly linked   *)
(* lists, each sorted by index value, of entries allocated with malloc.    *)
(*                                                                         *)
(* No two calls ever run at once, so a call is one step.  A walk along a   *)
(* list is the function from its turns to the addresses it passes.  The    *)
(* cookie of an entry, its protection against stray writes, is not         *)
(* represented.                                                            *)
(***************************************************************************)
EXTENDS Naturals, FiniteSets, SequencesExt

CONSTANTS
  Keys,      \* index values, numbers (bound)
  Blocks,    \* what callers store
  Addr,      \* addresses malloc may return (bound on the heap)
  NULL,
  TableSize  \* htTableSize

Pointer == Addr \cup {NULL}
HtEntry == [index : Keys, block : Blocks, prev : Pointer, next : Pointer]

ASSUME HashTableAssumption ==
  /\ Keys \subseteq Nat
  /\ IsFiniteSet(Addr)
  /\ NULL \notin Addr \cup Blocks \cup HtEntry
  /\ TableSize \in Nat \ {0}

VARIABLES
  ready,     \* between initHashTable and cleanupHashTable
  hasHTable, \* the first entry of each list
  heap,      \* the entries by address, NULL where nothing is allocated
  elements,
  it,        \* the iterator
  seen,      \* the entries it has returned (history)
  ret        \* the last call, its index value, and the block it returned

vars == <<ready, hasHTable, heap, elements, it, seen, ret>>
-----------------------------------------------------------------------------
Bins == 0..(TableSize - 1)

Live == {a \in Addr : heap[a] # NULL}

HASH_VALUE(k) == k % TableSize

Index(a) == heap[a].index
BlockOf(a) == IF a = NULL THEN NULL ELSE heap[a].block

\* What a walk that begins at first and goes on along succ passes turn by
\* turn: NULL behind the last entry.
Walk(first, succ) ==
  LET at[n \in Nat] ==
        IF n = 0 THEN first
        ELSE IF at[n - 1] = NULL THEN NULL ELSE succ[at[n - 1]]
  IN  at

\* Memory that is not allocated ends a walk.
Successor == [a \in Addr |-> IF heap[a] = NULL THEN NULL ELSE heap[a].next]

List(b) == Walk(hasHTable[b], Successor)

\* No list has more entries than there are addresses.
Turns == 0..Cardinality(Addr)

Chain(b) == {List(b)[n] : n \in Turns} \ {NULL}

\* The turn at which the walks of findValueInHashTable and
\* insertValueInHashTable for k stop: at the end of the list, or at an index
\* value that is not smaller.
StopTurn(k) ==
  LET cur == List(HASH_VALUE(k)) IN
  CHOOSE n \in Turns :
    /\ cur[n] = NULL \/ Index(cur[n]) >= k
    /\ \A m \in 0..(n - 1) : cur[m] # NULL /\ Index(cur[m]) < k

FindEntry(k) ==
  LET cur == List(HASH_VALUE(k))[StopTurn(k)] IN
  IF cur # NULL /\ Index(cur) = k THEN cur ELSE NULL

\* The neighbours a new entry gets.
InsertPlace(k) ==
  LET cur == List(HASH_VALUE(k))
      n   == StopTurn(k)
  IN  [last |-> IF n = 0 THEN NULL ELSE cur[n - 1], cur |-> cur[n]]

\* The walk of deleteValueFromHashTable does not look at the order.
DeleteTurn(k) ==
  LET cur == List(HASH_VALUE(k)) IN
  CHOOSE n \in Turns :
    /\ cur[n] = NULL \/ Index(cur[n]) = k
    /\ \A m \in 0..(n - 1) : cur[m] # NULL /\ Index(cur[m]) # k

DeleteEntry(k) == List(HASH_VALUE(k))[DeleteTurn(k)]

Result(call, k, b) == [call |-> call, index |-> k, block |-> b]

NoIterator == [idx |-> 0, ptr |-> NULL, on |-> FALSE]
-----------------------------------------------------------------------------
Init ==
  /\ ready = FALSE
  /\ hasHTable = [b \in Bins |-> NULL]
  /\ heap = [a \in Addr |-> NULL]
  /\ elements = 0
  /\ it = NoIterator
  /\ seen = <<>>
  /\ ret = Result("none", NULL, NULL)

initHashTable ==
  /\ ~ready
  /\ ready' = TRUE
  /\ hasHTable' = [b \in Bins |-> NULL]
  /\ elements' = 0
  /\ ret' = Result("none", NULL, NULL)
  /\ UNCHANGED <<heap, it, seen>>

\* Every entry on a list is freed; elements keeps its value.
cleanupHashTable ==
  /\ ready
  /\ ready' = FALSE
  /\ heap' = [a \in Addr |->
                IF \E b \in Bins : a \in Chain(b) THEN NULL ELSE heap[a]]
  /\ hasHTable' = [b \in Bins |-> NULL]
  /\ it' = NoIterator
  /\ seen' = <<>>
  /\ ret' = Result("none", NULL, NULL)
  /\ UNCHANGED elements

\* Mutant of insertValueInHashTable: the entry behind keeps its prev.
insertNoBackLink(k, b) ==
  /\ ready
  /\ FindEntry(k) = NULL
  /\ \E entry \in Addr \ Live :
       LET last == InsertPlace(k).last
           cur  == InsertPlace(k).cur
       IN
       /\ heap' = [a \in Addr |->
            IF a = entry THEN [index |-> k, block |-> b,
                               prev |-> last, next |-> cur]
            ELSE IF a = last THEN [heap[a] EXCEPT !.next = entry]
            ELSE heap[a]]
       /\ hasHTable' = IF last # NULL THEN hasHTable
                       ELSE [hasHTable EXCEPT ![HASH_VALUE(k)] = entry]
  /\ elements' = elements + 1
  /\ it' = NoIterator
  /\ seen' = <<>>
  /\ ret' = Result("insert", k, NULL)
  /\ UNCHANGED ready

\* A duplicate fails the assertion and ends the process: no step for it here.
\* A new entry goes between last and cur.
insertValueInHashTable(k, b) ==
  /\ ready
  /\ FindEntry(k) = NULL
  /\ \E entry \in Addr \ Live :
       LET last == InsertPlace(k).last
           cur  == InsertPlace(k).cur
       IN
       /\ heap' = [a \in Addr |->
            IF a = entry THEN [index |-> k, block |-> b,
                               prev |-> last, next |-> cur]
            ELSE IF a = last THEN [heap[a] EXCEPT !.next = entry]
            ELSE IF a = cur THEN [heap[a] EXCEPT !.prev = entry]
            ELSE heap[a]]
       /\ hasHTable' = IF last # NULL THEN hasHTable
                       ELSE [hasHTable EXCEPT ![HASH_VALUE(k)] = entry]
  /\ elements' = elements + 1
  /\ it' = NoIterator
  /\ seen' = <<>>
  /\ ret' = Result("insert", k, NULL)
  /\ UNCHANGED ready

\* Mutant of findValueInHashTable: only the first entry is looked at.
findHeadOnly(k) ==
  LET cur == hasHTable[HASH_VALUE(k)] IN
  /\ ready
  /\ ret' = Result("find", k,
               IF cur # NULL /\ Index(cur) = k THEN heap[cur].block ELSE NULL)
  /\ UNCHANGED <<ready, hasHTable, heap, elements, it, seen>>

findValueInHashTable(k) ==
  /\ ready
  /\ ret' = Result("find", k, BlockOf(FindEntry(k)))
  /\ UNCHANGED <<ready, hasHTable, heap, elements, it, seen>>

\* Mutant of deleteValueFromHashTable: the count is left alone.
deleteNoCount(k) ==
  LET cur == DeleteEntry(k) IN
  /\ ready
  /\ cur # NULL
  /\ ret' = Result("delete", k, BlockOf(cur))
  /\ hasHTable' = IF hasHTable[HASH_VALUE(k)] = cur
                  THEN [hasHTable EXCEPT ![HASH_VALUE(k)] = heap[cur].next]
                  ELSE hasHTable
  /\ heap' = [a \in Addr |->
       IF a = cur THEN NULL
       ELSE IF a = heap[cur].prev THEN [heap[a] EXCEPT !.next = heap[cur].next]
       ELSE IF a = heap[cur].next THEN [heap[a] EXCEPT !.prev = heap[cur].prev]
       ELSE heap[a]]
  /\ it' = NoIterator
  /\ seen' = <<>>
  /\ UNCHANGED <<ready, elements>>

\* The entry is taken out of its list and freed, its block returned.
deleteValueFromHashTable(k) ==
  LET cur == DeleteEntry(k) IN
  /\ ready
  /\ cur # NULL
  /\ ret' = Result("delete", k, BlockOf(cur))
  /\ hasHTable' = IF hasHTable[HASH_VALUE(k)] = cur
                  THEN [hasHTable EXCEPT ![HASH_VALUE(k)] = heap[cur].next]
                  ELSE hasHTable
  /\ heap' = [a \in Addr |->
       IF a = cur THEN NULL
       ELSE IF a = heap[cur].prev THEN [heap[a] EXCEPT !.next = heap[cur].next]
       ELSE IF a = heap[cur].next THEN [heap[a] EXCEPT !.prev = heap[cur].prev]
       ELSE heap[a]]
  /\ elements' = elements - 1
  /\ it' = NoIterator
  /\ seen' = <<>>
  /\ UNCHANGED ready

\* Mutant of deleteMisses: the count goes down whatever was found.
deleteCountsMisses(k) ==
  /\ ready
  /\ DeleteEntry(k) = NULL
  /\ ret' = Result("delete", k, NULL)
  /\ elements' = elements - 1
  /\ UNCHANGED <<ready, hasHTable, heap, it, seen>>

deleteMisses(k) ==
  /\ ready
  /\ DeleteEntry(k) = NULL
  /\ ret' = Result("delete", k, NULL)
  /\ UNCHANGED <<ready, hasHTable, heap, elements, it, seen>>

initHashTableIterator ==
  /\ ready
  /\ it' = [idx |-> 0, ptr |-> NULL, on |-> TRUE]
  /\ seen' = <<>>
  /\ UNCHANGED <<ready, hasHTable, heap, elements, ret>>

\* Where iterateHashTable looks for the next entry.
AfterPtr == IF it.ptr = NULL THEN NULL ELSE heap[it.ptr].next
FromBin  == IF it.ptr # NULL THEN it.idx + 1 ELSE it.idx
NextBin  == {b \in Bins : /\ b >= FromBin /\ hasHTable[b] # NULL
                          /\ \A c \in FromBin..(b - 1) : hasHTable[c] = NULL}

\* Mutant of iterateHashTable: an empty list ends the walk.
iterateToGap ==
  /\ ready /\ it.on
  /\ \/ /\ AfterPtr # NULL
        /\ it' = [it EXCEPT !.ptr = AfterPtr]
     \/ /\ AfterPtr = NULL
        /\ FromBin \in NextBin
        /\ it' = [it EXCEPT !.ptr = hasHTable[FromBin], !.idx = FromBin]
     \/ /\ AfterPtr = NULL
        /\ FromBin \notin NextBin
        /\ it' = [it EXCEPT !.ptr = NULL, !.idx = TableSize]
  /\ seen' = IF it'.ptr = NULL THEN seen ELSE Append(seen, it'.ptr)
  /\ ret' = Result("iterate", NULL, BlockOf(it'.ptr))
  /\ UNCHANGED <<ready, hasHTable, heap, elements>>

\* The next entry of this list, or the first of the next list that has one.
\* The callers in the library do not change the table during a walk: Insert
\* and Delete above end it.
iterateHashTable ==
  /\ ready /\ it.on
  /\ \/ /\ AfterPtr # NULL
        /\ it' = [it EXCEPT !.ptr = AfterPtr]
     \/ /\ AfterPtr = NULL
        /\ \E b \in NextBin :
             it' = [it EXCEPT !.ptr = hasHTable[b], !.idx = b]
     \/ /\ AfterPtr = NULL
        /\ NextBin = {}
        /\ it' = [it EXCEPT !.ptr = NULL, !.idx = TableSize]
  /\ seen' = IF it'.ptr = NULL THEN seen ELSE Append(seen, it'.ptr)
  /\ ret' = Result("iterate", NULL, BlockOf(it'.ptr))
  /\ UNCHANGED <<ready, hasHTable, heap, elements>>
-----------------------------------------------------------------------------
Next ==
  \/ initHashTable \/ cleanupHashTable
  \/ \E k \in Keys :
       \/ findValueInHashTable(k)
       \/ deleteValueFromHashTable(k) \/ deleteMisses(k)
       \/ \E b \in Blocks : insertValueInHashTable(k, b)
  \/ initHashTableIterator \/ iterateHashTable

Spec == Init /\ [][Next]_vars
-----------------------------------------------------------------------------
(***************************************************************************)
(* Properties.                                                             *)
(***************************************************************************)
\* Every variable stays in its range; elements never wraps below zero.
TypeOK ==
  /\ ready \in BOOLEAN
  /\ hasHTable \in [Bins -> Pointer]
  /\ heap \in [Addr -> HtEntry \cup {NULL}]
  /\ elements \in Nat
  /\ it \in [idx : 0..TableSize, ptr : Pointer, on : BOOLEAN]
  /\ seen \in Seq(Addr)
  /\ ret \in [call : {"none", "insert", "find", "delete", "iterate"},
              index : Keys \cup {NULL}, block : Blocks \cup {NULL}]

\* The lists are sound after any sequence of insertions and deletions: every
\* allocated entry is on the list of its hash value and on no other, lists
\* rise strictly, prev and next undo each other, and no pointer leads to freed
\* memory.
ListsSound == ready =>
  /\ \A b \in Bins : hasHTable[b] # NULL =>
       /\ hasHTable[b] \in Live /\ heap[hasHTable[b]].prev = NULL
       /\ HASH_VALUE(Index(hasHTable[b])) = b
  /\ \A a \in Live :
       LET n == heap[a].next  p == heap[a].prev IN
       /\ n # NULL => /\ n \in Live /\ heap[n].prev = a
                      /\ Index(a) < Index(n)
                      /\ HASH_VALUE(Index(a)) = HASH_VALUE(Index(n))
       /\ p # NULL => p \in Live /\ heap[p].next = a
       /\ p = NULL => hasHTable[HASH_VALUE(Index(a))] = a

\* elements counts the entries while there is a table, and cleanupHashTable
\* frees every entry that was ever inserted.
ElementsCounted == IF ready THEN elements = Cardinality(Live) ELSE Live = {}

\* A walk that has come to its end has returned every entry exactly once: what
\* eject_cmpsc311_cache and close_cmpsc311_cache rely on.
WalkComplete ==
  it.on /\ it.idx = TableSize =>
    ToSet(seen) = Live /\ Len(seen) = Cardinality(Live)

\* The table is a dictionary: the lists found by walking them.
dictionary ==
  LET Entries == UNION {Chain(b) : b \in Bins} IN
  [k \in {Index(a) : a \in Entries} |->
     BlockOf(CHOOSE a \in Entries : Index(a) = k)]

Promised == INSTANCE Dictionary WITH dict <- dictionary

DictionarySpec == Promised!Spec
=============================================================================
