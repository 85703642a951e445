------------------------------- MODULE Cache --------------------------------
(***************************************************************************)
(* The buffer cache of lib/cmpsc311_cache.c.  Callers hand malloc'ed       *)
(* buffers over with put_cmpsc311_cache; the cache makes room by freeing   *)
(* buffers it holds, and gives a buffer back with delete_cmpsc311_cache.   *)
(*                                                                         *)
(* The hash table below the cache is the dictionary that HashTable is      *)
(* shown to be; a walk over it meets the entries in any order.  The loops  *)
(* of put and close take one step per entry.  Calls that return early      *)
(* change nothing and have no step.                                        *)
(***************************************************************************)
EXTENDS Integers, FiniteSets, FiniteSetsExt

CONSTANTS
  Cids, Buffers, NULL,
  ItemLimits, SizeLimits, \* what init_cmpsc311_cache may be called with
  Lengths,                \* of the buffers put (bound)
  WordSize,               \* the number of values of a uint32_t
  MaxTime                 \* bound on the clock, which may stand still

ASSUME CacheAssumption ==
  /\ IsFiniteSet(Cids) /\ IsFiniteSet(Buffers)
  /\ NULL \notin Cids \cup Buffers
  /\ WordSize \in Nat \ {0}
  /\ ItemLimits \cup SizeLimits \cup Lengths \subseteq 0..(WordSize - 1)
  /\ MaxTime \in Nat

VARIABLES
  initialized, max_items, max_size, current_items, current_size,
  htable,   \* the entries by cid
  owner,    \* who is to free a buffer: "caller", "cache", or it is free
  now,      \* the clock gettimeofday reads
  call,     \* the call in progress
  running   \* FALSE after a failed assertion

vars == <<initialized, max_items, max_size, current_items, current_size,
          htable, owner, now, call, running>>
limits == <<initialized, max_items, max_size>>
-----------------------------------------------------------------------------
CacheEntry == [size : Lengths, buf : Buffers, last_used : 0..MaxTime]
NoEntry == [size |-> 0, buf |-> NULL, last_used |-> 0]
Cached == {c \in Cids : htable[c] # NoEntry}
Bytes == MapThenSumSet(LAMBDA c : htable[c].size, Cached)

Call == [op : {"none", "put", "close"}, cid : Cids \cup {NULL},
         buf : Buffers \cup {NULL}, len : 0..(WordSize - 1)]
NoCall == [op |-> "none", cid |-> NULL, buf |-> NULL, len |-> 0]
Idle == running /\ call = NoCall

compareTimes(tm1, tm2) == tm2 - tm1

\* The entry eject_cmpsc311_cache is left with after its walk.
Chosen(c) ==
  \A d \in Cached :
    ~ compareTimes(htable[d].last_used, htable[c].last_used) < 0

\* Mutant of Full: one item too many.
FullOffByOne(n) ==
  \/ current_items > max_items
  \/ (current_size + n) % WordSize > max_size

\* No room for n more bytes; the sum is taken in 32 bits.
Full(n) ==
  \/ current_items >= max_items
  \/ (current_size + n) % WordSize > max_size

\* An entry leaves the table and the counts, its buffer goes to who.
TakeOut(c, who) ==
  /\ htable' = [htable EXCEPT ![c] = NoEntry]
  /\ current_items' = current_items - 1
  /\ current_size' = (current_size - htable[c].size) % WordSize
  /\ owner' = [owner EXCEPT ![htable[c].buf] = who]
-----------------------------------------------------------------------------
Init ==
  /\ initialized = FALSE
  /\ max_items = 0 /\ max_size = 0
  /\ current_items = 0 /\ current_size = 0
  /\ htable = [c \in Cids |-> NoEntry]
  /\ owner = [b \in Buffers |-> "none"]
  /\ now = 0
  /\ call = NoCall
  /\ running = TRUE

init_cmpsc311_cache(items, size) ==
  /\ Idle /\ ~initialized
  /\ items # 0 /\ size # 0
  /\ initialized' = TRUE
  /\ max_items' = items /\ max_size' = size
  /\ current_items' = 0 /\ current_size' = 0
  /\ htable' = [c \in Cids |-> NoEntry]
  /\ UNCHANGED <<owner, now, call, running>>

\* Mutant of put_cmpsc311_cache: any length is let in.
PutAnySize(c, b, n) ==
  /\ Idle /\ initialized
  /\ owner[b] = "caller"
  /\ n # 0
  /\ call' = [op |-> "put", cid |-> c, buf |-> b, len |-> n]
  /\ UNCHANGED <<limits, current_items, current_size, htable, owner, now,
                 running>>

\* The tests at the head of put_cmpsc311_cache.
put_cmpsc311_cache(c, b, n) ==
  /\ Idle /\ initialized
  /\ owner[b] = "caller"
  /\ n # 0 /\ n <= max_size
  /\ call' = [op |-> "put", cid |-> c, buf |-> b, len |-> n]
  /\ UNCHANGED <<limits, current_items, current_size, htable, owner, now,
                 running>>

\* Mutant of eject_cmpsc311_cache: the buffer is not freed.
EjectLeaks ==
  /\ running /\ call.op = "put" /\ Full(call.len)
  /\ IF Cached = {}
     THEN /\ call' = NoCall
          /\ UNCHANGED <<htable, current_items, current_size, owner>>
     ELSE /\ \E c \in Cached : Chosen(c) /\ TakeOut(c, "cache")
          /\ UNCHANGED call
  /\ UNCHANGED <<limits, now, running>>

\* Mutant of eject_cmpsc311_cache: the entry chosen stays in the table.
EjectForgets ==
  /\ running /\ call.op = "put" /\ Full(call.len)
  /\ IF Cached = {} THEN call' = NoCall ELSE UNCHANGED call
  /\ UNCHANGED <<htable, current_items, current_size, owner>>
  /\ UNCHANGED <<limits, now, running>>

\* One turn of the loop in put_cmpsc311_cache; with nothing to eject the
\* call fails.
eject_cmpsc311_cache ==
  /\ running /\ call.op = "put" /\ Full(call.len)
  /\ IF Cached = {}
     THEN /\ call' = NoCall
          /\ UNCHANGED <<htable, current_items, current_size, owner>>
     ELSE /\ \E c \in Cached : Chosen(c) /\ TakeOut(c, "none")
          /\ UNCHANGED call
  /\ UNCHANGED <<limits, now, running>>

\* Mutant of PutEntry: the test for a duplicate is gone, the old entry is
\* replaced.
PutOverOld ==
  /\ running /\ call.op = "put" /\ ~Full(call.len)
  /\ current_items' = current_items + 1
  /\ current_size' = (current_size + call.len) % WordSize
  /\ htable' = [htable EXCEPT ![call.cid] =
                  [size |-> call.len, buf |-> call.buf, last_used |-> now]]
  /\ owner' = [owner EXCEPT ![call.buf] = "cache"]
  /\ call' = NoCall
  /\ UNCHANGED <<limits, now, running>>

\* The rest of put_cmpsc311_cache.  insertValueInHashTable stops the program
\* at an entry of the same cid, when the counts have been raised already.
PutEntry ==
  /\ running /\ call.op = "put" /\ ~Full(call.len)
  /\ current_items' = current_items + 1
  /\ current_size' = (current_size + call.len) % WordSize
  /\ running' = (call.cid \notin Cached)
  /\ IF running'
     THEN /\ htable' = [htable EXCEPT ![call.cid] =
               [size |-> call.len, buf |-> call.buf, last_used |-> now]]
          /\ owner' = [owner EXCEPT ![call.buf] = "cache"]
     ELSE UNCHANGED <<htable, owner>>
  /\ call' = NoCall
  /\ UNCHANGED <<limits, now>>

get_cmpsc311_cache(c) ==
  /\ Idle /\ initialized
  /\ c \in Cached
  /\ htable' = [htable EXCEPT ![c].last_used = now]
  /\ UNCHANGED <<limits, current_items, current_size, owner, now, call,
                 running>>

\* Mutant of delete_cmpsc311_cache: the size is left alone.
DeleteKeepsSize(c) ==
  /\ Idle /\ initialized
  /\ c \in Cached
  /\ htable' = [htable EXCEPT ![c] = NoEntry]
  /\ current_items' = current_items - 1
  /\ owner' = [owner EXCEPT ![htable[c].buf] = "caller"]
  /\ UNCHANGED <<limits, current_size, now, call, running>>

\* Mutant of delete_cmpsc311_cache: the count goes down for a cid that is not
\* in the cache.
DeleteCountsMisses(c) ==
  /\ Idle /\ initialized
  /\ IF c \in Cached THEN TakeOut(c, "caller")
     ELSE /\ current_items' = current_items - 1
          /\ UNCHANGED <<htable, current_size, owner>>
  /\ UNCHANGED <<limits, now, call, running>>

\* The buffer goes back to the caller.
delete_cmpsc311_cache(c) ==
  /\ Idle /\ initialized
  /\ c \in Cached
  /\ TakeOut(c, "caller")
  /\ UNCHANGED <<limits, now, call, running>>

close_cmpsc311_cache ==
  /\ Idle /\ initialized
  /\ call' = [NoCall EXCEPT !.op = "close"]
  /\ UNCHANGED <<limits, current_items, current_size, htable, owner, now,
                 running>>

\* One turn of the loop in close_cmpsc311_cache; a count that is too high ends
\* the call early.
CloseEntry ==
  /\ running /\ call.op = "close" /\ current_items > 0
  /\ IF Cached = {}
     THEN /\ call' = NoCall
          /\ UNCHANGED <<htable, current_items, current_size, owner>>
     ELSE /\ \E c \in Cached : TakeOut(c, "none")
          /\ UNCHANGED call
  /\ UNCHANGED <<limits, now, running>>

\* cleanupHashTable and the end of close_cmpsc311_cache.
CloseEnd ==
  /\ running /\ call.op = "close" /\ current_items = 0
  /\ htable' = [c \in Cids |-> NoEntry]
  /\ initialized' = FALSE
  /\ max_items' = 0 /\ max_size' = 0
  /\ current_items' = 0 /\ current_size' = 0
  /\ call' = NoCall
  /\ UNCHANGED <<owner, now, running>>

\* The caller's malloc.
Allocate(b) ==
  /\ Idle
  /\ owner[b] = "none"
  /\ owner' = [owner EXCEPT ![b] = "caller"]
  /\ UNCHANGED <<limits, current_items, current_size, htable, now, call,
                 running>>

Tick ==
  /\ now < MaxTime
  /\ now' = now + 1
  /\ UNCHANGED <<limits, current_items, current_size, htable, owner, call,
                 running>>
-----------------------------------------------------------------------------
Calls ==
  \/ \E items \in ItemLimits, size \in SizeLimits :
       init_cmpsc311_cache(items, size)
  \/ \E c \in Cids :
       \/ get_cmpsc311_cache(c) \/ delete_cmpsc311_cache(c)
       \/ \E b \in Buffers, n \in Lengths : put_cmpsc311_cache(c, b, n)
  \/ close_cmpsc311_cache

Continue == eject_cmpsc311_cache \/ PutEntry \/ CloseEntry \/ CloseEnd

Next ==
  \/ Calls \/ Continue
  \/ \E b \in Buffers : Allocate(b)
  \/ Tick

Spec == Init /\ [][Next]_vars

\* A call that has begun goes on: the program is sequential.
FairSpec == Spec /\ WF_vars(Continue)
-----------------------------------------------------------------------------
(***************************************************************************)
(* Properties.                                                             *)
(***************************************************************************)
\* Every variable stays in its range; no count falls below zero.
TypeOK ==
  /\ initialized \in BOOLEAN /\ running \in BOOLEAN
  /\ max_items \in 0..(WordSize - 1) /\ max_size \in 0..(WordSize - 1)
  /\ current_items \in Nat /\ current_size \in 0..(WordSize - 1)
  /\ htable \in [Cids -> CacheEntry \cup {NoEntry}]
  /\ owner \in [Buffers -> {"none", "caller", "cache"}]
  /\ now \in 0..MaxTime
  /\ call \in Call

\* The number of items is that of the entries.
ItemsCounted == running => current_items = Cardinality(Cached)

\* The number of bytes is that of the entries.
SizeCounted == running => current_size = Bytes % WordSize

\* What the comment at the head of put_cmpsc311_cache promises: never more
\* than max_items objects nor more than max_size bytes of objects.
ItemsWithinLimit == Cardinality(Cached) <= max_items
BytesWithinLimit == Bytes <= max_size
LimitsKept == ItemsWithinLimit /\ BytesWithinLimit

\* Every buffer of the cache is in one entry, and every entry has a buffer of
\* the cache: none is leaked, freed twice, or freed while somebody else owns
\* it, whatever the order of puts, ejections, deletions and closes.
BuffersOwned ==
  /\ \A c \in Cached : owner[htable[c].buf] = "cache"
  /\ \A c, d \in Cached : htable[c].buf = htable[d].buf => c = d
  /\ \A b \in Buffers : owner[b] = "cache" =>
       \E c \in Cached : htable[c].buf = b

\* While put_cmpsc311_cache has no room there is an entry to eject: a buffer
\* no longer than max_size always gets in.
VictimExists == running /\ call.op = "put" /\ Full(call.len) => Cached # {}

\* A call comes to its end.
CallsReturn == call.op # "none" ~> call.op = "none"

\* put_cmpsc311_cache ejects the oldest entry, as the comment at its head has
\* it.  It does not: see the README.
OldestEjected ==
  [][\A c \in Cached :
       call.op = "put" /\ htable'[c] = NoEntry =>
         \A d \in Cached : htable[c].last_used <= htable[d].last_used]_vars
=============================================================================
