----------------------------- MODULE LogProofs -----------------------------
(***************************************************************************)
(* Proofs about Log, for every set of threads, number of messages, failed  *)
(* opens and width of a word.                                              *)
(***************************************************************************)
EXTENDS Log, FiniteSetTheorems, TLAPS

-----------------------------------------------------------------------------
(***************************************************************************)
(* Levels                                                                  *)
(***************************************************************************)

\* The bit of each level of a program is on if and only if it was enabled
\* last, the sign bit included.
BitsFollow ==
  \A k \in Levels : k \in logLevel <=> k \in wanted

\* The bits below the width of an int that a word of levels has.
LEMMA WordBits ==
  ASSUME NEW levels \in SUBSET Levels
  PROVE  /\ WordOf(levels) \subseteq Bits
         /\ \A k \in Levels : k \in WordOf(levels) <=> k \in levels
<1>1. \A k \in Levels : LevelWord(k) \subseteq Bits /\ k \in LevelWord(k)
  BY IntBitsAssumption DEF LevelWord, LastLevel, Bits, Levels
<1>2. \A k, l \in Levels : k \in LevelWord(l) => k = l
  BY IntBitsAssumption DEF LevelWord, LastLevel, Levels
<1>3. \A k : k \in WordOf(levels) <=> \E l \in levels : k \in LevelWord(l)
  BY DEF WordOf
<1> QED BY <1>1, <1>2, <1>3

\* A level turned on or off changes its own bit and no other of an int.
LEMMA LevelsStep ==
  ASSUME NEW word \in SUBSET Bits, NEW levels \in SUBSET Levels
  PROVE  /\ Enabled(word, WordOf(levels)) \subseteq Bits
         /\ Disabled(word, WordOf(levels)) \subseteq Bits
         /\ \A k \in Levels :
              /\ k \in Enabled(word, WordOf(levels)) <=> k \in word \/ k \in levels
              /\ k \in Disabled(word, WordOf(levels)) <=> k \in word /\ k \notin levels
BY WordBits DEF Enabled, Disabled, Xor, AllLevels

\* Calls that change levels keep the bits and what was asked for together.
LEMMA SetLevelsStep ==
  ASSUME TypeOK, BitsFollow, SetLevels
  PROVE  /\ logLevel' \subseteq Bits /\ registered' \in 4..IntBits
         /\ wanted' \subseteq Levels
         /\ BitsFollow'
<1> USE IntBitsAssumption
<1>1. /\ logLevel \in SUBSET Bits /\ wanted \subseteq Levels
      /\ registered \in 4..IntBits /\ 0..(registered - 1) \subseteq Levels
  BY DEF TypeOK, Levels
<1>2. ASSUME NEW levels \in SUBSET (0..(registered - 1)), enableLogLevels(levels)
      PROVE  /\ logLevel' \subseteq Bits /\ registered' = registered
             /\ wanted' \subseteq Levels /\ BitsFollow'
  <2>1. levels \in SUBSET Levels
    BY <1>1
  <2> QED BY <1>1, <1>2, <2>1, LevelsStep DEF enableLogLevels, BitsFollow
<1>3. ASSUME NEW levels \in SUBSET (0..(registered - 1)), disableLogLevels(levels)
      PROVE  /\ logLevel' \subseteq Bits /\ registered' = registered
             /\ wanted' \subseteq Levels /\ BitsFollow'
  <2>1. levels \in SUBSET Levels
    BY <1>1
  <2> QED BY <1>1, <1>3, <2>1, LevelsStep DEF disableLogLevels, BitsFollow
<1>4. ASSUME NEW enable \in BOOLEAN, registerLogLevel(enable)
      PROVE  /\ logLevel' \subseteq Bits /\ registered' \in 4..IntBits
             /\ wanted' \subseteq Levels /\ BitsFollow'
  <2>1. {registered} \in SUBSET Levels /\ registered' \in 4..IntBits
    BY <1>1, <1>4 DEF registerLogLevel, Levels
  <2>2. WordOf({registered}) = LevelWord(registered)
    BY DEF WordOf
  <2>3. CASE enable
    BY <1>1, <1>4, <2>1, <2>2, <2>3, LevelsStep DEF registerLogLevel, BitsFollow
  <2>4. CASE ~ enable
    BY <1>1, <1>4, <2>1, <2>4 DEF registerLogLevel, BitsFollow
  <2> QED BY <2>1, <2>3, <2>4
<1> QED BY <1>1, <1>2, <1>3, <1>4 DEF SetLevels

-----------------------------------------------------------------------------
(***************************************************************************)
(* Messages                                                                *)
(***************************************************************************)

\* A message is accepted once, by the call that is logging it or one before.
Accepted ==
  /\ \A m \in accepted : m[2] <= count[m[1]]
  /\ \A t \in Threads : pc[t] # "idle" => Message(t) \in accepted \ written

\* The file holds the old line and the messages written, each of them once.
FileLines ==
  /\ \A j \in DOMAIN file : file[j] \in written \union {OldLine}
  /\ \A m \in written \union {OldLine} : \E j \in DOMAIN file : file[j] = m
  /\ \A j, k \in DOMAIN file : file[j] = file[k] => j = k

\* While opens succeed nobody is about to write without a handle, and no
\* accepted message has been dropped.
NoneDropped == failures = 0 =>
  /\ ~ errored
  /\ \A t \in Threads : /\ pc[t] # "openFailed"
                        /\ pc[t] \in {"check", "write"} => fileHandle # NoHandle
  /\ \A m \in accepted : m \in written \/ (pc[m[1]] # "idle" /\ m[2] = count[m[1]])

\* Threads that found the log closed and have not opened it yet.
Openers == {t \in Threads : pc[t] = "open"}

\* While opens succeed every thread opens the log at most once, and none does
\* who comes after the first open.
OpensBounded == failures = 0 =>
  /\ Len(handles) + Cardinality(Openers) <= Cardinality(Threads)
  /\ fileHandle = NoHandle => Len(handles) = 0

IInv ==
  TypeOK /\ BitsFollow /\ Accepted /\ FileLines /\ NoneDropped /\ OpensBounded

\* No message is the line of an earlier run.
LEMMA OldIsNoMessage == OldLine \notin Messages
<1>1. Len(OldLine) = 1
  BY DEF OldLine
<1>2. \A m \in Messages : Len(m) = 2
  BY DEF Messages
<1> QED BY <1>1, <1>2

\* The message a thread is about to log.
LEMMA MessageType ==
  ASSUME TypeOK, NEW t \in Threads
  PROVE  /\ Message(t) \in Messages
         /\ Message(t)[1] = t /\ Message(t)[2] = count[t]
         /\ count[t] \in Nat /\ <<t, count[t] + 1>> \in Messages
BY DEF TypeOK, Message, Messages

\* The threads that have opened the log are finitely many.
LEMMA OpenersFinite ==
  /\ IsFiniteSet(Openers) /\ Cardinality(Openers) \in Nat
  /\ Cardinality(Openers) <= Cardinality(Threads) /\ Cardinality(Threads) \in Nat
<1>1. Openers \in SUBSET Threads
  BY DEF Openers
<1> QED BY <1>1, ThreadsAssumption, FS_Subset, FS_CardinalityType

\* Both ways to initialise the log give the invariant.
LEMMA InitInv == ASSUME Init PROVE IInv
<1> USE DEF Init
<1>1. DefaultLevels \subseteq Levels /\ Levels \subseteq Bits
  BY IntBitsAssumption DEF DefaultLevels, Levels, Bits
<1>2. /\ file \in Seq(Messages \union {OldLine}) /\ Len(file) = 1
      /\ DOMAIN file = {1} /\ file[1] = OldLine
  BY DEF OldLines
<1>3. handles \in Seq(Nat) /\ fileHandle \in 0..Len(handles) /\ Len(handles) <= 1
  <2>1. CASE fileHandle = NoHandle /\ handles = <<>>
    BY <2>1 DEF NoHandle
  <2>2. CASE fileHandle = 1 /\ handles = <<Len(file)>>
    BY <2>2, <1>2
  <2> QED BY <2>1, <2>2
<1>4. TypeOK
  <2>1. registered \in 4..IntBits /\ failures \in Nat
    <3>1. registered = 4 /\ failures = 0
      OBVIOUS
    <3> QED BY <3>1, IntBitsAssumption
  <2>3. errored \in BOOLEAN
    OBVIOUS
  <2>2. /\ pc \in [Threads -> {"idle", "open", "openFailed", "check", "write"}]
        /\ count \in [Threads -> Nat]
        /\ accepted \subseteq Messages /\ written \subseteq accepted
    OBVIOUS
  <2> QED BY <1>1, <1>2, <1>3, <2>1, <2>2, <2>3 DEF TypeOK
<1>5. Openers = {} /\ Cardinality(Openers) = 0 /\ Cardinality(Threads) >= 1
  <2>1. Openers = {}
    BY DEF Openers
  <2> QED BY <2>1, ThreadsAssumption, FS_EmptySet, OpenersFinite
<1>6. OpensBounded
  BY <1>3, <1>5, OpenersFinite DEF OpensBounded, NoHandle
<1>7. BitsFollow
  BY DEF BitsFollow
<1>8. Accepted /\ NoneDropped
  BY DEF Accepted, NoneDropped
<1>9. FileLines
  BY <1>2 DEF FileLines
<1> QED BY <1>4, <1>6, <1>7, <1>8, <1>9 DEF IInv

\* A message of a thread begins.
LEMMA MessageStep ==
  ASSUME IInv, NEW t \in Threads, NEW levels, vlogMessage(t, levels)
  PROVE  IInv'
<1> USE DEF IInv, vlogMessage, levelVars, fileVars
<1>1. /\ pc[t] = "idle" /\ count[t] \in Nat /\ count'[t] = count[t] + 1
      /\ <<t, count'[t]>> \in Messages /\ Message(t)' = <<t, count'[t]>>
  BY MessageType DEF TypeOK, Message
<1>2. <<t, count'[t]>> \notin accepted
  <2>1. \A m \in accepted : m[1] = t => m[2] # count'[t]
    <3>1. SUFFICES ASSUME NEW m \in accepted, m[1] = t PROVE m[2] # count'[t]
      OBVIOUS
    <3>2. m \in Messages /\ m[2] <= count[t]
      BY <3>1 DEF Accepted, TypeOK
    <3> QED BY <1>1, <3>2 DEF Messages
  <2> QED BY <2>1
<1>3. TypeOK'
  <2>1. count' \in [Threads -> Nat]
    BY DEF TypeOK
  <2>2. AfterLevels \in {"open", "check"}
    BY DEF AfterLevels
  <2>3. accepted' \subseteq Messages /\ accepted \subseteq accepted'
    BY <1>1 DEF TypeOK
  <2> QED BY <2>1, <2>2, <2>3 DEF TypeOK
<1>4. /\ \A u \in Threads \ {t} : pc'[u] = pc[u] /\ count'[u] = count[u]
      /\ pc'[t] # "idle" => accepted' = accepted \union {<<t, count'[t]>>}
      /\ pc'[t] = "idle" => accepted' = accepted
      /\ pc'[t] \in {"idle", AfterLevels}
  BY <1>1 DEF TypeOK, AfterLevels
<1>5. Accepted'
  <2>1. \A m \in accepted' : m[2] <= count'[m[1]]
    <3>1. SUFFICES ASSUME NEW m \in accepted' PROVE m[2] <= count'[m[1]]
      OBVIOUS
    <3>2. CASE m = <<t, count'[t]>>
      BY <1>1, <3>2
    <3>3. CASE m \in accepted
      <4>1. m[1] \in Threads /\ m[2] \in Nat /\ m[2] <= count[m[1]]
        BY <3>3 DEF TypeOK, Messages, Accepted
      <4> QED BY <4>1, <1>1, <1>4 DEF TypeOK
    <3> QED BY <1>4, <3>2, <3>3
  <2>2. ASSUME NEW u \in Threads, pc'[u] # "idle"
        PROVE  Message(u)' \in accepted' \ written'
    <3>1. CASE u = t
      BY <3>1, <2>2, <1>1, <1>2, <1>4 DEF TypeOK
    <3>2. CASE u # t
      <4>1. Message(u)' = Message(u) /\ Message(u) \in accepted \ written
        BY <3>2, <2>2, <1>4 DEF Accepted, Message
      <4> QED BY <4>1
    <3> QED BY <3>1, <3>2
  <2> QED BY <2>1, <2>2 DEF Accepted
<1>6. FileLines'
  BY DEF FileLines
<1>7. BitsFollow'
  BY DEF BitsFollow
<1>8. NoneDropped'
  <2>1. SUFFICES ASSUME failures = 0 PROVE NoneDropped'
    BY DEF NoneDropped
  <2>2. \A u \in Threads :
          pc'[u] # "openFailed" /\ (pc'[u] \in {"check", "write"} => fileHandle # NoHandle)
    BY <2>1, <1>4 DEF NoneDropped, AfterLevels
  <2>3. \A m \in accepted' :
          m \in written \/ (pc'[m[1]] # "idle" /\ m[2] = count'[m[1]])
    <3>1. SUFFICES ASSUME NEW m \in accepted', m \notin written
                   PROVE  pc'[m[1]] # "idle" /\ m[2] = count'[m[1]]
      OBVIOUS
    <3>2. CASE m \in accepted
      <4>1. m[1] \in Threads /\ pc[m[1]] # "idle" /\ m[2] = count[m[1]]
        BY <2>1, <3>1, <3>2 DEF NoneDropped, TypeOK, Messages
      <4> QED BY <4>1, <1>1, <1>4
    <3>3. CASE m \notin accepted
      BY <3>1, <3>3, <1>4
    <3> QED BY <3>2, <3>3
  <2> QED BY <2>1, <2>2, <2>3 DEF NoneDropped
<1>9. OpensBounded'
  <2>1. SUFFICES ASSUME failures = 0 PROVE OpensBounded'
    BY DEF OpensBounded
  <2>2. CASE fileHandle = NoHandle
    <3>1. Cardinality(Openers') \in Nat /\ Cardinality(Openers') <= Cardinality(Threads)
      <4>1. Openers' \in SUBSET Threads
        BY DEF Openers
      <4> QED BY <4>1, ThreadsAssumption, FS_Subset, FS_CardinalityType
    <3>2. Len(handles) = 0 /\ handles' = handles /\ fileHandle' = fileHandle
      BY <2>1, <2>2 DEF OpensBounded
    <3> QED BY <3>1, <3>2, OpenersFinite DEF OpensBounded
  <2>3. CASE fileHandle # NoHandle
    <3>1. Openers' = Openers
      BY <2>3, <1>1, <1>4 DEF Openers, AfterLevels
    <3> QED BY <2>1, <2>3, <3>1 DEF OpensBounded
  <2> QED BY <2>2, <2>3
<1> QED BY <1>3, <1>5, <1>6, <1>7, <1>8, <1>9

\* Accepted does not depend on a step that neither begins nor writes a message
\* nor takes a thread out of "idle".
LEMMA AcceptedKept ==
  ASSUME IInv, UNCHANGED <<count, accepted, written>>,
         \A u \in Threads : pc'[u] # "idle" => pc[u] # "idle"
  PROVE  Accepted'
<1>1. \A m \in accepted' : m[2] <= count'[m[1]]
  BY DEF IInv, Accepted
<1>2. ASSUME NEW u \in Threads, pc'[u] # "idle"
      PROVE  Message(u)' \in accepted' \ written'
  BY <1>2 DEF IInv, Accepted, Message
<1> QED BY <1>1, <1>2 DEF Accepted

\* A thread opens the log.
LEMMA OpenStep == ASSUME IInv, NEW t \in Threads, OpenSucceeds(t) PROVE IInv'
<1> USE DEF IInv, OpenSucceeds, levelVars
<1>1. /\ handles \in Seq(Nat) /\ handles' \in Seq(Nat)
      /\ Len(handles) \in Nat /\ Len(handles') = Len(handles) + 1
  BY DEF TypeOK
<1>2. fileHandle' \in 0..Len(handles') /\ fileHandle' # NoHandle
  BY <1>1 DEF NoHandle
<1>3. /\ pc[t] = "open" /\ pc'[t] = "check"
      /\ \A u \in Threads \ {t} : pc'[u] = pc[u]
      /\ pc' \in [Threads -> {"idle", "open", "openFailed", "check", "write"}]
  BY DEF TypeOK
<1>4. TypeOK'
  BY <1>1, <1>2, <1>3 DEF TypeOK
<1>5. Accepted' /\ FileLines' /\ BitsFollow'
  BY <1>3, AcceptedKept DEF FileLines, BitsFollow
<1>6. NoneDropped'
  <2>1. SUFFICES ASSUME failures = 0 PROVE NoneDropped'
    BY DEF NoneDropped
  <2>2. \A u \in Threads : pc'[u] # "openFailed"
    BY <2>1, <1>3 DEF NoneDropped
  <2>3. \A m \in accepted :
          m \in written \/ (pc'[m[1]] # "idle" /\ m[2] = count[m[1]])
    <3>1. \A m \in accepted : m[1] \in Threads
      BY DEF TypeOK, Messages
    <3> QED BY <2>1, <3>1, <1>3 DEF NoneDropped
  <2> QED BY <1>2, <2>1, <2>2, <2>3 DEF NoneDropped
<1>7. OpensBounded'
  <2>1. SUFFICES ASSUME failures = 0 PROVE OpensBounded'
    BY DEF OpensBounded
  <2>2. Openers' = Openers \ {t} /\ t \in Openers
    BY <1>3 DEF Openers
  <2>3. Cardinality(Openers') = Cardinality(Openers) - 1
    BY <2>2, OpenersFinite, FS_RemoveElement
  <2> QED BY <1>1, <1>2, <2>1, <2>3, OpenersFinite DEF OpensBounded
<1> QED BY <1>4, <1>5, <1>6, <1>7

\* An open fails, or the failure is noted: nothing is claimed of what the
\* program logs from then on.
LEMMA FailureStep ==
  ASSUME IInv, NEW t \in Threads, OpenFails(t) \/ SetErrored(t) PROVE IInv'
<1> USE DEF IInv, levelVars
<1>1. /\ pc[t] # "idle" /\ pc'[t] # "idle"
      /\ \A u \in Threads \ {t} : pc'[u] = pc[u]
      /\ pc' \in [Threads -> {"idle", "open", "openFailed", "check", "write"}]
      /\ failures' \in Nat /\ failures' # 0
      /\ fileHandle' \in {NoHandle, fileHandle} /\ errored' \in BOOLEAN
  <2>1. CASE OpenFails(t)
    BY <2>1 DEF OpenFails, TypeOK
  <2>2. CASE SetErrored(t)
    BY <2>2 DEF SetErrored, TypeOK, NoneDropped
  <2> QED BY <2>1, <2>2
<1>2. UNCHANGED <<levelVars, handles, file, count, accepted, written>>
  BY DEF OpenFails, SetErrored
<1>3. TypeOK'
  BY <1>1, <1>2 DEF TypeOK, NoHandle
<1>4. Accepted' /\ FileLines' /\ BitsFollow'
  BY <1>1, <1>2, AcceptedKept DEF FileLines, BitsFollow
<1>5. NoneDropped' /\ OpensBounded'
  BY <1>1 DEF NoneDropped, OpensBounded
<1> QED BY <1>3, <1>4, <1>5

\* A thread looks at errored.
LEMMA CheckStep == ASSUME IInv, NEW t \in Threads, CheckErrored(t) PROVE IInv'
<1> USE DEF IInv, CheckErrored, levelVars, fileVars
<1>1. /\ pc[t] = "check" /\ pc'[t] = IF errored THEN "idle" ELSE "write"
      /\ \A u \in Threads \ {t} : pc'[u] = pc[u]
      /\ pc' \in [Threads -> {"idle", "open", "openFailed", "check", "write"}]
  BY DEF TypeOK
<1>2. TypeOK'
  BY <1>1 DEF TypeOK
<1>3. Accepted' /\ FileLines' /\ BitsFollow'
  BY <1>1, AcceptedKept DEF FileLines, BitsFollow
<1>4. NoneDropped'
  <2>1. SUFFICES ASSUME failures = 0 PROVE NoneDropped'
    BY DEF NoneDropped
  <2>2. pc'[t] = "write" /\ ~ errored /\ fileHandle # NoHandle
    BY <2>1, <1>1 DEF NoneDropped
  <2>3. \A u \in Threads :
          pc'[u] # "openFailed" /\ (pc'[u] \in {"check", "write"} => fileHandle # NoHandle)
    BY <2>1, <2>2, <1>1 DEF NoneDropped
  <2>4. \A m \in accepted :
          m \in written \/ (pc'[m[1]] # "idle" /\ m[2] = count[m[1]])
    <3>1. \A m \in accepted : m[1] \in Threads
      BY DEF TypeOK, Messages
    <3> QED BY <2>1, <2>2, <3>1, <1>1 DEF NoneDropped
  <2> QED BY <2>1, <2>2, <2>3, <2>4 DEF NoneDropped
<1>5. OpensBounded'
  <2>1. Openers' = Openers
    BY <1>1 DEF Openers
  <2> QED BY <2>1 DEF OpensBounded
<1> QED BY <1>2, <1>3, <1>4, <1>5

\* The line goes to the end of the file, whatever the handle.
LEMMA LineAppended ==
  ASSUME TypeOK, NEW t \in Threads, WriteLine(t), fileHandle # NoHandle
  PROVE  /\ file' \in Seq(Messages \union {OldLine})
         /\ DOMAIN file' = DOMAIN file \union {Len(file) + 1}
         /\ Len(file) + 1 \notin DOMAIN file
         /\ file'[Len(file) + 1] = Message(t)
         /\ \A j \in DOMAIN file : file'[j] = file[j]
         /\ handles' \in Seq(Nat) /\ Len(handles') = Len(handles)
<1>1. /\ file \in Seq(Messages \union {OldLine}) /\ Len(file) \in Nat
      /\ DOMAIN file = 1..Len(file)
  BY DEF TypeOK
<1>2. WritePosition(fileHandle) = Len(file)
  BY DEF WritePosition, OpenFlags
<1>3. file' = [j \in 1..(Len(file) + 1) |-> IF j = Len(file) + 1 THEN Message(t) ELSE file[j]]
  BY <1>1, <1>2 DEF WriteLine
<1>4. handles' = [handles EXCEPT ![fileHandle] = Len(file) + 1]
  BY <1>2 DEF WriteLine
<1>5. handles' \in Seq(Nat) /\ Len(handles') = Len(handles)
  <2>1. fileHandle \in 1..Len(handles) /\ handles \in Seq(Nat)
    BY DEF TypeOK, NoHandle
  <2> QED BY <1>1, <1>4, <2>1
<1>6. Message(t) \in Messages \union {OldLine}
  BY MessageType
<1>7. file' \in Seq(Messages \union {OldLine})
  BY <1>1, <1>3, <1>6
<1> QED BY <1>1, <1>3, <1>5, <1>7

\* A thread writes its line and is done with its message.
LEMMA WriteStep == ASSUME IInv, NEW t \in Threads, WriteLine(t) PROVE IInv'
<1> USE DEF IInv
<1>1. /\ pc[t] = "write" /\ pc'[t] = "idle"
      /\ \A u \in Threads \ {t} : pc'[u] = pc[u]
      /\ pc' \in [Threads -> {"idle", "open", "openFailed", "check", "write"}]
      /\ UNCHANGED <<levelVars, fileHandle, errored, failures, count, accepted>>
  BY DEF TypeOK, WriteLine
<1>2. /\ Message(t) \in accepted /\ Message(t) \notin written
      /\ Message(t) \in Messages /\ Message(t) # OldLine
      /\ Message(t)[1] = t /\ Message(t)[2] = count[t]
  BY <1>1, MessageType, OldIsNoMessage DEF Accepted
<1>3. Len(handles') = Len(handles)
  <2>1. CASE fileHandle = NoHandle
    BY <2>1 DEF WriteLine
  <2> QED BY <2>1, LineAppended
<1>4. TypeOK'
  <2>1. CASE fileHandle = NoHandle
    BY <1>1, <2>1 DEF TypeOK, levelVars, WriteLine
  <2>2. CASE fileHandle # NoHandle
    <3>1. written' = written \union {Message(t)}
      BY <2>2 DEF WriteLine
    <3> QED BY <1>1, <1>2, <2>2, <3>1, LineAppended DEF TypeOK, levelVars
  <2> QED BY <2>1, <2>2
<1>5. \A u \in Threads \ {t} : Message(u)' = Message(u) /\ Message(u) # Message(t)
  BY <1>1 DEF Message
<1>6. Accepted'
  <2>1. \A m \in accepted' : m[2] <= count'[m[1]]
    BY <1>1 DEF Accepted
  <2>2. ASSUME NEW u \in Threads, pc'[u] # "idle"
        PROVE  Message(u)' \in accepted' \ written'
    <3>1. u # t /\ Message(u)' = Message(u) /\ Message(u) \in accepted \ written
      BY <1>1, <1>5, <2>2 DEF Accepted
    <3>2. written' \subseteq written \union {Message(t)}
      BY DEF WriteLine
    <3> QED BY <1>1, <1>5, <3>1, <3>2
  <2> QED BY <2>1, <2>2 DEF Accepted
<1>7. FileLines'
  <2>1. CASE fileHandle = NoHandle
    BY <2>1 DEF WriteLine, FileLines
  <2>2. CASE fileHandle # NoHandle
    <3> DEFINE last == Len(file) + 1
    <3>1. /\ written' = written \union {Message(t)}
          /\ DOMAIN file' = DOMAIN file \union {last} /\ last \notin DOMAIN file
          /\ file'[last] = Message(t)
          /\ \A j \in DOMAIN file : file'[j] = file[j]
      BY <2>2, LineAppended DEF WriteLine
    <3> HIDE DEF last
    <3>2. \A j \in DOMAIN file' : file'[j] \in written' \union {OldLine}
      BY <3>1 DEF FileLines
    <3>3. \A m \in written' \union {OldLine} : \E j \in DOMAIN file' : file'[j] = m
      <4>1. SUFFICES ASSUME NEW m \in written' \union {OldLine}
                     PROVE  \E j \in DOMAIN file' : file'[j] = m
        OBVIOUS
      <4>2. CASE m = Message(t)
        BY <3>1, <4>2
      <4>3. CASE m # Message(t)
        BY <3>1, <4>1, <4>3 DEF FileLines
      <4> QED BY <4>2, <4>3
    <3>4. \A j \in DOMAIN file : file[j] # Message(t)
      BY <1>2 DEF FileLines
    <3>5. \A j, k \in DOMAIN file' : file'[j] = file'[k] => j = k
      BY <3>1, <3>4 DEF FileLines
    <3> QED BY <3>2, <3>3, <3>5 DEF FileLines
  <2> QED BY <2>1, <2>2
<1>8. BitsFollow'
  BY <1>1 DEF BitsFollow, levelVars
<1>9. NoneDropped'
  <2>1. SUFFICES ASSUME failures = 0 PROVE NoneDropped'
    BY <1>1 DEF NoneDropped
  <2>2. /\ fileHandle # NoHandle /\ ~ errored
        /\ written' = written \union {Message(t)}
    BY <1>1, <2>1 DEF NoneDropped, WriteLine
  <2>3. \A u \in Threads :
          pc'[u] # "openFailed" /\ (pc'[u] \in {"check", "write"} => fileHandle # NoHandle)
    BY <2>1, <2>2, <1>1 DEF NoneDropped
  <2>4. ASSUME NEW m \in accepted, m \notin written'
        PROVE  pc'[m[1]] # "idle" /\ m[2] = count[m[1]]
    <3>1. /\ m \in Messages /\ m \notin written /\ m # Message(t)
          /\ m[1] \in Threads /\ m = <<m[1], m[2]>>
      BY <2>2, <2>4 DEF TypeOK, Messages
    <3>2. pc[m[1]] # "idle" /\ m[2] = count[m[1]]
      BY <2>1, <3>1 DEF NoneDropped
    <3>3. m[1] # t
      BY <3>1, <3>2 DEF Message
    <3> QED BY <1>1, <3>1, <3>2, <3>3
  <2> QED BY <1>1, <2>1, <2>2, <2>3, <2>4 DEF NoneDropped
<1>10. OpensBounded'
  <2>1. Openers' = Openers
    BY <1>1 DEF Openers
  <2> QED BY <1>1, <1>3, <2>1 DEF OpensBounded
<1> QED BY <1>4, <1>6, <1>7, <1>8, <1>9, <1>10

\* Every step keeps the invariant.
LEMMA NextInv == ASSUME IInv, [Next]_vars PROVE IInv'
<1>1. CASE SetLevels
  <2>1. UNCHANGED <<fileVars, pc, count, accepted, written>>
    BY <1>1 DEF SetLevels, enableLogLevels, disableLogLevels, registerLogLevel
  <2>2. TypeOK' /\ BitsFollow'
    BY <1>1, <2>1, SetLevelsStep DEF IInv, TypeOK, fileVars
  <2>3. /\ Openers' = Openers
        /\ \A t \in Threads : Message(t)' = Message(t)
    BY <2>1 DEF Openers, Message
  <2>4. Accepted' /\ FileLines' /\ NoneDropped' /\ OpensBounded'
    BY <2>1, <2>3
       DEF IInv, fileVars, Accepted, FileLines, NoneDropped, OpensBounded
  <2> QED BY <2>2, <2>4 DEF IInv
<1>2. ASSUME NEW t \in Threads, Thread(t) PROVE IInv'
  BY <1>2, MessageStep, OpenStep, FailureStep, CheckStep, WriteStep DEF Thread
<1>3. CASE UNCHANGED vars
  <2>1. Openers' = Openers /\ \A t \in Threads : Message(t)' = Message(t)
    BY <1>3 DEF vars, Openers, Message
  <2> QED BY <1>3, <2>1
          DEF vars, levelVars, fileVars, IInv, TypeOK, BitsFollow, Accepted,
              FileLines, NoneDropped, OpensBounded
<1> QED BY <1>1, <1>2, <1>3 DEF Next

\* The invariant holds in every state the log can reach.
THEOREM Invariance == Spec => []IInv
<1>1. Init => IInv
  BY InitInv
<1>2. IInv /\ [Next]_vars => IInv'
  BY NextInv
<1> QED BY <1>1, <1>2, PTL DEF Spec

-----------------------------------------------------------------------------
\* The variables have the types of TypeOK; in particular fileHandle is -1 or
\* a descriptor that was opened, and what was written was accepted.
THEOREM TypeCorrect == Spec => []TypeOK
BY Invariance, PTL DEF IInv

\* A level is on if and only if it was enabled last, whatever other levels
\* were turned on and off, for every width of a word; the last one is at least
\* on when it should be.
THEOREM LevelsStayIndependent == Spec => []LevelsIndependent
<1>1. ASSUME TypeOK, BitsFollow PROVE LevelsIndependent
  <2>1. SUFFICES ASSUME NEW k \in 0..(registered - 1)
                 PROVE  /\ k \in wanted => levelEnabled(LevelWord(k))
                        /\ k \notin wanted /\ k # LastLevel => ~ levelEnabled(LevelWord(k))
    BY DEF LevelsIndependent
  <2>2. k \in Levels /\ (k \in logLevel <=> k \in wanted)
    BY <1>1, <2>1, IntBitsAssumption DEF TypeOK, Levels, BitsFollow
  <2>3. k \in LevelWord(k) /\ (k # LastLevel => LevelWord(k) = {k})
    BY <2>2, IntBitsAssumption DEF LevelWord, LastLevel, Levels
  <2> QED BY <2>2, <2>3 DEF levelEnabled
<1>2. IInv => LevelsIndependent
  BY <1>1 DEF IInv
<1> QED BY <1>2, Invariance, PTL

\* No line written is overwritten or written twice, however many threads open
\* the log and write at the same time, and unless an open fails every message
\* of a level that is on is written before its thread logs the next.
THEOREM EveryLineKept == Spec => []LinesKept
<1>1. ASSUME Accepted, FileLines, NoneDropped PROVE LinesKept
  BY <1>1 DEF FileLines, NoneDropped, LinesKept
<1>2. IInv => LinesKept
  BY <1>1 DEF IInv
<1> QED BY <1>2, Invariance, PTL

\* Unless an open fails the descriptors lost to threads that open the log at
\* the same time are fewer than the threads.
THEOREM HandlesBounded == Spec => []FewHandles
<1>1. ASSUME TypeOK, OpensBounded PROVE FewHandles
  <2>1. Len(handles) \in Nat
    BY <1>1 DEF TypeOK
  <2> QED BY <1>1, <2>1, OpenersFinite DEF OpensBounded, FewHandles
<1>2. IInv => FewHandles
  BY <1>1 DEF IInv
<1> QED BY <1>2, Invariance, PTL

=============================================================================
