-------------------------------- MODULE Log --------------------------------
(***************************************************************************)
(* The message log every program of the repository writes to: which levels *)
(* are on, and how the threads of a program share one log file that the    *)
(* first message opens.  (lib/cmpsc311_log.c)                              *)
(*                                                                         *)
(* A word is the set of its bits that are 1.  A line of the log is the     *)
(* message it holds, <<t, k>> being the k-th of thread t; file positions   *)
(* count lines.                                                            *)
(***************************************************************************)
EXTENDS Integers, Sequences, FiniteSets

CONSTANTS
  Threads,      \* the threads of the program
  MaxMessages,  \* bound: messages each of them logs
  MaxFailures,  \* bound: failed calls of open
  IntBits       \* width of int and MAX_LOG_LEVEL (32); a long has twice as many

ASSUME ThreadsAssumption == IsFiniteSet(Threads) /\ Threads # {}

ASSUME CountsAssumption == MaxMessages \in Nat /\ MaxFailures \in Nat

ASSUME IntBitsAssumption == IntBits \in Nat /\ IntBits > 4

VARIABLES
  logLevel,     \* the levels that are on, a word
  registered,   \* descriptors[0..registered - 1] are set
  fileHandle,   \* index in handles, or NoHandle (-1)
  errored,      \* errored
  pc,           \* per thread: where in vlogMessage it is
  count,        \* per thread: messages begun
  handles,      \* kernel: per open descriptor of the log its file position
  file,         \* kernel: the lines of the file
  failures,     \* kernel: opens that failed
  wanted,       \* history: the levels last enabled and not disabled since
  accepted,     \* history: messages of a level that was on
  written       \* history: messages whose write returned their length

levelVars == <<logLevel, registered, wanted>>
fileVars == <<fileHandle, errored, handles, file, failures>>
vars == <<levelVars, fileVars, pc, count, accepted, written>>

NoHandle == 0

\* The lines of an earlier run: the file is opened for appending.
OldLine == <<"old">>
OldLines == <<OldLine>>

-----------------------------------------------------------------------------
(***************************************************************************)
(* Levels                                                                  *)
(***************************************************************************)

Bits == 0..(2 * IntBits - 1)
Levels == 0..(IntBits - 1)
LastLevel == IntBits - 1

\* 0xffffffff
AllLevels == Levels

\* The value of level i: 1 << i is an int, so that the last level is negative
\* and gets all upper bits on its way to unsigned long.
LevelWord(i) == IF i = LastLevel THEN LastLevel..(2 * IntBits - 1) ELSE {i}

\* Several levels of a caller, or'ed.
WordOf(levels) == UNION {LevelWord(i) : i \in levels}

Xor(v, w) == (v \ w) \union (w \ v)

Enabled(word, lvl) == word \union lvl

\* Mutant of Disabled: toggles.
Toggled(word, lvl) == Xor(word, lvl)

Disabled(word, lvl) == word \intersect Xor(lvl, AllLevels)

levelEnabled(lvl) == logLevel \intersect lvl # {}

\* Programs change levels before they start a thread.
NobodyLogs == \A t \in Threads : pc[t] = "idle"

enableLogLevels(levels) ==
  /\ NobodyLogs
  /\ logLevel' = Enabled(logLevel, WordOf(levels))
  /\ wanted' = wanted \union levels
  /\ UNCHANGED <<registered, fileVars, pc, count, accepted, written>>

disableLogLevels(levels) ==
  /\ NobodyLogs
  /\ logLevel' = Disabled(logLevel, WordOf(levels))
  /\ wanted' = wanted \ levels
  /\ UNCHANGED <<registered, fileVars, pc, count, accepted, written>>

\* The first free descriptor is the one after the last: none is ever freed.
registerLogLevel(enable) ==
  /\ NobodyLogs
  /\ registered < IntBits
  /\ registered' = registered + 1
  /\ logLevel' = IF enable THEN Enabled(logLevel, LevelWord(registered)) ELSE logLevel
  /\ wanted' = IF enable THEN wanted \union {registered} ELSE wanted
  /\ UNCHANGED <<fileVars, pc, count, accepted, written>>

SetLevels ==
  \/ \E levels \in (SUBSET (0..(registered - 1))) \ {{}} :
       enableLogLevels(levels) \/ disableLogLevels(levels)
  \/ \E enable \in BOOLEAN : registerLogLevel(enable)

-----------------------------------------------------------------------------
(***************************************************************************)
(* Messages                                                                *)
(***************************************************************************)

\* ERROR, WARNING, INFO and OUTPUT, of which INFO is off.
DefaultLevels == {0, 1, 3}

\* initializeLogWithFilename leaves the file to the first message,
\* initializeLogWithFilehandle gets it open.
Init ==
  /\ logLevel = DefaultLevels /\ wanted = DefaultLevels /\ registered = 4
  /\ errored = FALSE /\ failures = 0
  /\ file = OldLines
  /\ \/ fileHandle = NoHandle /\ handles = <<>>
     \/ fileHandle = 1 /\ handles = <<Len(file)>>
  /\ pc = [t \in Threads |-> "idle"] /\ count = [t \in Threads |-> 0]
  /\ accepted = {} /\ written = {}

Message(t) == <<t, count[t]>>

\* Mutant of AfterLevels: opens the log for every message.
AlwaysOpen == "open"

\* The second test of vlogMessage: is the log open?
AfterLevels == IF fileHandle = NoHandle THEN "open" ELSE "check"

\* The tests at the head of vlogMessage.
vlogMessage(t, levels) ==
  /\ pc[t] = "idle" /\ count[t] < MaxMessages
  /\ count' = [count EXCEPT ![t] = @ + 1]
  /\ IF levelEnabled(WordOf(levels))
       THEN /\ accepted' = accepted \union {<<t, count'[t]>>}
            /\ pc' = [pc EXCEPT ![t] = AfterLevels]
       ELSE UNCHANGED <<accepted, pc>>
  /\ UNCHANGED <<levelVars, fileVars, written>>

\* Mutant of OpenFlags: no O_APPEND.
NoAppend == {"O_CREAT", "O_WRONLY"}

\* The flags of the open.
OpenFlags == {"O_APPEND", "O_CREAT", "O_WRONLY"}

\* openLog: the open succeeds.  A descriptor another thread opened in the
\* meantime is forgotten.
OpenSucceeds(t) ==
  /\ pc[t] = "open"
  /\ handles' = Append(handles, 0)
  /\ fileHandle' = Len(handles')
  /\ pc' = [pc EXCEPT ![t] = "check"]
  /\ UNCHANGED <<levelVars, errored, file, failures, count, accepted, written>>

\* openLog: the open fails, and its -1 is the handle before errored is set.
OpenFails(t) ==
  /\ pc[t] = "open" /\ failures < MaxFailures
  /\ failures' = failures + 1
  /\ fileHandle' = NoHandle
  /\ pc' = [pc EXCEPT ![t] = "openFailed"]
  /\ UNCHANGED <<levelVars, errored, handles, file, count, accepted, written>>

SetErrored(t) ==
  /\ pc[t] = "openFailed"
  /\ errored' = TRUE
  /\ pc' = [pc EXCEPT ![t] = "check"]
  /\ UNCHANGED <<levelVars, fileHandle, handles, file, failures, count, accepted, written>>

CheckErrored(t) ==
  /\ pc[t] = "check"
  /\ pc' = [pc EXCEPT ![t] = IF errored THEN "idle" ELSE "write"]
  /\ UNCHANGED <<levelVars, fileVars, count, accepted, written>>

\* Where the kernel puts the next line written through handle h.
WritePosition(h) == IF "O_APPEND" \in OpenFlags THEN Len(file) ELSE handles[h]

\* The write to whatever fileHandle is by now; writing to -1 fails.
WriteLine(t) ==
  /\ pc[t] = "write"
  /\ pc' = [pc EXCEPT ![t] = "idle"]
  /\ IF fileHandle = NoHandle
       THEN UNCHANGED <<handles, file, written>>
       ELSE LET p == WritePosition(fileHandle)
            IN  /\ file' = [i \in 1..(IF p < Len(file) THEN Len(file) ELSE p + 1) |->
                              IF i = p + 1 THEN Message(t) ELSE file[i]]
                /\ handles' = [handles EXCEPT ![fileHandle] = p + 1]
                /\ written' = written \union {Message(t)}
  /\ UNCHANGED <<levelVars, fileHandle, errored, failures, count, accepted>>

-----------------------------------------------------------------------------
Thread(t) ==
  \/ \E levels \in (SUBSET (0..(registered - 1))) \ {{}} : vlogMessage(t, levels)
  \/ OpenSucceeds(t) \/ OpenFails(t) \/ SetErrored(t)
  \/ CheckErrored(t) \/ WriteLine(t)

Next == SetLevels \/ \E t \in Threads : Thread(t)

Spec == Init /\ [][Next]_vars

-----------------------------------------------------------------------------
(***************************************************************************)
(* Properties                                                              *)
(***************************************************************************)

Messages == Threads \X Nat

TypeOK ==
  /\ logLevel \subseteq Bits /\ registered \in 4..IntBits /\ wanted \subseteq Levels
  /\ fileHandle \in 0..Len(handles) /\ errored \in BOOLEAN /\ failures \in Nat
  /\ pc \in [Threads -> {"idle", "open", "openFailed", "check", "write"}]
  /\ count \in [Threads -> Nat]
  /\ handles \in Seq(Nat) /\ file \in Seq(Messages \union {OldLine})
  /\ accepted \subseteq Messages /\ written \subseteq accepted

\* Turning levels on and off touches no other level: a level is on if and
\* only if it was enabled last.  The last level is on at least when it should
\* be; its upper bits no call of disableLogLevels on it takes away.
LevelsIndependent ==
  \A i \in 0..(registered - 1) :
    /\ i \in wanted => levelEnabled(LevelWord(i))
    /\ i \notin wanted /\ i # LastLevel => ~ levelEnabled(LevelWord(i))

\* Threads that open the log at the same time lose no line: what a write
\* returned for stays in the file, once and behind what was there before, and
\* only a failed open can keep a message of a level that is on out of it.
LinesKept ==
  /\ \A m \in written : \E i \in DOMAIN file : file[i] = m
  /\ \A i, j \in DOMAIN file : file[i] = file[j] => i = j
  /\ OldLine \in {file[i] : i \in DOMAIN file}
  /\ failures = 0 =>
       \A m \in accepted : m \in written \/ (pc[m[1]] # "idle" /\ m[2] = count[m[1]])

\* While opens succeed, a program never holds more descriptors of its log than
\* it has threads, however many messages it logs.
FewHandles ==
  failures = 0 => Len(handles) <= Cardinality(Threads)
=============================================================================
