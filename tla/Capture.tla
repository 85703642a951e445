------------------------------ MODULE Capture ------------------------------
(***************************************************************************)
(* The log of environment records that environment_capture keeps at the    *)
(* end of a library archive and display_environment_log reads back.        *)
(* (lib/cmpsc311_capture.c)                                                *)
(*                                                                         *)
(* A record is written by a dozen write() calls, the last of which stores  *)
(* the offset the record begins at; nothing locks the file, and a process  *)
(* may die between two writes.  The display walks back from the end of the *)
(* file along those offsets until it reads a zero, and lists the records   *)
(* forward from there.                                                     *)
(*                                                                         *)
(* The file may grow past what an offset of 32 bits can say: it is stored   *)
(* cut to them, and so is the length of the file where the walk begins.    *)
(*                                                                         *)
(* A cell is what one write() stores; offsets count cells.  <<r, i>> is    *)
(* the i-th cell of record r, records being numbered as they are begun,    *)
(* and Archive a cell of the archive, whose last word is zero (it ends     *)
(* with the header of a section).                                          *)
(***************************************************************************)
EXTENDS Integers, Sequences, FiniteSets

CONSTANTS
  MaxRecords,   \* bound: captures made, each by a process of its own
  Sizes,        \* writes a capture may take: names may be empty
  MinRecord,    \* the minimum record length the display knows (27 bytes)
  Base,         \* length of the archive
  Word          \* offsets are of type uint32_t: modulo Word (2^32)

ASSUME SizesAssumption ==
  /\ MinRecord \in Nat \ {0}
  /\ Sizes \subseteq {n \in Nat : n >= MinRecord}

ASSUME RecordsAssumption == MaxRecords \in Nat

ASSUME BaseAssumption ==
  Base \in Nat \ {0} /\ Word \in Nat /\ Base < Word

VARIABLES
  file,         \* the cells of the file
  wpc,          \* per record: "none", "writing", "done" or "dead"
  size,         \* per record: the number of its writes
  begin,        \* per record: where it begins, for which it stores ofs
  pos,          \* per record: the file position of its writer
  rpc,          \* the display: "idle", "walk", "read", "done" or "failed"
  ofs,          \* the display: its file position when it reads, else 0
  next,         \* the display: next
  astray,       \* the display: it follows a word that was no offset
  cur,          \* the display: the last cell read of the current record
  shown,        \* the display: the records it has listed
  alone,        \* history: no other capture ran while this one did
  tail          \* history: the file at the time of a clean open of a file
                \* shorter than Word, else <<>>

fileVars == <<file, wpc, size, begin, pos>>
displayVars == <<rpc, ofs, next, astray, cur, shown>>
vars == <<fileVars, displayVars, alone, tail>>

Records == 1..MaxRecords

Cell(r, i) == <<r, i>>
Cells == (0..MaxRecords) \X Nat
Archive == Cell(0, 0)

\* What the display shows for cells that are no record.
Garbled == 0

\* cur between two records.
Boundary == Cell(0, 0)

Writing == {r \in Records : wpc[r] = "writing"}

-----------------------------------------------------------------------------
(***************************************************************************)
(* environment_capture                                                     *)
(***************************************************************************)

Init ==
  /\ file = [i \in 1..Base |-> Archive]
  /\ wpc = [r \in Records |-> "none"]
  /\ size = [r \in Records |-> 0]
  /\ begin = [r \in Records |-> 0]
  /\ pos = [r \in Records |-> 0]
  /\ rpc = "idle" /\ ofs = 0 /\ next = 0 /\ astray = FALSE
  /\ cur = Boundary /\ shown = <<>>
  /\ alone = [r \in Records |-> TRUE]
  /\ tail = <<>>

\* Mutant of EndOfFile: to the end of the archive, whatever was added to it.
EndOfArchive == Base

\* The position lseek(fd, 0, SEEK_END) returns.
EndOfFile == Len(file)

\* What is left of a file position in ofs and next.
Offset(position) == position % Word

\* open and lseek.  The archive opens without O_APPEND.
StartCapture(r) ==
  /\ wpc[r] = "none"
  /\ \A q \in 1..(r - 1) : wpc[q] # "none"
  /\ \E n \in Sizes : size' = [size EXCEPT ![r] = n]
  /\ wpc' = [wpc EXCEPT ![r] = "writing"]
  /\ begin' = [begin EXCEPT ![r] = EndOfFile]
  /\ pos' = [pos EXCEPT ![r] = EndOfFile]
  /\ alone' = [q \in Records |-> IF q = r THEN Writing = {}
                                 ELSE alone[q] /\ q \notin Writing]
  /\ UNCHANGED <<file, displayVars, tail>>

\* A write at file position p replaces the cell there or adds one.
Written(p, cell) ==
  [i \in 1..(IF p < Len(file) THEN Len(file) ELSE p + 1) |->
     IF i = p + 1 THEN cell ELSE file[i]]

\* One of the writes of record r; the file is closed after the last.
WriteCell(r) ==
  /\ wpc[r] = "writing"
  /\ file' = Written(pos[r], Cell(r, pos[r] - begin[r] + 1))
  /\ pos' = [pos EXCEPT ![r] = @ + 1]
  /\ wpc' = [wpc EXCEPT ![r] = IF pos'[r] = begin[r] + size[r]
                                 THEN "done" ELSE "writing"]
  /\ UNCHANGED <<size, begin, displayVars, alone, tail>>

\* The capturing process dies between two writes.
Die(r) ==
  /\ wpc[r] = "writing"
  /\ wpc' = [wpc EXCEPT ![r] = "dead"]
  /\ UNCHANGED <<file, size, begin, pos, displayVars, alone, tail>>

-----------------------------------------------------------------------------
(***************************************************************************)
(* display_environment_log                                                 *)
(***************************************************************************)

\* All of record r is in the file where it was put.
Intact(r) ==
  \A i \in 1..size[r] :
    begin[r] + i \in DOMAIN file /\ file[begin[r] + i] = Cell(r, i)

\* Nothing but the archive and complete records, one behind the other, and
\* every capture in progress still before its first write, at the end.
Whole ==
  /\ \A i \in DOMAIN file :
       \/ i <= Base /\ file[i] = Archive
       \/ \E r \in Records :
            /\ wpc[r] = "done" /\ Intact(r)
            /\ begin[r] < i /\ i <= begin[r] + size[r]
  /\ \A r \in Writing : pos[r] = EndOfFile

\* open and lseek to the end.
OpenLog ==
  /\ rpc \in {"idle", "done", "failed"}
  /\ rpc' = "walk" /\ next' = Offset(EndOfFile) /\ ofs' = 0
  /\ astray' = FALSE
  /\ cur' = Boundary /\ shown' = <<>>
  /\ tail' = IF Whole /\ EndOfFile < Word THEN file ELSE <<>>
  /\ UNCHANGED <<fileVars, alone>>

\* The cell before offset o.  The subtraction, too, is one of 32 bits.
Before(o) == IF o = 0 THEN Word ELSE o

\* The records whose last word, ofs, lies before offset o.
EndingAt(o) == {r \in Records : file[Before(o)] = Cell(r, size[r])}

\* What pread finds in the word before offset o: the zero that ends the
\* archive, the offset of where a record begins, or else bytes nobody wrote as
\* an offset, as wherever such bytes have led.
WordBefore(o) ==
  IF astray THEN 0..(Word - 1)
  ELSE IF o = Base THEN {0}
  ELSE IF EndingAt(o) # {} THEN {Offset(begin[r]) : r \in EndingAt(o)}
  ELSE 0..(Word - 1)

\* Mutant of BadOffset: the minimum record length is refused, too.
BadShortest(n, o) == n # 0 /\ (n > o \/ (n + MinRecord) % Word >= o)

\* Mutant of BadOffset: takes the second test to imply the first.
BadLength(n, o) == n # 0 /\ (n + MinRecord) % Word > o

\* The sanity check; the sum is one of 32 bits.
BadOffset(n, o) == n # 0 /\ (n > o \/ (n + MinRecord) % Word > o)

\* One turn of the do loop.  The read begins where the zero was found.
WalkBack ==
  /\ rpc = "walk"
  /\ \E n \in WordBefore(next) :
       IF BadOffset(n, next)
         THEN rpc' = "failed" /\ next' = 0 /\ ofs' = 0
         ELSE /\ rpc' = IF n = 0 THEN "read" ELSE "walk"
              /\ next' = n
              /\ ofs' = IF n = 0 THEN next ELSE 0
  /\ astray' = /\ rpc' = "walk"
               /\ astray \/ (next # Base /\ EndingAt(next) = {})
  /\ UNCHANGED <<fileVars, cur, shown, alone, tail>>

\* The first cell of some record, or the one after the last read.
Expected(cell) ==
  IF cur = Boundary
    THEN \E r \in Records : cell = Cell(r, 1)
    ELSE cell = Cell(cur[1], cur[2] + 1)

\* One read of the while loop.  At the end of the file the display is done
\* between two records and fails within one.  Once it has met a cell out of
\* place it lists lengths, names and numbers that are no record's.
ReadCell ==
  /\ rpc = "read"
  /\ IF ofs >= EndOfFile
       THEN /\ rpc' = IF cur = Boundary THEN "done" ELSE "failed"
            /\ ofs' = 0 /\ cur' = Boundary /\ UNCHANGED shown
     ELSE IF ~ Expected(file[ofs + 1])
       THEN /\ rpc' \in {"done", "failed"}
            /\ shown' = Append(shown, Garbled)
            /\ ofs' = 0 /\ cur' = Boundary
     ELSE LET r == file[ofs + 1][1]
              last == file[ofs + 1][2] = size[r]
          IN  /\ ofs' = ofs + 1
              /\ cur' = IF last THEN Boundary ELSE file[ofs + 1]
              /\ shown' = IF last THEN Append(shown, r) ELSE shown
              /\ rpc' = "read"
  /\ UNCHANGED <<fileVars, next, astray, alone, tail>>

-----------------------------------------------------------------------------
Display == OpenLog \/ WalkBack \/ ReadCell

Next ==
  \/ \E r \in Records : StartCapture(r) \/ WriteCell(r) \/ Die(r)
  \/ Display

Spec == Init /\ [][Next]_vars

\* The displaying process runs; nothing obliges anybody to capture.
FairSpec == Spec /\ WF_vars(WalkBack \/ ReadCell)

-----------------------------------------------------------------------------
(***************************************************************************)
(* Properties                                                              *)
(***************************************************************************)

TypeOK ==
  /\ file \in Seq(Cells)
  /\ wpc \in [Records -> {"none", "writing", "done", "dead"}]
  /\ size \in [Records -> {0} \union Sizes]
  /\ begin \in [Records -> Nat] /\ pos \in [Records -> Nat]
  /\ rpc \in {"idle", "walk", "read", "done", "failed"}
  /\ ofs \in Nat /\ next \in Nat /\ astray \in BOOLEAN
  /\ cur \in Cells
  /\ shown \in Seq(0..MaxRecords)
  /\ alone \in [Records -> BOOLEAN] /\ tail \in Seq(Cells)

\* A capture during which no other one ran stays in the file, complete and
\* with the offset it begins at, whoever captures or dies after it.
RecordsKept ==
  \A r \in Records : wpc[r] = "done" /\ alone[r] => Intact(r)

InTail(r) == \E i \in DOMAIN tail : tail[i] = Cell(r, 1)

\* A display that opens a file of nothing but complete records, shorter than
\* 2^32, lists each of them, oldest first and before anything else, whatever is
\* captured, overwritten or cut short behind them while it walks and reads,
\* past 2^32 too.
RecordsListed ==
  rpc \in {"done", "failed"} /\ tail # <<>> =>
    /\ \A r \in Records : InTail(r) => \E j \in DOMAIN shown : shown[j] = r
    /\ \A j, k \in DOMAIN shown :
         j < k /\ InTail(shown[k]) =>
           InTail(shown[j]) /\ shown[j] < shown[k]

\* The sum of the check wraps for no offset up to this one.  From 2^32 - 27 on
\* it does, and the check accepts the offset it has just followed.
InReach(o) == o + MinRecord < Word

\* Every offset the walk goes on with lies before the last, if that was in
\* reach of the check.
WalkDescends ==
  [][rpc = "walk" /\ rpc' = "walk" /\ InReach(next) => next' < next]_displayVars

\* The walk back comes to its end whatever bytes it takes for offsets, of
\* whatever length the file is, once it is at an offset in reach of the check;
\* of a file whose length is not, cut to 32 bits, nothing is said.
WalkEnds == rpc = "walk" /\ InReach(next) ~> rpc # "walk"
=============================================================================
