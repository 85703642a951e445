--------------------------- MODULE CaptureProofs ---------------------------
(***************************************************************************)
(* Proofs about Capture, for every number and size of records, length of   *)
(* the archive and width of an offset.                                     *)
(***************************************************************************)
EXTENDS Capture, TLAPS

Started(r) == wpc[r] # "none"

\* A writer is within its record and no further than the end of the file.
Positions ==
  \A r \in Records :
    /\ begin[r] <= pos[r]
    /\ Started(r) => /\ size[r] \in Sizes /\ pos[r] <= begin[r] + size[r]
                     /\ pos[r] <= Len(file)
    /\ wpc[r] = "writing" => pos[r] < begin[r] + size[r]
    /\ wpc[r] = "done" => pos[r] = begin[r] + size[r]

\* What a capture that ran alone has written so far is in the file, and every
\* other writer is behind it.
Alone ==
  \A r \in Records : Started(r) /\ alone[r] =>
    /\ \A k \in 1..(pos[r] - begin[r]) : file[begin[r] + k] = Cell(r, k)
    /\ \A q \in Writing \ {r} : wpc[r] # "writing" /\ pos[r] <= pos[q]

IInv == TypeOK /\ Positions /\ Alone

\* A record has at least MinRecord cells.
LEMMA SizeType == \A k \in Sizes : k \in Nat /\ k >= MinRecord /\ k > 0
BY SizesAssumption

\* The numbers the proofs calculate with.
LEMMA Types ==
  ASSUME TypeOK
  PROVE  /\ file \in Seq(Cells) /\ Len(file) \in Nat
         /\ \A r \in Records : begin[r] \in Nat /\ pos[r] \in Nat /\ size[r] \in Nat
BY SizeType DEF TypeOK

\* What is left of a file position in 32 bits is a number of the walk, and is
\* the position itself if that is small enough.
LEMMA Offsets ==
  ASSUME NEW p \in Nat
  PROVE  Offset(p) \in Nat /\ (p < Word => Offset(p) = p)
<1>1. Word \in Nat \ {0}
  BY BaseAssumption, SizesAssumption
<1>2. p % Word \in 0..(Word - 1)
  BY <1>1
<1>3. p < Word => p % Word = p
  BY <1>1
<1> QED BY <1>1, <1>2, <1>3 DEF Offset

\* One more cell, or another one in the place of an old one: the rest of the
\* file stays, and it does not shrink.
LEMMA WrittenFile ==
  ASSUME TypeOK, NEW p \in Nat, p <= Len(file), NEW cell \in Cells
  PROVE  /\ Written(p, cell) \in Seq(Cells)
         /\ Len(Written(p, cell)) = IF p < Len(file) THEN Len(file) ELSE p + 1
         /\ Written(p, cell)[p + 1] = cell
         /\ \A k \in 1..Len(file) : k # p + 1 => Written(p, cell)[k] = file[k]
<1> DEFINE l == IF p < Len(file) THEN Len(file) ELSE p + 1
           w == [k \in 1..l |-> IF k = p + 1 THEN cell ELSE file[k]]
<1>1. file \in Seq(Cells) /\ Len(file) \in Nat /\ l \in Nat
  BY Types
<1>2. \A k \in 1..l : k # p + 1 => k \in 1..Len(file)
  BY <1>1
<1>3. \A k \in 1..l : w[k] \in Cells
  BY <1>1, <1>2
<1>4. w \in [1..l -> Cells]
  BY <1>3
<1>5. w \in Seq(Cells) /\ Len(w) = l
  <2> HIDE DEF w, l
  <2> QED BY <1>1, <1>4
<1>6. Written(p, cell) = w
  BY DEF Written
<1>7. p + 1 \in 1..l /\ 1..Len(file) \subseteq 1..l
  BY <1>1
<1>8. w[p + 1] = cell /\ \A k \in 1..Len(file) : k # p + 1 => w[k] = file[k]
  BY <1>7
<1> QED BY <1>5, <1>6, <1>8

\* The invariant holds before the first capture.
LEMMA InitInv == ASSUME Init PROVE IInv
<1> USE DEF Init
<1>1. Archive \in Cells /\ Boundary \in Cells
  BY RecordsAssumption DEF Archive, Boundary, Cell, Cells
<1>2. file \in Seq(Cells) /\ Len(file) = Base
  <2>1. file \in [1..Base -> Cells] /\ Base \in Nat
    BY <1>1, BaseAssumption
  <2> QED BY <2>1
<1>3. TypeOK
  <2>1. /\ shown \in Seq(0..MaxRecords) /\ tail \in Seq(Cells)
        /\ ofs \in Nat /\ next \in Nat
    OBVIOUS
  <2>2. /\ wpc \in [Records -> {"none", "writing", "done", "dead"}]
        /\ size \in [Records -> {0} \union Sizes]
        /\ begin \in [Records -> Nat] /\ pos \in [Records -> Nat]
        /\ alone \in [Records -> BOOLEAN]
    OBVIOUS
  <2>3. astray \in BOOLEAN
    OBVIOUS
  <2> QED BY <1>1, <1>2, <2>1, <2>2, <2>3 DEF TypeOK
<1>4. Positions
  BY <1>2, BaseAssumption, SizesAssumption DEF Positions, Started
<1>5. Alone
  BY DEF Alone, Started
<1> QED BY <1>3, <1>4, <1>5 DEF IInv

\* A capture begins at the end of the file, behind all that was ever written;
\* those it meets in progress are not alone any more.
LEMMA StartStep == ASSUME IInv, NEW r \in Records, StartCapture(r) PROVE IInv'
<1>1. PICK m \in Sizes : size' = [size EXCEPT ![r] = m]
  BY DEF StartCapture
<1>2. m \in Nat /\ m > 0 /\ Len(file) \in Nat /\ MinRecord \in Nat
  BY SizeType, SizesAssumption, Types DEF IInv
<1>3. /\ wpc[r] = "none" /\ wpc'[r] = "writing" /\ size'[r] = m
      /\ begin'[r] = Len(file) /\ pos'[r] = Len(file)
      /\ alone'[r] = (Writing = {})
      /\ \A q \in Records \ {r} :
           /\ wpc'[q] = wpc[q] /\ size'[q] = size[q] /\ begin'[q] = begin[q]
           /\ pos'[q] = pos[q] /\ alone'[q] = (alone[q] /\ q \notin Writing)
  BY <1>1 DEF IInv, TypeOK, EndOfFile, StartCapture
<1>0. /\ UNCHANGED <<file, rpc, ofs, next, astray, cur, shown, tail>>
      /\ wpc' = [wpc EXCEPT ![r] = "writing"]
      /\ begin' = [begin EXCEPT ![r] = Len(file)]
      /\ pos' = [pos EXCEPT ![r] = Len(file)]
      /\ alone' = [q \in Records |-> IF q = r THEN Writing = {}
                                     ELSE alone[q] /\ q \notin Writing]
  BY DEF StartCapture, displayVars, EndOfFile
<1>4. TypeOK'
  <2>1. size' \in [Records -> {0} \union Sizes]
    BY <1>1 DEF TypeOK, IInv
  <2>2. begin' \in [Records -> Nat] /\ pos' \in [Records -> Nat]
    BY <1>0, <1>2 DEF TypeOK, IInv
  <2>3. alone' \in [Records -> BOOLEAN]
    BY <1>0 DEF TypeOK, IInv
  <2>4. wpc' \in [Records -> {"none", "writing", "done", "dead"}]
    BY <1>0 DEF TypeOK, IInv
  <2> QED BY <1>0, <2>1, <2>2, <2>3, <2>4 DEF TypeOK, IInv
<1>5. Positions'
  <2>1. ASSUME NEW q \in Records
        PROVE  /\ begin'[q] <= pos'[q]
               /\ Started(q)' => /\ size'[q] \in Sizes /\ pos'[q] <= begin'[q] + size'[q]
                                 /\ pos'[q] <= Len(file)
               /\ wpc'[q] = "writing" => pos'[q] < begin'[q] + size'[q]
               /\ wpc'[q] = "done" => pos'[q] = begin'[q] + size'[q]
    <3>1. CASE q = r
      BY SMTT(30), <1>1, <1>2, <1>3, <3>1
    <3>2. CASE q # r
      BY <1>3, <3>2 DEF Positions, Started, IInv
    <3> QED BY <3>1, <3>2
  <2> QED BY <1>0, <2>1 DEF Positions, IInv, Started
<1>6. Alone'
  <2>1. SUFFICES ASSUME NEW q \in Records, Started(q)', alone'[q]
                 PROVE  /\ \A k \in 1..(pos'[q] - begin'[q]) :
                             file[begin'[q] + k] = Cell(q, k)
                        /\ \A u \in Writing' \ {q} :
                             wpc'[q] # "writing" /\ pos'[q] <= pos'[u]
    BY <1>0 DEF Alone, Started
  <2>2. CASE q = r
    <3>1. Writing = {}
      BY <1>3, <2>1, <2>2
    <3>2. \A u \in Records \ {r} : wpc'[u] # "writing"
      BY <1>3, <3>1 DEF Writing
    <3>3. Writing' \ {q} = {}
      BY <2>2, <3>2 DEF Writing
    <3> QED BY <1>2, <1>3, <2>2, <3>3
  <2>3. CASE q # r
    <3>1. Started(q) /\ alone[q] /\ wpc[q] # "writing"
      BY <1>3, <2>1, <2>3 DEF Started, Writing
    <3>2. pos[q] <= Len(file)
      BY <3>1 DEF Positions, IInv
    <3>3. ASSUME NEW u \in Writing' \ {q}
          PROVE  wpc'[q] # "writing" /\ pos'[q] <= pos'[u]
      <4>1. CASE u = r
        BY <1>3, <2>3, <3>1, <3>2, <4>1
      <4>2. CASE u # r
        <5>1. u \in Writing \ {q}
          BY <1>3, <3>3, <4>2 DEF Writing
        <5> QED BY <1>3, <2>3, <3>1, <4>2, <5>1 DEF Alone, Writing, IInv
      <4> QED BY <4>1, <4>2
    <3> QED BY <1>3, <2>3, <3>1, <3>3 DEF Alone, IInv
  <2> QED BY <2>2, <2>3
<1> QED BY <1>4, <1>5, <1>6 DEF IInv

\* A write puts a cell of its record at the place of that cell and at no place
\* a capture that ran alone has written to.
LEMMA WriteStep == ASSUME IInv, NEW r \in Records, WriteCell(r) PROVE IInv'
<1> DEFINE cell == Cell(r, pos[r] - begin[r] + 1)
<1>1. /\ begin[r] \in Nat /\ pos[r] \in Nat /\ size[r] \in Nat /\ Len(file) \in Nat
      /\ begin[r] <= pos[r] /\ pos[r] <= Len(file) /\ pos[r] < begin[r] + size[r]
      /\ size[r] \in Sizes /\ wpc[r] = "writing"
  BY Types DEF Positions, Started, WriteCell, IInv
<1>2. cell \in Cells
  BY <1>1, RecordsAssumption DEF Cell, Cells, Records
<1>3. file' = Written(pos[r], cell)
  BY DEF WriteCell
<1> HIDE DEF cell
<1>4. /\ file' \in Seq(Cells) /\ Len(file') \in Nat
      /\ Len(file') = IF pos[r] < Len(file) THEN Len(file) ELSE pos[r] + 1
      /\ file'[pos[r] + 1] = cell
      /\ \A k \in 1..Len(file) : k # pos[r] + 1 => file'[k] = file[k]
  <2>1. TypeOK /\ pos[r] \in Nat /\ pos[r] <= Len(file) /\ Len(file) \in Nat
    BY <1>1 DEF IInv
  <2>2. /\ Written(pos[r], cell) \in Seq(Cells)
        /\ Len(Written(pos[r], cell)) =
             IF pos[r] < Len(file) THEN Len(file) ELSE pos[r] + 1
        /\ Written(pos[r], cell)[pos[r] + 1] = cell
        /\ \A k \in 1..Len(file) :
             k # pos[r] + 1 => Written(pos[r], cell)[k] = file[k]
    BY <1>2, <2>1, WrittenFile
  <2> QED BY <1>3, <2>1, <2>2
<1>5. /\ pos'[r] = pos[r] + 1
      /\ wpc'[r] = IF pos'[r] = begin[r] + size[r] THEN "done" ELSE "writing"
      /\ \A q \in Records \ {r} : pos'[q] = pos[q] /\ wpc'[q] = wpc[q]
      /\ UNCHANGED <<size, begin, displayVars, alone, tail>>
  BY DEF TypeOK, IInv, WriteCell
<1>6. TypeOK'
  <2>1. pos' \in [Records -> Nat]
    BY <1>1 DEF TypeOK, IInv, WriteCell
  <2>2. wpc' \in [Records -> {"none", "writing", "done", "dead"}]
    BY DEF TypeOK, IInv, WriteCell
  <2> QED BY <1>4, <1>5, <2>1, <2>2 DEF TypeOK, IInv, displayVars
<1>7. Positions'
  <2>1. Len(file) <= Len(file') /\ pos'[r] <= Len(file')
    BY <1>1, <1>4, <1>5
  <2>2. ASSUME NEW q \in Records
        PROVE  /\ begin'[q] <= pos'[q]
               /\ Started(q)' => /\ size'[q] \in Sizes /\ pos'[q] <= begin'[q] + size'[q]
                                 /\ pos'[q] <= Len(file')
               /\ wpc'[q] = "writing" => pos'[q] < begin'[q] + size'[q]
               /\ wpc'[q] = "done" => pos'[q] = begin'[q] + size'[q]
    <3>1. CASE q = r
      BY SMTT(30), <1>1, <1>5, <2>1, <3>1
    <3>2. CASE q # r
      <4>1. pos[q] \in Nat
        BY Types DEF IInv
      <4>2. /\ pos'[q] = pos[q] /\ wpc'[q] = wpc[q] /\ size'[q] = size[q]
            /\ begin'[q] = begin[q]
        BY <1>5, <3>2
      <4>3. pos[q] <= Len(file) => pos[q] <= Len(file')
        BY <1>1, <1>4, <2>1, <4>1
      <4> QED BY <4>2, <4>3 DEF Positions, Started, IInv
    <3> QED BY <3>1, <3>2
  <2> QED BY <2>1, <2>2 DEF Positions
<1>8. Alone'
  <2>1. SUFFICES ASSUME NEW q \in Records, Started(q)', alone'[q]
                 PROVE  /\ \A k \in 1..(pos'[q] - begin'[q]) :
                             file'[begin'[q] + k] = Cell(q, k)
                        /\ \A u \in Writing' \ {q} :
                             wpc'[q] # "writing" /\ pos'[q] <= pos'[u]
    BY DEF Alone
  <2>2. /\ Started(q) /\ alone[q] /\ begin[q] \in Nat /\ pos[q] \in Nat
        /\ begin'[q] = begin[q] /\ pos[q] <= Len(file)
    <3>1. Started(q) /\ alone[q] /\ begin'[q] = begin[q]
      BY <1>1, <1>5, <2>1 DEF Started
    <3> QED BY <3>1, Types DEF Positions, IInv
  <2>3. /\ \A k \in 1..(pos[q] - begin[q]) : file[begin[q] + k] = Cell(q, k)
        /\ \A u \in Writing \ {q} : wpc[q] # "writing" /\ pos[q] <= pos[u]
    BY <2>2 DEF Alone, IInv
  <2>4. Writing' \subseteq Writing
    BY <1>1, <1>5 DEF Writing
  <2>5. CASE q = r
    <3>1. Writing' \ {q} = {}
      BY <1>1, <2>3, <2>4, <2>5 DEF Writing
    <3>2. ASSUME NEW k \in 1..(pos[r] + 1 - begin[r])
          PROVE  file'[begin[r] + k] = Cell(r, k)
      <4>1. CASE k = pos[r] - begin[r] + 1
        BY <1>1, <1>4, <4>1 DEF cell
      <4>2. CASE k # pos[r] - begin[r] + 1
        <5>1. /\ begin[r] \in Nat /\ pos[r] \in Nat /\ Len(file) \in Nat
              /\ begin[r] <= pos[r] /\ pos[r] <= Len(file)
          BY <1>1
        <5>2. /\ k \in 1..(pos[r] - begin[r]) /\ begin[r] + k \in 1..Len(file)
              /\ begin[r] + k # pos[r] + 1
          BY <3>2, <4>2, <5>1
        <5> QED BY <1>4, <2>3, <2>5, <5>2
      <4> QED BY <4>1, <4>2
    <3> QED BY <1>5, <2>2, <2>5, <3>1, <3>2
  <2>6. CASE q # r
    <3>1. pos[q] <= pos[r] /\ pos'[q] = pos[q] /\ wpc'[q] = wpc[q] /\ wpc[q] # "writing"
      BY <1>1, <1>5, <2>3, <2>6 DEF Writing
    <3>2. ASSUME NEW k \in 1..(pos[q] - begin[q])
          PROVE  file'[begin[q] + k] = Cell(q, k)
      <4>1. /\ begin[q] \in Nat /\ pos[q] \in Nat /\ pos[r] \in Nat
            /\ Len(file) \in Nat /\ pos[q] <= pos[r] /\ pos[q] <= Len(file)
        BY <1>1, <2>2, <3>1
      <4>2. begin[q] + k \in 1..Len(file) /\ begin[q] + k # pos[r] + 1
        BY <3>2, <4>1
      <4> QED BY <1>4, <2>3, <4>2
    <3>3. ASSUME NEW u \in Writing' \ {q} PROVE pos'[q] <= pos'[u]
      <4>1. u \in Records /\ pos[q] <= pos[u] /\ pos[u] \in Nat
        BY <2>3, <2>4, <3>3, Types DEF Writing, IInv
      <4> QED BY SMTT(30), <1>1, <1>5, <2>2, <3>1, <4>1
    <3> QED BY <2>2, <3>1, <3>2, <3>3
  <2> QED BY <2>5, <2>6
<1> QED BY <1>5, <1>6, <1>7, <1>8 DEF IInv

\* A capture that dies leaves the file as it is.
LEMMA DieStep == ASSUME IInv, NEW r \in Records, Die(r) PROVE IInv'
<1>1. /\ UNCHANGED <<file, size, begin, pos, rpc, ofs, next, astray, cur, shown,
                     alone, tail>>
      /\ wpc[r] = "writing" /\ wpc'[r] = "dead"
      /\ \A q \in Records \ {r} : wpc'[q] = wpc[q]
      /\ wpc' \in [Records -> {"none", "writing", "done", "dead"}]
  BY DEF IInv, TypeOK, Die, displayVars
<1>2. Writing' \subseteq Writing
  BY <1>1 DEF Writing
<1>3. TypeOK'
  BY <1>1 DEF IInv, TypeOK
<1>4. Positions'
  BY <1>1 DEF IInv, Positions, Started
<1>5. Alone'
  BY <1>1, <1>2 DEF IInv, Alone, Started, Writing
<1> QED BY <1>3, <1>4, <1>5 DEF IInv

\* The display leaves the file and its writers alone.
LEMMA DisplayKeeps ==
  ASSUME IInv, UNCHANGED fileVars, UNCHANGED alone
  PROVE  Positions' /\ Alone'
<1>1. UNCHANGED <<file, wpc, size, begin, pos>>
  BY DEF fileVars
<1>2. Positions'
  BY <1>1 DEF IInv, Positions, Started
<1>3. Alone'
  BY <1>1 DEF IInv, Alone, Started, Writing
<1> QED BY <1>2, <1>3

\* The boundary is a cell.
LEMMA BoundaryCell == Boundary \in Cells
BY RecordsAssumption DEF Boundary, Cell, Cells

\* What the display remembers keeps its type; the writers' part is unchanged.
LEMMA DisplayTypes ==
  ASSUME IInv, UNCHANGED fileVars, UNCHANGED alone,
         rpc' \in {"idle", "walk", "read", "done", "failed"},
         ofs' \in Nat, next' \in Nat, astray' \in BOOLEAN, cur' \in Cells,
         shown' \in Seq(0..MaxRecords), tail' \in Seq(Cells)
  PROVE  TypeOK'
BY DEF IInv, TypeOK, fileVars

\* The open of display_environment_log keeps the invariant.
LEMMA OpenStep == ASSUME IInv, OpenLog PROVE IInv'
<1>1. /\ UNCHANGED fileVars /\ UNCHANGED alone
      /\ rpc' = "walk" /\ next' = Offset(Len(file)) /\ ofs' = 0
      /\ cur' = Boundary /\ shown' = <<>>
  BY DEF OpenLog, EndOfFile
<1>2. astray' = FALSE
  BY DEF OpenLog
<1>3. tail' \in Seq(Cells)
  BY DEF OpenLog, IInv, TypeOK
<1>4. next' \in Nat /\ ofs' \in Nat /\ cur' \in Cells /\ shown' \in Seq(0..MaxRecords)
  BY <1>1, Types, Offsets, BoundaryCell DEF IInv
<1>5. astray' \in BOOLEAN
  BY <1>2
<1>6. TypeOK'
  BY <1>1, <1>3, <1>4, <1>5, DisplayTypes
<1> QED BY <1>1, <1>6, DisplayKeeps DEF IInv

\* What the walk goes on with is a word, and earlier in the file than where it
\* was if that is in reach of the check: the sum cannot have wrapped then.
LEMMA WalkTarget ==
  ASSUME IInv, WalkBack
  PROVE  /\ rpc = "walk" /\ rpc' \in {"failed", "read", "walk"}
         /\ next' \in Nat /\ ofs' \in Nat
         /\ rpc' = "walk" /\ InReach(next) => next' < next
<1>1. PICK n \in WordBefore(next) :
        IF BadOffset(n, next)
          THEN rpc' = "failed" /\ next' = 0 /\ ofs' = 0
          ELSE /\ rpc' = IF n = 0 THEN "read" ELSE "walk"
               /\ next' = n
               /\ ofs' = IF n = 0 THEN next ELSE 0
  BY DEF WalkBack
<1>2. rpc = "walk"
  BY DEF WalkBack
<1>3. n \in Nat
  <2>1. \A r \in Records : Offset(begin[r]) \in Nat
    BY Types, Offsets DEF IInv
  <2>2. {Offset(begin[r]) : r \in EndingAt(next)} \subseteq Nat
    BY <2>1 DEF EndingAt
  <2>3. WordBefore(next) \subseteq Nat
    BY <2>2, BaseAssumption DEF WordBefore
  <2> QED BY <2>3
<1>4. next \in Nat
  BY DEF IInv, TypeOK
<1>5. MinRecord \in Nat /\ MinRecord > 0 /\ Word \in Nat
  BY SizesAssumption, BaseAssumption
<1>6. CASE BadOffset(n, next)
  BY <1>1, <1>2, <1>6
<1>7. CASE ~ BadOffset(n, next) /\ n = 0
  BY <1>1, <1>2, <1>4, <1>7
<1>8. CASE ~ BadOffset(n, next) /\ n # 0
  <2>1. ASSUME InReach(next) PROVE n < next
    <3>1. next + MinRecord < Word
      BY <2>1 DEF InReach
    <3>2. ~ (n > next) /\ ~ ((n + MinRecord) % Word > next)
      BY <1>8 DEF BadOffset
    <3>3. n + MinRecord \in 0..(Word - 1)
      BY <1>3, <1>4, <1>5, <3>1, <3>2
    <3>4. (n + MinRecord) % Word = n + MinRecord
      BY <1>5, <3>3
    <3>5. ~ (n + MinRecord > next)
      BY <3>2, <3>4
    <3> QED BY <1>3, <1>4, <1>5, <3>5
  <2> QED BY <1>1, <1>2, <1>3, <1>8, <2>1
<1> QED BY <1>6, <1>7, <1>8

\* A turn of its walk keeps the invariant.
LEMMA WalkStep == ASSUME IInv, WalkBack PROVE IInv'
<1>1. UNCHANGED fileVars /\ UNCHANGED <<cur, shown, alone, tail>>
  BY DEF WalkBack
<1>2. cur' \in Cells /\ shown' \in Seq(0..MaxRecords) /\ tail' \in Seq(Cells)
  BY <1>1 DEF IInv, TypeOK
<1>3. astray' \in BOOLEAN
  BY DEF WalkBack
<1>4. TypeOK'
  BY <1>1, <1>2, <1>3, WalkTarget, DisplayTypes
<1> QED BY <1>1, <1>4, DisplayKeeps DEF IInv

\* A cell it lists keeps the invariant.
LEMMA ReadStep == ASSUME IInv, ReadCell PROVE IInv'
<1>1. /\ UNCHANGED fileVars /\ UNCHANGED <<next, astray, alone, tail>>
      /\ rpc = "read" /\ rpc' \in {"read", "done", "failed"}
  BY DEF ReadCell
<1>2. /\ ofs \in Nat /\ next \in Nat /\ cur \in Cells
      /\ shown \in Seq(0..MaxRecords) /\ file \in Seq(Cells) /\ Len(file) \in Nat
      /\ tail \in Seq(Cells)
  BY Types DEF IInv, TypeOK
<1>3. astray' \in BOOLEAN
  BY <1>1 DEF IInv, TypeOK
<1>4. ofs' \in Nat /\ cur' \in Cells /\ shown' \in Seq(0..MaxRecords)
  <2>1. CASE ofs >= EndOfFile
    BY <1>2, <2>1, BoundaryCell DEF ReadCell
  <2>2. CASE ~ (ofs >= EndOfFile) /\ ~ Expected(file[ofs + 1])
    <3>1. shown' = Append(shown, Garbled) /\ ofs' = 0 /\ cur' = Boundary
      BY <2>2 DEF ReadCell
    <3>2. Garbled \in 0..MaxRecords
      BY RecordsAssumption DEF Garbled
    <3> QED BY <1>2, <3>1, <3>2, BoundaryCell
  <2>3. CASE ~ (ofs >= EndOfFile) /\ Expected(file[ofs + 1])
    <3>1. ofs + 1 \in 1..Len(file)
      BY <1>2, <2>3 DEF EndOfFile
    <3>2. file[ofs + 1] \in Cells
      BY <1>2, <3>1
    <3>3. file[ofs + 1][1] \in 0..MaxRecords
      BY <3>2 DEF Cells
    <3>4. /\ ofs' = ofs + 1
          /\ cur' \in {Boundary, file[ofs + 1]}
          /\ shown' \in {shown, Append(shown, file[ofs + 1][1])}
      BY <2>3 DEF ReadCell
    <3>5. shown' \in Seq(0..MaxRecords)
      <4> DEFINE r == file[ofs + 1][1]
      <4>1. r \in 0..MaxRecords /\ (shown' = shown \/ shown' = Append(shown, r))
        BY <3>3, <3>4
      <4> HIDE DEF r
      <4>2. Append(shown, r) \in Seq(0..MaxRecords)
        BY <1>2, <4>1
      <4> QED BY <1>2, <4>1, <4>2
    <3>6. cur' \in Cells
      BY <3>2, <3>4, BoundaryCell
    <3> QED BY <1>2, <3>4, <3>5, <3>6
  <2> QED BY <2>1, <2>2, <2>3
<1>5. TypeOK'
  BY <1>1, <1>2, <1>3, <1>4, DisplayTypes
<1> QED BY <1>1, <1>5, DisplayKeeps DEF IInv

\* Every step keeps the invariant.
LEMMA NextInv == IInv /\ [Next]_vars => IInv'
<1> SUFFICES ASSUME IInv, [Next]_vars PROVE IInv'
  OBVIOUS
<1>1. ASSUME NEW r \in Records, StartCapture(r) PROVE IInv'
  BY <1>1, StartStep
<1>2. ASSUME NEW r \in Records, WriteCell(r) PROVE IInv'
  BY <1>2, WriteStep
<1>3. ASSUME NEW r \in Records, Die(r) PROVE IInv'
  BY <1>3, DieStep
<1>4. CASE OpenLog
  BY <1>4, OpenStep
<1>5. CASE WalkBack
  BY <1>5, WalkStep
<1>6. CASE ReadCell
  BY <1>6, ReadStep
<1>7. CASE UNCHANGED vars
  <2>1. UNCHANGED <<file, wpc, size, begin, pos, rpc, ofs, next, astray, cur,
                    shown, alone, tail>>
    BY <1>7 DEF vars, fileVars, displayVars
  <2>2. TypeOK'
    BY <2>1 DEF IInv, TypeOK
  <2>3. Positions' /\ Alone'
    BY <2>1, DisplayKeeps DEF fileVars
  <2> QED BY <2>2, <2>3 DEF IInv
<1> QED BY <1>1, <1>2, <1>3, <1>4, <1>5, <1>6, <1>7 DEF Next, Display

-----------------------------------------------------------------------------
\* The strengthened invariant holds in every state the captures and the display
\* can reach (all of cmpsc311_capture.c).
THEOREM Invariance == Spec => []IInv
<1>1. Init => IInv
  BY InitInv
<1> QED BY <1>1, NextInv, PTL DEF Spec

\* Every variable keeps its type.
THEOREM TypeCorrect == Spec => []TypeOK
<1>1. IInv => TypeOK
  BY DEF IInv
<1> QED BY <1>1, Invariance, PTL

\* A record whose capture met no other one stays in the file, complete: a later
\* capture begins at the end of the file (cmpsc311_capture.c:176) and no writer
\* goes back.
THEOREM RecordsStay == Spec => []RecordsKept
<1>1. IInv => RecordsKept
  <2> SUFFICES ASSUME IInv, NEW r \in Records, wpc[r] = "done", alone[r],
                      NEW k \in 1..size[r]
               PROVE  begin[r] + k \in DOMAIN file /\ file[begin[r] + k] = Cell(r, k)
    BY DEF RecordsKept, Intact
  <2>1. /\ begin[r] \in Nat /\ pos[r] \in Nat /\ size[r] \in Nat
        /\ file \in Seq(Cells) /\ Len(file) \in Nat
    BY Types DEF IInv
  <2>2. pos[r] = begin[r] + size[r] /\ pos[r] <= Len(file) /\ Started(r)
    BY DEF IInv, Positions, Started
  <2>3. \A i \in 1..(pos[r] - begin[r]) : file[begin[r] + i] = Cell(r, i)
    BY <2>2 DEF IInv, Alone
  <2>4. k \in 1..(pos[r] - begin[r]) /\ begin[r] + k \in 1..Len(file)
    BY <2>1, <2>2
  <2> QED BY <2>1, <2>3, <2>4
<1> QED BY <1>1, Invariance, PTL

\* A turn of the walk goes on strictly before where it was, whatever bytes it
\* took for an offset, if the sum of the check (cmpsc311_capture.c:266) cannot
\* wrap there.  Where it can, in the last 27 bytes a 32-bit offset reaches, the
\* check accepts the very offset the walk is at.
THEOREM WalkGoesBack == Spec => WalkDescends
<1>1. IInv /\ [Next]_vars =>
        [rpc = "walk" /\ rpc' = "walk" /\ InReach(next) => next' < next]_displayVars
  <2> SUFFICES ASSUME IInv, Next, rpc = "walk", rpc' = "walk", InReach(next)
               PROVE  next' < next \/ UNCHANGED displayVars
    BY DEF vars
  <2>1. CASE WalkBack
    BY <2>1, WalkTarget
  <2>2. ~ OpenLog /\ ~ ReadCell
    BY DEF OpenLog, ReadCell
  <2>3. ASSUME NEW r \in Records, StartCapture(r) \/ WriteCell(r) \/ Die(r)
        PROVE  UNCHANGED displayVars
    BY <2>3 DEF StartCapture, WriteCell, Die
  <2> QED BY <2>1, <2>2, <2>3 DEF Next, Display
<1> QED BY <1>1, Invariance, PTL DEF Spec, WalkDescends

-----------------------------------------------------------------------------
(***************************************************************************)
(* What display_environment_log lists (RecordsListed).                     *)
(***************************************************************************)
End(r) == begin[r] + size[r]

\* The records that were complete when the display opened the file.
Listed ==
  {r \in Records :
     /\ wpc[r] = "done" /\ End(r) <= Len(tail)
     /\ \A i \in (begin[r] + 1)..End(r) : tail[i] = Cell(r, i - begin[r])}

\* Where the archive or one of them ends.
Seams == {Base} \union {End(r) : r \in Listed}

\* Behind the archive every cell is that of a record, at its place in it.
Shape ==
  /\ Base <= Len(file)
  /\ \A i \in 1..Base : file[i] = Archive
  /\ \A i \in (Base + 1)..Len(file) : \E r \in Records :
       /\ Started(r) /\ begin[r] < i /\ i <= End(r)
       /\ file[i] = Cell(r, i - begin[r])

\* Records begin in the order of their numbers.
InOrder ==
  \A r \in Records : Started(r) =>
    /\ Base <= begin[r] /\ begin[r] <= Len(file)
    /\ \A q \in Records : q < r => Started(q) /\ begin[q] <= begin[r]

\* What the display found at a clean open stays, and is all complete records.
Kept ==
  tail # <<>> =>
    /\ Base <= Len(tail) /\ Len(tail) <= Len(file) /\ Len(tail) < Word
    /\ \A i \in 1..Len(tail) : file[i] = tail[i]
    /\ \A r \in Writing : Len(tail) <= pos[r]
    /\ \A i \in (Base + 1)..Len(tail) : \E r \in Listed : begin[r] < i /\ i <= End(r)

\* The walk goes from seam to seam.
Walking ==
  rpc = "walk" /\ tail # <<>> =>
    /\ ~ astray /\ next \in Seams /\ next <= Len(tail)
    /\ cur = Boundary /\ shown = <<>>

Sorted ==
  \A j, k \in DOMAIN shown :
    j < k /\ shown[k] \in Listed => shown[j] \in Listed /\ shown[j] < shown[k]

Shows(r) == \E j \in DOMAIN shown : shown[j] = r

\* Within what it found, the reader has listed the records behind it and knows
\* where in a record it is.
Reading ==
  rpc = "read" /\ tail # <<>> =>
    /\ Base <= ofs
    /\ ofs <= Len(tail) =>
         /\ cur = IF ofs \in Seams THEN Boundary ELSE tail[ofs]
         /\ \A j \in DOMAIN shown : shown[j] \in Listed /\ End(shown[j]) <= ofs
    /\ \A r \in Listed : End(r) <= ofs => Shows(r)
    /\ Sorted

Finished ==
  rpc \in {"done", "failed"} /\ tail # <<>> =>
    (\A r \in Listed : Shows(r)) /\ Sorted

FileInv == Shape /\ InOrder /\ Kept
LInv == FileInv /\ Walking /\ Reading /\ Finished

-----------------------------------------------------------------------------
(***************************************************************************)
(* Seams                                                                   *)
(***************************************************************************)

\* No two cells of the file say the same.
LEMMA CellsDiffer ==
  \A r, i, q, j : Cell(r, i) = Cell(q, j) => r = q /\ i = j
BY DEF Cell

\* The constants the proofs calculate with.
LEMMA Numbers ==
  /\ Base \in Nat /\ Base > 0 /\ Word \in Nat /\ MinRecord \in Nat /\ MinRecord > 0
  /\ MaxRecords \in Nat /\ \A r \in Records : r \in Nat /\ r > 0
BY BaseAssumption, SizesAssumption, RecordsAssumption DEF Records

\* The numbers of a record that has been begun.
LEMMA StartedTypes ==
  ASSUME IInv, NEW r \in Records, Started(r)
  PROVE  /\ begin[r] \in Nat /\ size[r] \in Nat /\ pos[r] \in Nat
         /\ size[r] >= MinRecord /\ size[r] > 0
         /\ End(r) \in Nat
         /\ begin[r] <= pos[r] /\ pos[r] <= End(r)
<1>1. begin[r] \in Nat /\ size[r] \in Nat /\ pos[r] \in Nat /\ size[r] \in Sizes
  BY Types DEF IInv, Positions
<1>2. size[r] >= MinRecord /\ size[r] > 0
  BY <1>1, SizeType
<1>3. End(r) \in Nat
  BY <1>1 DEF End
<1> QED BY <1>1, <1>2, <1>3 DEF IInv, Positions, End

\* The numbers of a record the display is to list.
LEMMA ListedTypes ==
  ASSUME IInv, NEW r \in Listed
  PROVE  /\ r \in Records /\ Started(r) /\ wpc[r] = "done"
         /\ begin[r] \in Nat /\ size[r] \in Nat /\ size[r] >= MinRecord /\ size[r] > 0
         /\ End(r) \in Nat /\ End(r) = begin[r] + size[r]
         /\ Len(tail) \in Nat /\ End(r) <= Len(tail)
         /\ \A i \in (begin[r] + 1)..End(r) : tail[i] = Cell(r, i - begin[r])
<1>1. r \in Records /\ Started(r) /\ wpc[r] = "done"
  BY DEF Listed, Started
<1>2. Len(tail) \in Nat
  BY DEF IInv, TypeOK
<1> QED BY <1>1, <1>2, StartedTypes DEF Listed, End

\* No seam lies within a record.
LEMMA SeamsApart ==
  ASSUME IInv, FileInv, NEW r \in Listed, NEW o \in Seams
  PROVE  ~ (begin[r] < o /\ o < End(r))
<1>1. SUFFICES ASSUME begin[r] < o, o < End(r) PROVE FALSE
  OBVIOUS
<1>2. /\ r \in Records /\ Started(r) /\ begin[r] \in Nat /\ End(r) \in Nat
      /\ \A i \in (begin[r] + 1)..End(r) : tail[i] = Cell(r, i - begin[r])
  BY ListedTypes
<1>3. CASE o = Base
  <2>1. Base <= begin[r]
    BY <1>2 DEF FileInv, InOrder
  <2> QED BY <1>1, <1>2, <1>3, <2>1, Numbers
<1>4. ASSUME NEW q \in Listed, o = End(q) PROVE FALSE
  <2>1. begin[q] \in Nat /\ size[q] \in Nat /\ size[q] > 0 /\ End(q) = begin[q] + size[q]
    BY ListedTypes
  <2>2. tail[o] = Cell(q, o - begin[q])
    <3>1. End(q) \in (begin[q] + 1)..End(q)
      BY <2>1
    <3> QED BY <1>4, <3>1, ListedTypes
  <2>3. tail[o] = Cell(r, o - begin[r])
    <3>1. o \in (begin[r] + 1)..End(r)
      BY <1>1, <1>2, <1>4, <2>1
    <3> QED BY <1>2, <3>1
  <2>4. q = r
    BY <2>2, <2>3, CellsDiffer
  <2> QED BY <1>1, <1>2, <1>4, <2>4
<1> QED BY <1>3, <1>4 DEF Seams

\* A record begins at a seam.
LEMMA BeginsAtSeam ==
  ASSUME IInv, FileInv, tail # <<>>, NEW r \in Listed
  PROVE  begin[r] \in Seams
<1>1. /\ r \in Records /\ Started(r) /\ begin[r] \in Nat /\ size[r] \in Nat /\ size[r] > 0
      /\ End(r) = begin[r] + size[r] /\ End(r) <= Len(tail) /\ Len(tail) \in Nat
  BY ListedTypes
<1>2. Base <= begin[r]
  BY <1>1 DEF FileInv, InOrder
<1>3. CASE begin[r] = Base
  BY <1>3 DEF Seams
<1>4. CASE begin[r] # Base
  <2>1. begin[r] \in (Base + 1)..Len(tail)
    BY <1>1, <1>2, <1>4, Numbers
  <2>2. PICK q \in Listed : begin[q] < begin[r] /\ begin[r] <= End(q)
    BY <2>1 DEF FileInv, Kept
  <2>3. /\ begin[q] \in Nat /\ End(q) \in Nat
        /\ \A i \in (begin[q] + 1)..End(q) : tail[i] = Cell(q, i - begin[q])
        /\ \A i \in (begin[r] + 1)..End(r) : tail[i] = Cell(r, i - begin[r])
    BY ListedTypes
  <2>4. CASE begin[r] < End(q)
    <3>1. PICK i \in Nat : /\ i \in (begin[q] + 1)..End(q)
                          /\ i \in (begin[r] + 1)..End(r)
      <4>1. begin[r] + 1 \in (begin[q] + 1)..End(q)
        BY <1>1, <2>2, <2>3, <2>4
      <4>2. begin[r] + 1 \in (begin[r] + 1)..End(r) /\ begin[r] + 1 \in Nat
        BY <1>1
      <4> QED BY <4>1, <4>2
    <3>2. tail[i] = Cell(q, i - begin[q])
      BY <2>3, <3>1
    <3>3. tail[i] = Cell(r, i - begin[r])
      BY <2>3, <3>1
    <3>4. q = r
      BY <3>2, <3>3, CellsDiffer
    <3> QED BY <1>1, <2>2, <3>4
  <2>5. CASE begin[r] = End(q)
    BY <2>5 DEF Seams
  <2> QED BY <1>1, <2>2, <2>3, <2>4, <2>5
<1> QED BY <1>3, <1>4

\* What comes later in the file has a larger number.
LEMMA LaterIsLarger ==
  ASSUME IInv, FileInv, NEW q \in Listed, NEW r \in Listed, begin[q] < begin[r]
  PROVE  q < r
<1>1. /\ q \in Records /\ r \in Records /\ Started(q) /\ Started(r)
      /\ begin[q] \in Nat /\ begin[r] \in Nat
  BY ListedTypes
<1>2. q \in Nat /\ r \in Nat
  BY <1>1, Numbers
<1>3. r < q => begin[r] <= begin[q]
  BY <1>1 DEF FileInv, InOrder
<1> QED BY <1>1, <1>2, <1>3

\* The record a cell behind the archive belongs to.
LEMMA Covered ==
  ASSUME IInv, FileInv, tail # <<>>, NEW i \in (Base + 1)..Len(tail)
  PROVE  \E r \in Listed :
           /\ begin[r] < i /\ i <= End(r)
           /\ tail[i] = Cell(r, i - begin[r]) /\ file[i] = tail[i]
<1>1. PICK r \in Listed : begin[r] < i /\ i <= End(r)
  BY DEF FileInv, Kept
<1>2. begin[r] \in Nat /\ End(r) \in Nat /\ Len(tail) \in Nat
  BY ListedTypes
<1>3. i \in (begin[r] + 1)..End(r) /\ i \in 1..Len(tail)
  BY <1>1, <1>2, Numbers
<1>4. tail[i] = Cell(r, i - begin[r])
  BY <1>3, ListedTypes
<1>5. file[i] = tail[i]
  BY <1>3 DEF FileInv, Kept
<1> QED BY <1>1, <1>4, <1>5

-----------------------------------------------------------------------------
(***************************************************************************)
(* Captures                                                                *)
(***************************************************************************)

\* There is nothing to list at first.
LEMMA InitList == ASSUME Init PROVE LInv
<1>1. tail = <<>> /\ Len(file) = Base /\ \A i \in 1..Base : file[i] = Archive
  BY Numbers DEF Init
<1>2. Shape
  BY <1>1, Numbers DEF Shape
<1>3. InOrder
  BY DEF Init, InOrder, Started
<1> QED BY <1>1, <1>2, <1>3 DEF LInv, FileInv, Kept, Walking, Reading, Finished

\* As long as the complete records stay, so does what the display knows.
LEMMA DisplayWaits ==
  ASSUME IInv, LInv, UNCHANGED <<rpc, ofs, next, astray, cur, shown, tail>>,
         Listed' = Listed,
         \A r \in Listed : begin'[r] = begin[r] /\ size'[r] = size[r]
  PROVE  Walking' /\ Reading' /\ Finished'
<1>1. \A r \in Listed : End(r)' = End(r)
  BY DEF End
<1>2. Seams' = Seams
  BY <1>1 DEF Seams
<1>3. Sorted' = Sorted
  BY DEF Sorted
<1>4. \A r \in Listed : Shows(r)' = Shows(r)
  BY DEF Shows
<1>5. Walking'
  BY <1>2 DEF LInv, Walking
<1>6. Reading'
  BY <1>1, <1>2, <1>3, <1>4 DEF LInv, Reading
<1>7. Finished'
  BY <1>3, <1>4 DEF LInv, Finished
<1> QED BY <1>5, <1>6, <1>7

\* A capture that begins keeps what the display relies on.
LEMMA StartList ==
  ASSUME IInv, LInv, NEW r \in Records, StartCapture(r)
  PROVE  LInv'
<1>1. PICK m \in Sizes : size' = [size EXCEPT ![r] = m]
  BY DEF StartCapture
<1>2. /\ UNCHANGED <<file, rpc, ofs, next, astray, cur, shown, tail>>
      /\ wpc[r] = "none" /\ wpc'[r] = "writing"
      /\ begin'[r] = Len(file) /\ pos'[r] = Len(file)
      /\ \A q \in Records \ {r} :
           /\ wpc'[q] = wpc[q] /\ size'[q] = size[q] /\ begin'[q] = begin[q]
           /\ pos'[q] = pos[q]
      /\ \A q \in 1..(r - 1) : wpc[q] # "none"
  BY <1>1 DEF IInv, TypeOK, EndOfFile, StartCapture, displayVars
<1>3. ~ Started(r) /\ \A q \in Records \ {r} : Started(q)' = Started(q) /\ End(q)' = End(q)
  BY <1>2 DEF Started, End
<1>4. Len(file) \in Nat
  BY Types DEF IInv
<1>5. Listed' = Listed /\ r \notin Listed
  BY <1>2, <1>3 DEF Listed
<1>6. \A q \in Listed :
        begin'[q] = begin[q] /\ size'[q] = size[q] /\ End(q)' = End(q) /\ q \in Records
  BY <1>2, <1>3, <1>5 DEF Listed
<1>7. Shape'
  BY <1>2, <1>3 DEF LInv, FileInv, Shape
<1>8. InOrder'
  <2>1. SUFFICES ASSUME NEW q \in Records, Started(q)'
                 PROVE  /\ Base <= begin'[q] /\ begin'[q] <= Len(file)
                        /\ \A p \in Records : p < q => Started(p)' /\ begin'[p] <= begin'[q]
    BY <1>2 DEF InOrder
  <2>2. CASE q = r
    <3>1. Base <= Len(file)
      BY DEF LInv, FileInv, Shape
    <3>2. ASSUME NEW p \in Records, p < q PROVE Started(p)' /\ begin'[p] <= begin'[q]
      <4>1. p \in 1..(r - 1) /\ p # r
        BY <2>2, <3>2, Numbers
      <4>2. Started(p)
        BY <1>2, <4>1 DEF Started
      <4>3. begin[p] <= Len(file)
        BY <4>2 DEF LInv, FileInv, InOrder
      <4> QED BY <1>2, <1>3, <2>2, <4>1, <4>2, <4>3
    <3> QED BY <1>2, <1>4, <2>2, <3>1, <3>2
  <2>3. CASE q # r
    <3>1. Started(q) /\ begin'[q] = begin[q]
      BY <1>2, <1>3, <2>1, <2>3
    <3>2. /\ Base <= begin[q] /\ begin[q] <= Len(file)
          /\ \A p \in Records : p < q => Started(p) /\ begin[p] <= begin[q]
      BY <3>1 DEF LInv, FileInv, InOrder
    <3>3. ASSUME NEW p \in Records, p < q PROVE Started(p)' /\ begin'[p] <= begin'[q]
      <4>1. p # r
        BY <1>3, <3>2, <3>3
      <4> QED BY <1>2, <1>3, <3>1, <3>2, <3>3, <4>1
    <3> QED BY <3>1, <3>2, <3>3
  <2> QED BY <2>2, <2>3
<1>9. Kept'
  <2>1. SUFFICES ASSUME tail # <<>> PROVE Kept'
    BY <1>2 DEF Kept
  <2>2. \A q \in Writing' : Len(tail) <= pos'[q]
    <3>1. Len(tail) <= Len(file)
      BY <2>1 DEF LInv, FileInv, Kept
    <3>2. ASSUME NEW q \in Writing' PROVE Len(tail) <= pos'[q]
      <4>1. CASE q = r
        BY <1>2, <3>1, <4>1
      <4>2. CASE q # r
        <5>1. q \in Writing /\ pos'[q] = pos[q]
          BY <1>2, <3>2, <4>2 DEF Writing
        <5> QED BY <2>1, <5>1 DEF LInv, FileInv, Kept
      <4> QED BY <4>1, <4>2
    <3> QED BY <3>2
  <2>3. \A i \in (Base + 1)..Len(tail) : \E q \in Listed' : begin'[q] < i /\ i <= End(q)'
    BY <1>5, <1>6, <2>1 DEF LInv, FileInv, Kept
  <2> QED BY <1>2, <2>1, <2>2, <2>3 DEF LInv, FileInv, Kept
<1> QED BY <1>2, <1>5, <1>6, <1>7, <1>8, <1>9, DisplayWaits DEF LInv, FileInv

\* A cell that is written does so too: it lies behind all that a clean open
\* found.
LEMMA WriteList ==
  ASSUME IInv, LInv, NEW r \in Records, WriteCell(r)
  PROVE  LInv'
<1> DEFINE cell == Cell(r, pos[r] - begin[r] + 1)
<1>1. /\ wpc[r] = "writing" /\ Started(r)
      /\ UNCHANGED <<size, begin, rpc, ofs, next, astray, cur, shown, tail>>
      /\ pos'[r] = pos[r] + 1
      /\ wpc'[r] = IF pos'[r] = End(r) THEN "done" ELSE "writing"
      /\ \A q \in Records \ {r} : wpc'[q] = wpc[q] /\ pos'[q] = pos[q]
      /\ file' = Written(pos[r], cell)
  BY DEF IInv, TypeOK, WriteCell, displayVars, Started, End
<1>2. /\ begin[r] \in Nat /\ pos[r] \in Nat /\ End(r) \in Nat /\ Len(file) \in Nat
      /\ begin[r] <= pos[r] /\ pos[r] < End(r) /\ pos[r] <= Len(file)
  <2>1. Len(file) \in Nat
    BY Types DEF IInv
  <2> QED BY <1>1, <2>1, StartedTypes DEF IInv, Positions, End
<1>3. /\ Len(file') = IF pos[r] < Len(file) THEN Len(file) ELSE pos[r] + 1
      /\ file'[pos[r] + 1] = cell
      /\ \A k \in 1..Len(file) : k # pos[r] + 1 => file'[k] = file[k]
  <2>1. cell \in Cells
    BY <1>2, RecordsAssumption DEF Cell, Cells, Records
  <2>2. TypeOK
    BY DEF IInv
  <2> HIDE DEF cell
  <2>3. /\ Len(Written(pos[r], cell)) =
             IF pos[r] < Len(file) THEN Len(file) ELSE pos[r] + 1
        /\ Written(pos[r], cell)[pos[r] + 1] = cell
        /\ \A k \in 1..Len(file) :
             k # pos[r] + 1 => Written(pos[r], cell)[k] = file[k]
    BY <1>2, <2>1, <2>2, WrittenFile
  <2> QED BY <1>1, <2>3
<1>4. \A q \in Records : Started(q)' = Started(q) /\ End(q)' = End(q)
  BY <1>1 DEF Started, End
<1>5. Base <= begin[r]
  BY <1>1 DEF LInv, FileInv, InOrder
<1>6. tail # <<>> => Len(tail) \in Nat /\ Len(tail) <= pos[r]
  <2>1. Len(tail) \in Nat
    BY DEF IInv, TypeOK
  <2>2. r \in Writing
    BY <1>1 DEF Writing
  <2> QED BY <2>1, <2>2 DEF LInv, FileInv, Kept
<1>7. Shape'
  <2>1. Base <= Len(file) /\ Len(file) <= Len(file')
    BY <1>2, <1>3 DEF LInv, FileInv, Shape
  <2>2. ASSUME NEW i \in 1..Base PROVE file'[i] = Archive
    <3>1. i \in 1..Len(file) /\ i # pos[r] + 1
      BY <1>2, <1>5, <2>1, Numbers
    <3> QED BY <1>3, <3>1 DEF LInv, FileInv, Shape
  <2>3. ASSUME NEW i \in (Base + 1)..Len(file')
        PROVE  \E q \in Records :
                 /\ Started(q)' /\ begin'[q] < i /\ i <= End(q)'
                 /\ file'[i] = Cell(q, i - begin'[q])
    <3>1. CASE i = pos[r] + 1
      <4>1. begin[r] < i /\ i <= End(r) /\ i - begin[r] = pos[r] - begin[r] + 1
        BY <1>2, <3>1
      <4>2. file'[i] = Cell(r, i - begin[r])
        BY <1>3, <3>1, <4>1
      <4> QED BY <1>1, <1>4, <4>1, <4>2
    <3>2. CASE i # pos[r] + 1
      <4>1. i \in (Base + 1)..Len(file) /\ i \in 1..Len(file)
        BY <1>2, <1>3, <3>2, Numbers
      <4>2. PICK q \in Records : /\ Started(q) /\ begin[q] < i /\ i <= End(q)
                                 /\ file[i] = Cell(q, i - begin[q])
        BY <4>1 DEF LInv, FileInv, Shape
      <4>3. file'[i] = file[i]
        BY <1>3, <3>2, <4>1
      <4> QED BY <1>1, <1>4, <4>2, <4>3
    <3> QED BY <3>1, <3>2
  <2>4. Base <= Len(file')
    BY <1>2, <1>3, <2>1, Numbers
  <2> QED BY <2>2, <2>3, <2>4 DEF Shape
<1>8. InOrder'
  <2>1. ASSUME NEW q \in Records, Started(q) PROVE begin[q] <= Len(file')
    <3>1. begin[q] <= Len(file) /\ begin[q] \in Nat
      BY <2>1, StartedTypes DEF LInv, FileInv, InOrder
    <3> QED BY <1>2, <1>3, <3>1
  <2> QED BY <1>1, <1>4, <2>1 DEF LInv, FileInv, InOrder
<1>9. tail # <<>> => Listed' = Listed
  <2>1. SUFFICES ASSUME tail # <<>> PROVE Listed' = Listed
    OBVIOUS
  <2>2. r \notin Listed
    BY <1>1 DEF Listed
  <2>3. r \notin Listed'
    <3>1. wpc'[r] = "done" => ~ (End(r)' <= Len(tail'))
      BY <1>1, <1>2, <1>4, <1>6, <2>1
    <3> QED BY <3>1 DEF Listed
  <2> QED BY <1>1, <1>4, <2>2, <2>3 DEF Listed
<1>10. Kept'
  <2>1. SUFFICES ASSUME tail # <<>> PROVE Kept'
    BY <1>1 DEF Kept
  <2>2. /\ Base <= Len(tail) /\ Len(tail) <= Len(file) /\ Len(tail) < Word
        /\ \A i \in 1..Len(tail) : file[i] = tail[i]
        /\ \A q \in Writing : Len(tail) <= pos[q]
        /\ \A i \in (Base + 1)..Len(tail) : \E q \in Listed : begin[q] < i /\ i <= End(q)
    BY <2>1 DEF LInv, FileInv, Kept
  <2>3. Len(tail) <= Len(file')
    BY <1>2, <1>3, <1>6, <2>1, <2>2
  <2>4. ASSUME NEW i \in 1..Len(tail) PROVE file'[i] = tail[i]
    <3>1. i \in 1..Len(file) /\ i # pos[r] + 1
      BY <1>2, <1>6, <2>1, <2>2
    <3> QED BY <1>3, <2>2, <3>1
  <2>5. ASSUME NEW q \in Writing' PROVE Len(tail) <= pos'[q]
    <3>1. CASE q = r
      BY <1>1, <1>2, <1>6, <2>1, <3>1
    <3>2. CASE q # r
      BY <1>1, <2>2, <2>5, <3>2 DEF Writing
    <3> QED BY <3>1, <3>2
  <2>6. \A q \in Listed : q \in Records
    BY DEF Listed
  <2>7. \A i \in (Base + 1)..Len(tail) : \E q \in Listed' : begin'[q] < i /\ i <= End(q)'
    BY <1>1, <1>4, <1>9, <2>1, <2>2, <2>6
  <2> QED BY <1>1, <2>2, <2>3, <2>4, <2>5, <2>7 DEF Kept
<1>11. Walking' /\ Reading' /\ Finished'
  <2>1. CASE tail = <<>>
    BY <1>1, <2>1 DEF Walking, Reading, Finished
  <2>2. CASE tail # <<>>
    BY <1>1, <1>9, <2>2, DisplayWaits
  <2> QED BY <2>1, <2>2
<1> QED BY <1>7, <1>8, <1>10, <1>11 DEF LInv, FileInv

\* A capture that dies keeps what the display relies on.
LEMMA DieList ==
  ASSUME IInv, LInv, NEW r \in Records, Die(r)
  PROVE  LInv'
<1>1. /\ UNCHANGED <<file, size, begin, pos, rpc, ofs, next, astray, cur, shown, tail>>
      /\ wpc[r] = "writing" /\ wpc'[r] = "dead"
      /\ \A q \in Records \ {r} : wpc'[q] = wpc[q]
  BY DEF IInv, TypeOK, Die, displayVars
<1>2. Writing' \subseteq Writing
  BY <1>1 DEF Writing
<1>3. \A q \in Records : Started(q)' = Started(q) /\ End(q)' = End(q)
  BY <1>1 DEF Started, End
<1>4. Listed' = Listed
  BY <1>1, <1>3 DEF Listed
<1>5. \A q \in Listed : q \in Records
  BY DEF Listed
<1>6. Shape'
  BY <1>1, <1>3 DEF LInv, FileInv, Shape
<1>7. InOrder'
  BY <1>1, <1>3 DEF LInv, FileInv, InOrder
<1>8. Kept'
  BY <1>1, <1>2, <1>3, <1>4, <1>5 DEF LInv, FileInv, Kept
<1> QED BY <1>1, <1>4, <1>6, <1>7, <1>8, DisplayWaits DEF LInv, FileInv

-----------------------------------------------------------------------------
(***************************************************************************)
(* The display                                                             *)
(***************************************************************************)

\* A clean open knows the whole file, and its end is a seam.
LEMMA OpenList == ASSUME IInv, LInv, OpenLog PROVE LInv'
<1>1. /\ UNCHANGED <<file, wpc, size, begin, pos>>
      /\ rpc' = "walk" /\ next' = Offset(Len(file)) /\ astray' = FALSE
      /\ cur' = Boundary /\ shown' = <<>>
      /\ tail' = IF Whole /\ Len(file) < Word THEN file ELSE <<>>
  BY DEF OpenLog, EndOfFile, fileVars
<1>2. \A r \in Records : Started(r)' = Started(r) /\ End(r)' = End(r)
  BY <1>1 DEF Started, End
<1>3. Shape'
  BY <1>1, <1>2 DEF LInv, FileInv, Shape
<1>4. InOrder'
  BY <1>1, <1>2 DEF LInv, FileInv, InOrder
<1>5. Reading' /\ Finished'
  BY <1>1 DEF Reading, Finished
<1>6. ASSUME tail' # <<>> PROVE Kept' /\ Walking'
  <2>1. Whole /\ tail' = file /\ Len(file) < Word
    BY <1>1, <1>6
  <2>2. Base <= Len(file) /\ Len(file) \in Nat /\ file \in Seq(Cells)
    BY Types DEF LInv, FileInv, Shape, IInv
  <2>3. \A r \in Writing' : Len(file) <= pos'[r]
    BY <1>1, <2>1, <2>2 DEF Whole, EndOfFile, Writing
  <2>4. ASSUME NEW i \in (Base + 1)..Len(file)
        PROVE  \E r \in Listed' : begin'[r] < i /\ i <= End(r)'
    <3>1. PICK r \in Records : /\ wpc[r] = "done" /\ Intact(r)
                               /\ begin[r] < i /\ i <= begin[r] + size[r]
      <4>1. i \in DOMAIN file /\ ~ (i <= Base)
        BY <2>2, Numbers
      <4> QED BY <2>1, <4>1 DEF Whole
    <3>2. begin[r] \in Nat /\ size[r] \in Nat /\ size[r] > 0 /\ End(r) = begin[r] + size[r]
      BY <3>1, StartedTypes DEF Started, End
    <3>3. End(r) <= Len(file)
      <4>1. begin[r] + size[r] \in DOMAIN file
        BY <3>1, <3>2 DEF Intact
      <4> QED BY <2>2, <3>2, <4>1
    <3>4. ASSUME NEW k \in (begin[r] + 1)..End(r) PROVE file[k] = Cell(r, k - begin[r])
      <4>1. k - begin[r] \in 1..size[r] /\ begin[r] + (k - begin[r]) = k
        BY <3>2
      <4> QED BY <3>1, <4>1 DEF Intact
    <3>5. r \in Listed'
      BY <1>1, <1>2, <2>1, <3>1, <3>3, <3>4 DEF Listed
    <3> QED BY <1>1, <1>2, <3>1, <3>2, <3>5
  <2>5. Kept'
    BY <1>1, <2>1, <2>2, <2>3, <2>4 DEF Kept
  <2>6. Len(file) \in Seams'
    <3>1. CASE Len(file) = Base
      BY <3>1 DEF Seams
    <3>2. CASE Len(file) # Base
      <4>1. Len(file) \in (Base + 1)..Len(file)
        BY <2>2, <3>2, Numbers
      <4>2. PICK r \in Listed' : begin'[r] < Len(file) /\ Len(file) <= End(r)'
        BY <2>4, <4>1
      <4>3. End(r)' <= Len(file) /\ r \in Records /\ wpc[r] = "done"
        BY <1>1, <2>1 DEF Listed
      <4>4. End(r)' \in Nat
        BY <1>2, <4>3, StartedTypes DEF Started
      <4>5. End(r)' = Len(file)
        BY <2>2, <4>2, <4>3, <4>4
      <4> QED BY <4>5 DEF Seams
    <3> QED BY <3>1, <3>2
  <2>7. next' = Len(file)
    BY <1>1, <2>1, <2>2, Offsets
  <2>8. Walking'
    BY <1>1, <2>1, <2>2, <2>6, <2>7 DEF Walking
  <2> QED BY <2>5, <2>8
<1> QED BY <1>3, <1>4, <1>5, <1>6 DEF LInv, FileInv, Kept, Walking

\* Steps of the walk and the reader change neither the file nor what they know
\* of it.
LEMMA SameFile ==
  ASSUME LInv, UNCHANGED fileVars, UNCHANGED tail
  PROVE  /\ FileInv' /\ Listed' = Listed /\ Seams' = Seams
         /\ \A r : End(r)' = End(r)
<1>1. UNCHANGED <<file, wpc, size, begin, pos, tail>>
  BY DEF fileVars
<1>2. \A r : End(r)' = End(r) /\ Started(r)' = Started(r)
  BY <1>1 DEF End, Started
<1>3. Listed' = Listed
  BY <1>1, <1>2 DEF Listed
<1>4. Seams' = Seams
  BY <1>2, <1>3 DEF Seams
<1>5. Shape'
  BY <1>1, <1>2 DEF LInv, FileInv, Shape
<1>6. InOrder'
  BY <1>1, <1>2 DEF LInv, FileInv, InOrder
<1>7. Writing' = Writing
  BY <1>1 DEF Writing
<1>8. Kept'
  BY <1>1, <1>2, <1>3, <1>7 DEF LInv, FileInv, Kept
<1> QED BY <1>2, <1>3, <1>4, <1>5, <1>6, <1>8 DEF FileInv

\* From the end of a record the walk goes on to where it begins, and from the
\* end of the archive to the reader.
LEMMA WalkList == ASSUME IInv, LInv, WalkBack PROVE LInv'
<1>1. /\ rpc = "walk" /\ UNCHANGED fileVars /\ UNCHANGED <<cur, shown, tail>>
      /\ astray' = (rpc' = "walk" /\ (astray \/ (next # Base /\ EndingAt(next) = {})))
  BY DEF WalkBack
<1>2. /\ FileInv' /\ Listed' = Listed /\ Seams' = Seams
      /\ \A r : End(r)' = End(r)
  BY <1>1, SameFile
<1>3. CASE tail = <<>>
  BY <1>1, <1>2, <1>3 DEF LInv, Walking, Reading, Finished
<1>4. CASE tail # <<>>
  <2>1. /\ ~ astray /\ next \in Seams /\ next <= Len(tail)
        /\ cur = Boundary /\ shown = <<>>
    BY <1>1, <1>4 DEF LInv, Walking
  <2>2. PICK n \in WordBefore(next) :
          IF BadOffset(n, next)
            THEN rpc' = "failed" /\ next' = 0 /\ ofs' = 0
            ELSE /\ rpc' = IF n = 0 THEN "read" ELSE "walk"
                 /\ next' = n
                 /\ ofs' = IF n = 0 THEN next ELSE 0
    BY DEF WalkBack
  <2>3. CASE next = Base
    <3>1. n = 0 /\ ~ BadOffset(n, next)
      BY <2>1, <2>2, <2>3 DEF WordBefore, BadOffset
    <3>2. rpc' = "read" /\ ofs' = Base
      BY <2>2, <2>3, <3>1
    <3>3. Base \in Seams
      BY DEF Seams
    <3>4. ASSUME NEW r \in Listed PROVE ~ (End(r) <= Base)
      <4>1. /\ r \in Records /\ Started(r) /\ begin[r] \in Nat /\ size[r] \in Nat
            /\ size[r] > 0 /\ End(r) = begin[r] + size[r]
        BY ListedTypes
      <4>2. Base <= begin[r]
        BY <4>1 DEF LInv, FileInv, InOrder
      <4> QED BY <4>1, <4>2, Numbers
    <3>5. shown' = <<>> /\ cur' = Boundary
      BY <1>1, <2>1
    <3>6. Base <= ofs'
      BY <3>2, Numbers
    <3>7. Reading'
      BY <1>2, <3>2, <3>3, <3>4, <3>5, <3>6 DEF Reading, Sorted
    <3>8. Walking' /\ Finished'
      BY <3>2 DEF Walking, Finished
    <3> QED BY <1>2, <3>7, <3>8 DEF LInv
  <2>4. CASE next # Base
    <3>1. PICK r \in Listed : next = End(r)
      BY <2>1, <2>4 DEF Seams
    <3>2. /\ r \in Records /\ Started(r) /\ begin[r] \in Nat /\ size[r] \in Nat
          /\ size[r] >= MinRecord /\ size[r] > 0 /\ End(r) = begin[r] + size[r]
          /\ End(r) \in Nat /\ Len(tail) \in Nat /\ End(r) <= Len(tail)
      BY ListedTypes
    <3>3. Base <= begin[r]
      BY <3>2 DEF LInv, FileInv, InOrder
    <3>4. file[next] = Cell(r, size[r])
      <4>1. next \in (begin[r] + 1)..End(r) /\ next \in 1..Len(tail)
            /\ next - begin[r] = size[r]
        BY <3>1, <3>2
      <4>2. tail[next] = Cell(r, next - begin[r])
        BY <4>1, ListedTypes
      <4>3. file[next] = tail[next]
        BY <1>4, <4>1 DEF LInv, FileInv, Kept
      <4> QED BY <4>1, <4>2, <4>3
    <3>0. Len(tail) < Word
      BY <1>4 DEF LInv, FileInv, Kept
    <3>5. EndingAt(next) = {r}
      <4>1. Before(next) = next
        BY <3>1, <3>2 DEF Before
      <4> QED BY <3>2, <3>4, <4>1, CellsDiffer DEF EndingAt
    <3>6. n = begin[r]
      <4>1. n = Offset(begin[r])
        BY <2>1, <2>2, <2>4, <3>5 DEF WordBefore
      <4>2. begin[r] < Word
        BY <3>0, <3>2, Numbers
      <4> QED BY <3>2, <4>1, <4>2, Offsets
    <3>7. n # 0 /\ n < next /\ n + MinRecord <= next /\ n + MinRecord \in 0..(Word - 1)
      BY SMTT(30), <3>0, <3>1, <3>2, <3>3, <3>6, Numbers
    <3>8. (n + MinRecord) % Word = n + MinRecord
      BY <3>7, Numbers
    <3>9. ~ BadOffset(n, next)
      <4>1. n \in Nat /\ next \in Nat /\ MinRecord \in Nat
        BY <3>1, <3>2, <3>6, Numbers
      <4> QED BY <3>7, <3>8, <4>1 DEF BadOffset
    <3>10. rpc' = "walk" /\ next' = begin[r]
      BY <2>2, <3>6, <3>7, <3>9
    <3>11. begin[r] \in Seams /\ begin[r] <= Len(tail)
      BY <1>4, <3>2, BeginsAtSeam DEF LInv
    <3>12. ~ astray'
      BY <1>1, <2>1, <3>5
    <3>13. Walking'
      BY <1>1, <1>2, <2>1, <3>10, <3>11, <3>12 DEF Walking
    <3>14. Reading' /\ Finished'
      BY <3>10 DEF Reading, Finished
    <3> QED BY <1>2, <3>13, <3>14 DEF LInv
  <2> QED BY <2>3, <2>4
<1> QED BY <1>3, <1>4

\* The cell the reader meets within what the display found at its open is the
\* one it expects.
LEMMA MeetsExpected ==
  ASSUME IInv, LInv, rpc = "read", tail # <<>>, ofs < Len(tail)
  PROVE  \E r \in Listed :
           /\ begin[r] <= ofs /\ ofs < End(r)
           /\ file[ofs + 1] = Cell(r, ofs + 1 - begin[r])
           /\ tail[ofs + 1] = Cell(r, ofs + 1 - begin[r])
           /\ Expected(file[ofs + 1])
<1>1. /\ ofs \in Nat /\ Len(tail) \in Nat /\ Base <= ofs
      /\ cur = IF ofs \in Seams THEN Boundary ELSE tail[ofs]
  <2>1. ofs \in Nat /\ Len(tail) \in Nat
    BY DEF IInv, TypeOK
  <2> QED BY <2>1 DEF LInv, Reading
<1>2. ofs + 1 \in (Base + 1)..Len(tail)
  BY <1>1, Numbers
<1>3. PICK r \in Listed :
        /\ begin[r] < ofs + 1 /\ ofs + 1 <= End(r)
        /\ tail[ofs + 1] = Cell(r, ofs + 1 - begin[r]) /\ file[ofs + 1] = tail[ofs + 1]
  <2>1. FileInv
    BY DEF LInv
  <2>2. PICK i \in (Base + 1)..Len(tail) : i = ofs + 1
    BY <1>2
  <2>3. PICK x \in Listed :
          /\ begin[x] < i /\ i <= End(x)
          /\ tail[i] = Cell(x, i - begin[x]) /\ file[i] = tail[i]
    BY <2>1, Covered
  <2>4. begin[x] \in Nat
    BY <2>1, <2>3, ListedTypes
  <2>5. i - begin[x] = ofs + 1 - begin[x]
    BY <1>1, <2>2, <2>4
  <2> QED BY <2>2, <2>3, <2>5
<1>4. /\ r \in Records /\ begin[r] \in Nat /\ End(r) \in Nat
      /\ \A i \in (begin[r] + 1)..End(r) : tail[i] = Cell(r, i - begin[r])
  BY ListedTypes
<1>5. begin[r] <= ofs /\ ofs < End(r)
  BY <1>1, <1>3, <1>4
<1>6. Expected(file[ofs + 1])
  <2>1. CASE ofs \in Seams
    <3>1. ~ (begin[r] < ofs /\ ofs < End(r))
      BY <2>1, SeamsApart DEF LInv
    <3>2. ofs + 1 - begin[r] = 1
      BY <1>1, <1>4, <1>5, <3>1
    <3>3. file[ofs + 1] = Cell(r, 1)
      BY <1>3, <3>2
    <3> QED BY <1>1, <1>4, <2>1, <3>3 DEF Expected
  <2>2. CASE ofs \notin Seams
    <3>1. begin[r] # ofs
      BY <2>2, BeginsAtSeam DEF LInv
    <3>2. ofs \in (begin[r] + 1)..End(r)
      BY <1>1, <1>4, <1>5, <3>1
    <3>3. cur = Cell(r, ofs - begin[r])
      BY <1>1, <1>4, <2>2, <3>2
    <3>4. cur # Boundary
      BY <1>4, <3>3, CellsDiffer, Numbers DEF Boundary
    <3>5. cur[1] = r /\ cur[2] + 1 = ofs + 1 - begin[r]
      BY <1>1, <1>4, <3>3 DEF Cell
    <3> QED BY <1>3, <3>4, <3>5 DEF Expected
  <2> QED BY <2>1, <2>2
<1> QED BY <1>3, <1>5, <1>6

\* Something more is listed: what was listed stays, and the order too if the new
\* one is no record the display knows or larger than all before.
LEMMA Lists ==
  ASSUME shown \in Seq(0..MaxRecords), NEW x \in 0..MaxRecords,
         shown' = Append(shown, x), Listed' = Listed, Sorted,
         x \in Listed => \A j \in DOMAIN shown : shown[j] \in Listed /\ shown[j] < x
  PROVE  /\ Sorted' /\ Shows(x)' /\ \A r : Shows(r) => Shows(r)'
         /\ \A j \in DOMAIN shown' : shown'[j] = x \/ \E k \in DOMAIN shown : shown'[j] = shown[k]
<1> DEFINE l == Len(shown)
<1>1. /\ l \in Nat /\ DOMAIN shown = 1..l /\ DOMAIN shown' = 1..(l + 1)
      /\ shown'[l + 1] = x /\ \A j \in 1..l : shown'[j] = shown[j]
  OBVIOUS
<1> HIDE DEF l
<1>2. \A j \in 1..(l + 1) : j \in 1..l \/ j = l + 1
  BY <1>1
<1>3. ASSUME NEW j \in DOMAIN shown', NEW k \in DOMAIN shown', j < k, shown'[k] \in Listed
      PROVE  shown'[j] \in Listed /\ shown'[j] < shown'[k]
  <2>1. j \in 1..l
    BY <1>1, <1>3
  <2>2. CASE k = l + 1
    BY <1>1, <1>3, <2>1, <2>2
  <2>3. CASE k \in 1..l
    BY <1>1, <1>3, <2>1, <2>3 DEF Sorted
  <2> QED BY <1>1, <1>2, <2>2, <2>3
<1>4. Sorted'
  BY <1>3 DEF Sorted
<1>5. l + 1 \in DOMAIN shown' /\ \A j \in DOMAIN shown : j \in DOMAIN shown'
  BY <1>1
<1>6. Shows(x)' /\ \A r : Shows(r) => Shows(r)'
  BY <1>1, <1>5 DEF Shows
<1> QED BY <1>1, <1>2, <1>4, <1>6

\* The reader lists the records one after the other.
LEMMA ReadList == ASSUME IInv, LInv, ReadCell PROVE LInv'
<1>1. /\ rpc = "read" /\ rpc' \in {"read", "done", "failed"}
      /\ UNCHANGED fileVars /\ UNCHANGED tail
  BY DEF ReadCell
<1>2. /\ FileInv' /\ Listed' = Listed /\ Seams' = Seams
      /\ \A r : End(r)' = End(r)
  BY <1>1, SameFile
<1>3. Walking'
  BY <1>1 DEF Walking
<1>4. CASE tail = <<>>
  BY <1>1, <1>2, <1>3, <1>4 DEF LInv, Reading, Finished
<1>5. CASE tail # <<>>
  <2>1. /\ ofs \in Nat /\ Len(tail) \in Nat /\ Len(file) \in Nat
        /\ shown \in Seq(0..MaxRecords) /\ file \in Seq(Cells)
    BY Types DEF IInv, TypeOK
  <2>2. /\ Base <= ofs /\ Sorted /\ \A r \in Listed : End(r) <= ofs => Shows(r)
        /\ ofs <= Len(tail) =>
             \A j \in DOMAIN shown : shown[j] \in Listed /\ End(shown[j]) <= ofs
    BY <1>1, <1>5 DEF LInv, Reading
  <2>3. Len(tail) <= Len(file)
    BY <1>5 DEF LInv, FileInv, Kept
  <2>4. CASE ofs < Len(tail)
    <3>1. PICK r \in Listed :
            /\ begin[r] <= ofs /\ ofs < End(r)
            /\ file[ofs + 1] = Cell(r, ofs + 1 - begin[r])
            /\ tail[ofs + 1] = Cell(r, ofs + 1 - begin[r])
            /\ Expected(file[ofs + 1])
      BY <1>1, <1>5, <2>4, MeetsExpected
    <3>2. /\ r \in Records /\ begin[r] \in Nat /\ size[r] \in Nat /\ End(r) \in Nat
          /\ End(r) = begin[r] + size[r] /\ End(r) <= Len(tail) /\ r \in 0..MaxRecords
      BY ListedTypes DEF Records
    <3>3. ~ (ofs >= EndOfFile)
      BY <2>1, <2>3, <2>4 DEF EndOfFile
    <3>4. /\ rpc' = "read" /\ ofs' = ofs + 1
          /\ cur' = IF ofs + 1 - begin[r] = size[r] THEN Boundary ELSE file[ofs + 1]
          /\ shown' = IF ofs + 1 - begin[r] = size[r] THEN Append(shown, r) ELSE shown
      <4>1. file[ofs + 1][1] = r /\ file[ofs + 1][2] = ofs + 1 - begin[r]
        BY <3>1 DEF Cell
      <4> QED BY <3>1, <3>3, <4>1 DEF ReadCell
    <3>5. Base <= ofs' /\ ofs' <= Len(tail) /\ ofs' \in Nat
      BY <2>1, <2>2, <2>4, <3>4, Numbers
    <3>6. \A q \in Listed : /\ q \in Records /\ End(q) \in Nat /\ begin[q] \in Nat
                            /\ begin[q] < End(q)
      BY ListedTypes
    <3>7. CASE ofs + 1 = End(r)
      <4>1. cur' = Boundary /\ shown' = Append(shown, r) /\ ofs' = End(r)
        BY <2>1, <3>2, <3>4, <3>7
      <4>2. ofs' \in Seams
        BY <4>1 DEF Seams
      <4>3. ASSUME NEW j \in DOMAIN shown PROVE shown[j] \in Listed /\ shown[j] < r
        <5>1. shown[j] \in Listed /\ End(shown[j]) <= ofs
          BY <2>1, <2>2, <2>4
        <5>2. End(shown[j]) \in Seams
          BY <5>1 DEF Seams
        <5>3. ~ (begin[r] < End(shown[j]) /\ End(shown[j]) < End(r))
          BY <5>2, SeamsApart DEF LInv
        <5>4. begin[shown[j]] < begin[r]
          <6> DEFINE s == shown[j]
          <6>1. /\ End(s) \in Nat /\ begin[s] \in Nat /\ begin[s] < End(s)
                /\ End(s) <= ofs /\ ~ (begin[r] < End(s) /\ End(s) < End(r))
            BY <3>6, <5>1, <5>3
          <6> HIDE DEF s
          <6>2. End(s) < End(r)
            BY <2>1, <3>1, <3>2, <6>1
          <6>3. begin[s] < begin[r]
            BY <3>2, <6>1, <6>2
          <6> QED BY <6>3 DEF s
        <5> QED BY <5>1, <5>4, LaterIsLarger DEF LInv
      <4>4. /\ Sorted' /\ Shows(r)' /\ \A q : Shows(q) => Shows(q)'
            /\ \A j \in DOMAIN shown' :
                 shown'[j] = r \/ \E k \in DOMAIN shown : shown'[j] = shown[k]
        BY <1>2, <2>1, <2>2, <3>2, <4>1, <4>3, Lists
      <4>5. ASSUME NEW q \in Listed, End(q) <= ofs' PROVE Shows(q)'
        <5>1. CASE End(q) <= ofs
          BY <2>2, <4>4, <5>1
        <5>2. CASE ~ (End(q) <= ofs)
          <6>1. End(q) = ofs + 1
            BY <2>1, <3>4, <3>6, <4>5, <5>2
          <6>2. End(q) \in (begin[q] + 1)..End(q)
            BY <3>6
          <6>3. tail[End(q)] = Cell(q, End(q) - begin[q])
            BY <6>2, ListedTypes
          <6>4. q = r
            BY <3>1, <6>1, <6>3, CellsDiffer
          <6> QED BY <4>4, <6>4
        <5> QED BY <5>1, <5>2
      <4>6. ASSUME NEW j \in DOMAIN shown' PROVE shown'[j] \in Listed /\ End(shown'[j]) <= ofs'
        <5>1. CASE shown'[j] = r
          BY <3>2, <4>1, <5>1
        <5>2. ASSUME NEW k \in DOMAIN shown, shown'[j] = shown[k]
              PROVE  shown'[j] \in Listed /\ End(shown'[j]) <= ofs'
          <6>1. shown[k] \in Listed /\ End(shown[k]) <= ofs
            BY <2>1, <2>2, <2>4
          <6> QED BY <2>1, <3>4, <3>6, <5>2, <6>1
        <5> QED BY <4>4, <5>1, <5>2
      <4>7. Reading'
        BY <1>1, <1>2, <3>5, <4>1, <4>2, <4>4, <4>5, <4>6 DEF Reading
      <4> QED BY <1>2, <1>3, <3>4, <4>7 DEF LInv, Finished
    <3>8. CASE ofs + 1 # End(r)
      <4>1. cur' = tail[ofs'] /\ shown' = shown /\ ofs' = ofs + 1
        BY <2>1, <3>1, <3>2, <3>4, <3>8
      <4>2. ofs' \notin Seams
        <5>1. begin[r] < ofs' /\ ofs' < End(r)
          BY <2>1, <3>1, <3>2, <3>8, <4>1
        <5> QED BY <5>1, SeamsApart DEF LInv
      <4>3. Sorted' /\ \A q : Shows(q)' = Shows(q)
        <5>1. shown' = shown /\ Listed' = Listed
          BY <1>2, <4>1
        <5>2. Sorted'
          BY <2>2, <5>1 DEF Sorted
        <5>3. \A q : Shows(q)' = Shows(q)
          BY <5>1 DEF Shows
        <5> QED BY <5>2, <5>3
      <4>4. ASSUME NEW q \in Listed, End(q) <= ofs' PROVE Shows(q)'
        <5>1. End(q) # ofs'
          BY <4>2 DEF Seams
        <5>2. End(q) <= ofs
          BY <2>1, <3>6, <4>1, <4>4, <5>1
        <5> QED BY <2>2, <4>3, <5>2
      <4>5. ASSUME NEW j \in DOMAIN shown PROVE shown[j] \in Listed /\ End(shown[j]) <= ofs'
        <5>1. shown[j] \in Listed /\ End(shown[j]) <= ofs
          BY <2>1, <2>2, <2>4
        <5> QED BY <2>1, <3>6, <4>1, <5>1
      <4>6. Reading'
        BY <1>1, <1>2, <3>5, <4>1, <4>2, <4>3, <4>4, <4>5 DEF Reading
      <4> QED BY <1>2, <1>3, <3>4, <4>6 DEF LInv, Finished
    <3> QED BY <3>7, <3>8
  <2>5. CASE ~ (ofs < Len(tail))
    <3>1. \A r \in Listed : End(r) <= ofs /\ Shows(r)
      <4>1. \A r \in Listed : End(r) \in Nat /\ End(r) <= Len(tail)
        BY ListedTypes
      <4> QED BY <2>1, <2>2, <2>5, <4>1
    <3>2. CASE ofs >= EndOfFile
      <4>1. rpc' \in {"done", "failed"} /\ shown' = shown
        BY <3>2 DEF ReadCell
      <4>2. Sorted' /\ \A q : Shows(q)' = Shows(q)
        <5>1. shown' = shown /\ Listed' = Listed
          BY <1>2, <4>1
        <5>2. Sorted'
          BY <2>2, <5>1 DEF Sorted
        <5>3. \A q : Shows(q)' = Shows(q)
          BY <5>1 DEF Shows
        <5> QED BY <5>2, <5>3
      <4> QED BY <1>2, <1>3, <2>2, <3>1, <4>1, <4>2 DEF LInv, Reading, Finished
    <3>3. CASE ~ (ofs >= EndOfFile) /\ ~ Expected(file[ofs + 1])
      <4>1. rpc' \in {"done", "failed"} /\ shown' = Append(shown, Garbled)
        BY <3>3 DEF ReadCell
      <4>2. Garbled \in 0..MaxRecords /\ Garbled \notin Listed
        BY Numbers DEF Garbled, Listed
      <4>3. Sorted' /\ \A q : Shows(q) => Shows(q)'
        BY <1>2, <2>1, <2>2, <4>1, <4>2, Lists
      <4> QED BY <1>2, <1>3, <3>1, <4>1, <4>3 DEF LInv, Reading, Finished
    <3>4. CASE ~ (ofs >= EndOfFile) /\ Expected(file[ofs + 1])
      <4>1. ofs + 1 \in (Base + 1)..Len(file)
        BY <2>1, <2>2, <3>4, Numbers DEF EndOfFile
      <4>2. PICK r \in Records : /\ Started(r) /\ begin[r] < ofs + 1 /\ ofs + 1 <= End(r)
                                 /\ file[ofs + 1] = Cell(r, ofs + 1 - begin[r])
        <5>1. PICK i \in (Base + 1)..Len(file) : i = ofs + 1
          BY <4>1
        <5>2. PICK x \in Records : /\ Started(x) /\ begin[x] < i /\ i <= End(x)
                                   /\ file[i] = Cell(x, i - begin[x])
          BY DEF LInv, FileInv, Shape
        <5>3. begin[x] \in Nat
          BY <5>2, StartedTypes
        <5>4. i - begin[x] = ofs + 1 - begin[x]
          BY <2>1, <5>1, <5>3
        <5> QED BY <5>1, <5>2, <5>4
      <4>3. /\ rpc' = "read" /\ ofs' = ofs + 1
            /\ shown' = IF ofs + 1 - begin[r] = size[r] THEN Append(shown, r) ELSE shown
        <5>1. file[ofs + 1][1] = r /\ file[ofs + 1][2] = ofs + 1 - begin[r]
          BY <4>2 DEF Cell
        <5> QED BY <3>4, <5>1 DEF ReadCell
      <4>4. Base <= ofs' /\ ~ (ofs' <= Len(tail))
        BY <2>1, <2>2, <2>5, <4>3, Numbers
      <4>5. Sorted' /\ \A q : Shows(q) => Shows(q)'
        <5>1. CASE ofs + 1 - begin[r] # size[r]
          <6>1. shown' = shown /\ Listed' = Listed
            BY <1>2, <4>3, <5>1
          <6>2. Sorted'
            BY <2>2, <6>1 DEF Sorted
          <6>3. \A q : Shows(q) => Shows(q)'
            BY <6>1 DEF Shows
          <6> QED BY <6>2, <6>3
        <5>2. CASE ofs + 1 - begin[r] = size[r]
          <6>1. r \notin Listed
            <7>1. begin[r] \in Nat /\ size[r] \in Nat /\ End(r) = begin[r] + size[r]
              BY <4>2, StartedTypes DEF End
            <7>2. End(r) = ofs + 1
              BY <2>1, <5>2, <7>1
            <7>3. ~ (End(r) <= ofs)
              BY <2>1, <7>2
            <7> QED BY <3>1, <7>3
          <6>2. r \in 0..MaxRecords /\ shown' = Append(shown, r)
            BY <4>3, <5>2 DEF Records
          <6> QED BY <1>2, <2>1, <2>2, <6>1, <6>2, Lists
        <5> QED BY <5>1, <5>2
      <4>6. Reading'
        BY <1>1, <1>2, <3>1, <4>4, <4>5 DEF Reading
      <4> QED BY <1>2, <1>3, <4>3, <4>6 DEF LInv, Finished
    <3> QED BY <3>2, <3>3, <3>4
  <2> QED BY <2>4, <2>5
<1> QED BY <1>4, <1>5

\* Every step keeps what the display relies on.
LEMMA NextList == IInv /\ LInv /\ [Next]_vars => LInv'
<1> SUFFICES ASSUME IInv, LInv, [Next]_vars PROVE LInv'
  OBVIOUS
<1>1. ASSUME NEW r \in Records, StartCapture(r) PROVE LInv'
  BY <1>1, StartList
<1>2. ASSUME NEW r \in Records, WriteCell(r) PROVE LInv'
  BY <1>2, WriteList
<1>3. ASSUME NEW r \in Records, Die(r) PROVE LInv'
  BY <1>3, DieList
<1>4. CASE OpenLog
  BY <1>4, OpenList
<1>5. CASE WalkBack
  BY <1>5, WalkList
<1>6. CASE ReadCell
  BY <1>6, ReadList
<1>7. CASE UNCHANGED vars
  <2>1. UNCHANGED <<fileVars, tail, rpc, ofs, next, astray, cur, shown>>
    BY <1>7 DEF vars, displayVars
  <2>2. FileInv' /\ Listed' = Listed
    BY <2>1, SameFile
  <2>3. \A r \in Listed : begin'[r] = begin[r] /\ size'[r] = size[r]
    BY <2>1 DEF fileVars
  <2> QED BY <2>1, <2>2, <2>3, DisplayWaits DEF LInv
<1> QED BY <1>1, <1>2, <1>3, <1>4, <1>5, <1>6, <1>7 DEF Next, Display

-----------------------------------------------------------------------------
\* A record has its first cell in what the display found exactly if it was
\* complete there.
LEMMA InTailListed ==
  ASSUME IInv, FileInv, tail # <<>>, NEW r
  PROVE  InTail(r) <=> r \in Listed
<1>1. ASSUME r \in Listed PROVE InTail(r)
  <2>1. /\ begin[r] \in Nat /\ size[r] \in Nat /\ size[r] > 0
        /\ End(r) = begin[r] + size[r] /\ End(r) <= Len(tail) /\ Len(tail) \in Nat
        /\ \A i \in (begin[r] + 1)..End(r) : tail[i] = Cell(r, i - begin[r])
    BY <1>1, ListedTypes
  <2>2. /\ begin[r] + 1 \in (begin[r] + 1)..End(r) /\ begin[r] + 1 - begin[r] = 1
        /\ begin[r] + 1 \in 1..Len(tail)
    BY <2>1
  <2>3. tail[begin[r] + 1] = Cell(r, 1) /\ begin[r] + 1 \in DOMAIN tail
    <3>1. DOMAIN tail = 1..Len(tail)
      BY DEF IInv, TypeOK
    <3> QED BY <2>1, <2>2, <3>1
  <2> QED BY <2>3 DEF InTail
<1>2. ASSUME InTail(r) PROVE r \in Listed
  <2>1. PICK i \in DOMAIN tail : tail[i] = Cell(r, 1)
    BY <1>2 DEF InTail
  <2>2. i \in 1..Len(tail) /\ Len(tail) \in Nat
    BY DEF IInv, TypeOK
  <2>3. CASE i <= Base
    <3>1. i \in 1..Base
      BY <2>2, <2>3, Numbers
    <3>2. file[i] = Archive /\ file[i] = tail[i]
      BY <2>2, <3>1 DEF FileInv, Shape, Kept
    <3> QED BY <2>1, <3>2, CellsDiffer DEF Archive
  <2>4. CASE ~ (i <= Base)
    <3>1. i \in (Base + 1)..Len(tail)
      BY <2>2, <2>4, Numbers
    <3>2. PICK q \in Listed : tail[i] = Cell(q, i - begin[q])
      BY <3>1, Covered
    <3> QED BY <2>1, <3>2, CellsDiffer
  <2> QED BY <2>3, <2>4
<1> QED BY <1>1, <1>2

\* A display that opened a file of nothing but complete records, shorter than
\* 2^32, lists each of them, oldest first and before anything else, whatever
\* happens behind them while it walks and reads (cmpsc311_capture.c:257-386).
THEOREM RecordsAreListed == Spec => []RecordsListed
<1>1. Init => LInv
  BY InitList
<1>2. IInv /\ LInv => RecordsListed
  <2> SUFFICES ASSUME IInv, LInv, rpc \in {"done", "failed"}, tail # <<>>
               PROVE  /\ \A r \in Records : InTail(r) => Shows(r)
                      /\ \A j, k \in DOMAIN shown :
                           j < k /\ InTail(shown[k]) =>
                             InTail(shown[j]) /\ shown[j] < shown[k]
    BY DEF RecordsListed, Shows
  <2>1. \A r : InTail(r) <=> r \in Listed
    BY InTailListed DEF LInv
  <2>2. (\A r \in Listed : Shows(r)) /\ Sorted
    BY DEF LInv, Finished
  <2> QED BY <2>1, <2>2 DEF Sorted
<1> QED BY <1>1, <1>2, NextList, Invariance, PTL DEF Spec
=============================================================================
