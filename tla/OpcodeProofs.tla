---------------------------- MODULE OpcodeProofs ----------------------------
(***************************************************************************)
(* Theorems about opcodes, for every width of the word, every definition   *)
(* and every sequence of calls.                                            *)
(***************************************************************************)
EXTENDS Opcode, TLAPS

\* Fields lie one below the other, from the top of the word down to the last
\* bit used.
Layout ==
  /\ \A i \in Fields :
       /\ W - used_bits <= fielddefs[i].startBit
       /\ fielddefs[i].startBit + fielddefs[i].width <= W
  /\ \A i, j \in Fields : i < j =>
       /\ fielddefs[j].startBit + fielddefs[j].width <= fielddefs[i].startBit
       /\ fielddefs[j].fieldId # fielddefs[i].fieldId
       /\ fielddefs[j].name # fielddefs[i].name

IInv == TypeOK /\ Layout /\ FieldsHold /\ OtherBitsKept

\* The numbers of a field that has been added.
LEMMA FieldTypes ==
  ASSUME TypeOK, NEW i \in Fields
  PROVE  /\ fielddefs[i] \in FieldDef
         /\ fielddefs[i].startBit \in 0..W /\ fielddefs[i].width \in 0..W
         /\ value[i] \in Word
<1>1. i \in 1..Len(fielddefs) /\ i \in 1..Len(value)
  BY DEF TypeOK, Fields, assigned_fields
<1>2. fielddefs[i] \in FieldDef
  BY <1>1 DEF TypeOK
<1>3. value[i] \in Word
  BY <1>1 DEF TypeOK
<1> QED
  BY <1>2, <1>3 DEF FieldDef

\* Whatever a shift by the width of the word yields, the mask of a field
\* reaches no further than the field.
LEMMA OnesInside ==
  ASSUME NEW w \in 0..W, NEW ones \in Ones(w)
  PROVE  ones \subseteq 0..(w - 1)
BY OpcodeAssumption DEF Ones, Bits

\* Reading a field back gives the value just set.
LEMMA RoundTrip ==
  ASSUME NEW in \in Word, NEW s \in 0..W, NEW w \in 0..W, s + w <= W,
         NEW val, val \subseteq 0..(w - 1)
  PROVE  ShiftOut(ShiftIn(in, val, s, 0..(w - 1)), s, 0..(w - 1)) = val
<1> DEFINE out == ShiftIn(in, val, s, 0..(w - 1))
<1>1. ASSUME NEW b \in 0..(w - 1)
      PROVE  b + s \in out <=> b \in val
  <2>1. b \in Int /\ b + s \in Bits /\ (b + s) - s = b
    BY OpcodeAssumption DEF Bits
  <2> QED
    BY <2>1 DEF ShiftIn, ShiftLeft
<1>2. \A b \in 0..(w - 1) : b \in Bits
  BY OpcodeAssumption DEF Bits
<1> HIDE DEF out
<1>3. ShiftOut(out, s, 0..(w - 1)) = val
  BY <1>1, <1>2 DEF ShiftOut, ShiftRight
<1> QED
  BY <1>3 DEF out

\* A set changes no bit outside its field.
LEMMA OutsideKept ==
  ASSUME NEW in \in Word, NEW s \in 0..W, NEW w \in 0..W, s + w <= W,
         NEW ones \in Ones(w), NEW val \in Word
  PROVE  /\ ShiftIn(in, val, s, ones) \in Word
         /\ \A b \in Bits : b \notin s..(s + w - 1) =>
              (b \in ShiftIn(in, val, s, ones) <=> b \in in)
<1>1. ones \subseteq 0..(w - 1)
  BY OnesInside
<1>2. ShiftLeft(ones, s) \subseteq s..(s + w - 1)
  BY <1>1, OpcodeAssumption DEF ShiftLeft, Bits
<1>3. ShiftIn(in, val, s, ones) \in Word
  BY DEF ShiftIn, ShiftLeft, Word
<1> QED
  BY <1>2, <1>3 DEF ShiftIn

\* A field reads the same as long as none of its bits changes.
LEMMA ReadUnchanged ==
  ASSUME NEW in \in Word, NEW out \in Word, NEW s \in 0..W, NEW w \in 0..W,
         \A b \in Bits : b \in s..(s + w - 1) => (b \in out <=> b \in in)
  PROVE  ShiftOut(out, s, 0..(w - 1)) = ShiftOut(in, s, 0..(w - 1))
<1>1. ASSUME NEW b \in 0..(w - 1) PROVE b + s \in out <=> b + s \in in
  <2>1. b + s \in s..(s + w - 1)
    BY OpcodeAssumption
  <2>2. CASE b + s \in Bits
    BY <2>1, <2>2
  <2>3. CASE b + s \notin Bits
    BY <2>3 DEF Word
  <2> QED
    BY <2>2, <2>3
<1> QED
  BY <1>1 DEF ShiftOut, ShiftRight

\* The invariant holds before the opcode is defined.
LEMMA OpcodeInit == Init => IInv
<1> SUFFICES ASSUME Init PROVE IInv
  OBVIOUS
<1>1. Fields = {}
  BY DEF Init, Fields, assigned_fields
<1>2. TypeOK
  BY OpcodeAssumption DEF Init, TypeOK, Word
<1> QED
  BY <1>1, <1>2 DEF Init, IInv, Layout, FieldsHold, OtherBitsKept

\* Without fields there is nothing to hold.
LEMMA NoFieldsKeep ==
  ASSUME TypeOK', fielddefs' = <<>>, status' = "defined" => op' = {}
  PROVE  IInv'
<1>1. Fields' = {}
  BY DEF Fields, assigned_fields
<1> QED
  BY <1>1 DEF IInv, Layout, FieldsHold, OtherBitsKept

\* add_opcode_field keeps the invariant.
LEMMA AddKeeps ==
  ASSUME IInv, NEW name \in Names, NEW id \in Ids, NEW w \in 0..W,
         add_opcode_field(name, id, w)
  PROVE  IInv'
<1> DEFINE f == [name |-> name, fieldId |-> id,
                 startBit |-> W - (used_bits + w), width |-> w]
           n == Len(fielddefs) + 1
<1>1. /\ W \in Nat \ {0} /\ used_bits \in 0..W /\ used_bits + w <= W
      /\ fielddefs \in Seq(FieldDef) /\ value \in Seq(Word)
      /\ Len(value) = Len(fielddefs)
  BY OpcodeAssumption DEF IInv, TypeOK, add_opcode_field, FieldFits
<1>2. /\ fielddefs' = Append(fielddefs, f) /\ used_bits' = used_bits + w
      /\ value' = Append(value, {}) /\ op' = op
      /\ status = "defined" /\ status' = "defined"
  BY DEF add_opcode_field
<1>3. f \in FieldDef /\ {} \in Word
  BY <1>1 DEF FieldDef, Word
<1>4. /\ fielddefs' \in Seq(FieldDef) /\ value' \in Seq(Word)
      /\ Len(fielddefs') = n /\ Len(value') = n /\ n \in Nat
  BY <1>1, <1>2, <1>3
<1>5. TypeOK'
  <2>1. used_bits' \in 0..W
    BY <1>1, <1>2
  <2> QED
    BY <1>1, <1>2, <1>4, <2>1 DEF add_opcode_field, IInv, TypeOK
<1>6. /\ Fields' = Fields \cup {n} /\ n \notin Fields
      /\ \A i \in Fields : i < n
      /\ fielddefs'[n] = f /\ value'[n] = {}
      /\ \A i \in Fields : fielddefs'[i] = fielddefs[i] /\ value'[i] = value[i]
  BY <1>1, <1>2, <1>4 DEF Fields, assigned_fields
<1>7. /\ f.startBit = W - (used_bits + w) /\ f.width = w
      /\ f.fieldId = id /\ f.name = name
  OBVIOUS
<1>8. \A i \in Fields : /\ fielddefs[i].startBit \in 0..W
                         /\ fielddefs[i].width \in 0..W
                         /\ fielddefs[i].fieldId # id
                         /\ fielddefs[i].name # name
  BY FieldTypes DEF IInv, add_opcode_field, FieldFits
<1> HIDE DEF f, n
<1>9. Layout'
  <2>1. ASSUME NEW i \in Fields'
        PROVE  /\ W - used_bits' <= fielddefs'[i].startBit
               /\ fielddefs'[i].startBit + fielddefs'[i].width <= W
    <3>1. CASE i = n
      <4>1. /\ fielddefs'[i].startBit = W - (used_bits + w)
            /\ fielddefs'[i].width = w
        BY <1>6, <1>7, <3>1
      <4> QED
        BY <1>1, <1>2, <4>1
    <3>2. CASE i \in Fields
      <4>1. /\ fielddefs'[i] = fielddefs[i]
            /\ fielddefs[i].startBit \in 0..W
        BY <1>6, <1>8, <3>2
      <4>2. /\ W - used_bits <= fielddefs[i].startBit
            /\ fielddefs[i].startBit + fielddefs[i].width <= W
        BY <3>2 DEF IInv, Layout
      <4> QED
        BY <1>1, <1>2, <4>1, <4>2
    <3> QED
      BY <1>6, <3>1, <3>2
  <2>2. ASSUME NEW i \in Fields', NEW j \in Fields', i < j
        PROVE  /\ fielddefs'[j].startBit + fielddefs'[j].width
                    <= fielddefs'[i].startBit
               /\ fielddefs'[j].fieldId # fielddefs'[i].fieldId
               /\ fielddefs'[j].name # fielddefs'[i].name
    <3>1. i \in Fields
      BY <1>4, <1>6, <2>2 DEF Fields, assigned_fields
    <3>2. CASE j = n
      <4>1. W - used_bits <= fielddefs[i].startBit
        BY <3>1 DEF IInv, Layout
      <4> QED
        BY <1>1, <1>6, <1>7, <1>8, <3>1, <3>2, <4>1
    <3>3. CASE j \in Fields
      BY <1>6, <2>2, <3>1, <3>3 DEF IInv, Layout
    <3> QED
      BY <1>6, <3>2, <3>3
  <2> QED
    BY <2>1, <2>2 DEF Layout
\* No bit of op lies below the bits used so far.
<1>10. \A b \in op : b \in Bits /\ W - used_bits <= b
  <2>1. ASSUME NEW b \in op PROVE W - used_bits <= b
    <3>1. PICK i \in Fields : b \in Span(i)
      BY <1>2 DEF IInv, OtherBitsKept
    <3>2. W - used_bits <= fielddefs[i].startBit
      BY DEF IInv, Layout
    <3> QED
      BY <1>1, <1>8, <3>1, <3>2 DEF Span
  <2> QED
    BY <2>1 DEF IInv, TypeOK, Word
<1>11. FieldsHold'
  <2>1. ASSUME NEW i \in Fields', fielddefs'[i].width < W
        PROVE  get_opcode_field(i)' = {value'[i]}
    <3>1. CASE i = n
      <4>1. ShiftOut(op, f.startBit, 0..(w - 1)) = {}
        BY <1>1, <1>7, <1>10 DEF ShiftOut, ShiftRight, Bits
      <4>2. get_opcode_field(i)' = {ShiftOut(op, f.startBit, 0..(w - 1))}
        BY <1>2, <1>6, <1>7, <2>1, <3>1 DEF get_opcode_field, Ones
      <4> QED
        BY <1>6, <3>1, <4>1, <4>2
    <3>2. CASE i \in Fields
      <4>1. /\ fielddefs'[i] = fielddefs[i] /\ value'[i] = value[i]
            /\ op' = op
        BY <1>2, <1>6, <3>2
      <4>2. get_opcode_field(i) = {value[i]}
        BY <2>1, <3>2, <4>1 DEF IInv, FieldsHold
      <4> QED
        BY <4>1, <4>2 DEF get_opcode_field
    <3> QED
      BY <1>6, <3>1, <3>2
  <2> QED
    BY <2>1 DEF FieldsHold
<1>12. OtherBitsKept'
  <2>1. \A i \in Fields : Span(i)' = Span(i)
    BY <1>6 DEF Span
  <2>2. op \subseteq UNION {Span(i) : i \in Fields}
    BY <1>2 DEF IInv, OtherBitsKept
  <2>3. \A b \in op' : \E i \in Fields' : b \in Span(i)'
    BY <1>2, <1>6, <2>1, <2>2
  <2> QED
    BY <2>3 DEF OtherBitsKept
<1> QED
  BY <1>5, <1>9, <1>11, <1>12 DEF IInv

\* Two fields share no bit.
LEMMA SpansApart ==
  ASSUME TypeOK, Layout, NEW i \in Fields, NEW j \in Fields, i # j
  PROVE  Span(i) \cap Span(j) = {}
<1>1. /\ fielddefs[i].startBit \in 0..W /\ fielddefs[i].width \in 0..W
      /\ fielddefs[j].startBit \in 0..W /\ fielddefs[j].width \in 0..W
      /\ i \in Int /\ j \in Int /\ W \in Nat
  BY FieldTypes, OpcodeAssumption DEF Fields
<1>2. \/ fielddefs[j].startBit + fielddefs[j].width <= fielddefs[i].startBit
      \/ fielddefs[i].startBit + fielddefs[i].width <= fielddefs[j].startBit
  BY <1>1 DEF Layout
<1> QED
  BY <1>1, <1>2 DEF Span

\* set_opcode_field keeps the invariant.
LEMMA SetKeeps ==
  ASSUME IInv, NEW id \in Ids, NEW val \in Word, set_opcode_field(id, val)
  PROVE  IInv'
<1>0. PICK i \in Fields :
        /\ \E maxval \in Ones(fielddefs[i].width) : val \subseteq maxval
        /\ \E ones \in Ones(fielddefs[i].width) :
             op' = ShiftIn(op, val, fielddefs[i].startBit, ones)
        /\ value' = [value EXCEPT ![i] = val]
  BY DEF set_opcode_field
<1>1. PICK maxval \in Ones(fielddefs[i].width),
           ones \in Ones(fielddefs[i].width) :
        /\ val \subseteq maxval
        /\ op' = ShiftIn(op, val, fielddefs[i].startBit, ones)
        /\ value' = [value EXCEPT ![i] = val]
  BY <1>0
<1>2. UNCHANGED definition
  BY DEF set_opcode_field
<1> DEFINE s == fielddefs[i].startBit
           w == fielddefs[i].width
<1>3. /\ s \in 0..W /\ w \in 0..W /\ s + w <= W /\ op \in Word
      /\ W \in Nat \ {0}
  BY FieldTypes, OpcodeAssumption DEF IInv, TypeOK, Layout
<1>4. Fields' = Fields /\ fielddefs' = fielddefs
  BY <1>2 DEF definition, Fields, assigned_fields
<1>5. /\ op' \in Word
      /\ \A b \in Bits : b \notin Span(i) => (b \in op' <=> b \in op)
  BY <1>1, <1>3, OutsideKept DEF Span
<1>6. /\ value' \in Seq(Word) /\ Len(value') = Len(fielddefs')
      /\ \A j \in Fields : j # i => value'[j] = value[j]
  BY <1>1, <1>4 DEF IInv, TypeOK, Fields, assigned_fields
<1>7. TypeOK'
  BY <1>2, <1>5, <1>6 DEF IInv, TypeOK, definition
<1>8. Layout'
  BY <1>2, <1>4 DEF IInv, Layout, definition
<1>9. FieldsHold'
  <2>1. ASSUME NEW j \in Fields, j # i, fielddefs[j].width < W
        PROVE  get_opcode_field(j)' = {value'[j]}
    <3> DEFINE s2 == fielddefs[j].startBit
               w2 == fielddefs[j].width
    <3>1. s2 \in 0..W /\ w2 \in 0..W /\ w2 < W
      BY <2>1, FieldTypes DEF IInv
    <3>2. \A b \in Bits : b \in s2..(s2 + w2 - 1) => (b \in op' <=> b \in op)
      BY <1>5, <2>1, SpansApart DEF IInv, Span
    <3>3. ShiftOut(op', s2, 0..(w2 - 1)) = ShiftOut(op, s2, 0..(w2 - 1))
      BY <1>3, <1>5, <3>1, <3>2, ReadUnchanged
    <3>4. /\ get_opcode_field(j) = {ShiftOut(op, s2, 0..(w2 - 1))}
          /\ get_opcode_field(j)' = {ShiftOut(op', s2, 0..(w2 - 1))}
      BY <1>4, <3>1 DEF get_opcode_field, Ones
    <3> QED
      BY <1>6, <2>1, <3>3, <3>4 DEF IInv, FieldsHold
  <2>2. ASSUME w < W PROVE get_opcode_field(i)' = {value'[i]}
    <3>1. ones = 0..(w - 1) /\ maxval = 0..(w - 1)
      BY <2>2 DEF Ones
    <3>2. get_opcode_field(i)' = {ShiftOut(op', s, 0..(w - 1))}
      BY <1>4, <2>2 DEF get_opcode_field, Ones
    <3>3. ShiftOut(op', s, 0..(w - 1)) = val
      BY <1>1, <1>3, <3>1, RoundTrip
    <3>4. value'[i] = val
      BY <1>1 DEF IInv, TypeOK, Fields, assigned_fields
    <3> QED
      BY <3>2, <3>3, <3>4
  <2> QED
    BY <1>4, <2>1, <2>2 DEF FieldsHold
<1>10. OtherBitsKept'
  <2>1. \A j \in Fields : Span(j)' = Span(j)
    BY <1>4 DEF Span
  <2>2. op \subseteq UNION {Span(j) : j \in Fields}
    BY DEF IInv, OtherBitsKept, set_opcode_field
  <2>3. \A b \in op' : \E j \in Fields' : b \in Span(j)'
    BY <1>3, <1>4, <1>5, <2>1, <2>2 DEF Word
  <2> QED
    BY <2>3 DEF OtherBitsKept
<1> QED
  BY <1>7, <1>8, <1>9, <1>10 DEF IInv

\* Every call keeps the invariant.
LEMMA OpcodeStep == IInv /\ [Next]_vars => IInv'
<1> SUFFICES ASSUME IInv, [Next]_vars PROVE IInv'
  OBVIOUS
<1>1. CASE UNCHANGED vars
  <2>1. UNCHANGED <<status, num_fields, fielddefs, used_bits, op, value>>
    BY <1>1 DEF vars
  <2>2. Fields' = Fields
    BY <2>1 DEF Fields, assigned_fields
  <2>3. TypeOK' /\ Layout'
    BY <2>1, <2>2 DEF IInv, TypeOK, Layout
  <2>4. FieldsHold' /\ OtherBitsKept'
    BY <2>1, <2>2 DEF IInv, FieldsHold, OtherBitsKept, get_opcode_field, Span
  <2> QED
    BY <2>3, <2>4 DEF IInv
<1>2. ASSUME NEW n \in 1..MaxFields, init_opcode_definition(n) PROVE IInv'
  <2>1. TypeOK'
    BY <1>2, OpcodeAssumption
    DEF init_opcode_definition, IInv, TypeOK, Word
  <2> QED
    BY <1>2, <2>1, NoFieldsKeep DEF init_opcode_definition
<1>3. ASSUME NEW name \in Names, NEW id \in Ids, NEW w \in 0..W,
             add_opcode_field(name, id, w)
      PROVE  IInv'
  BY <1>3, AddKeeps
<1>4. ASSUME NEW id \in Ids, NEW val \in Word, set_opcode_field(id, val)
      PROVE  IInv'
  BY <1>4, SetKeeps
<1>5. CASE release_opcode_definition
  <2>1. TypeOK'
    BY <1>5 DEF release_opcode_definition, IInv, TypeOK
  <2> QED
    BY <1>5, <2>1, NoFieldsKeep DEF release_opcode_definition
<1> QED
  BY <1>1, <1>2, <1>3, <1>4, <1>5 DEF Next

\* The invariant holds throughout.
THEOREM Invariance == Spec => []IInv
<1> QED
  BY OpcodeInit, OpcodeStep, PTL DEF Spec

\* Type correctness: start bits, widths and counts stay within the word.
THEOREM TypeCorrect == Spec => []TypeOK
<1>1. IInv => TypeOK
  BY DEF IInv
<1> QED
  BY <1>1, Invariance, PTL

\* No two fields of a definition share a bit, an identifier or a name.
THEOREM FieldsNeverOverlap == Spec => []FieldsApart
<1>1. IInv => FieldsApart
  <2> SUFFICES ASSUME IInv, NEW i \in Fields, NEW j \in Fields, i # j
               PROVE  /\ Span(i) \cap Span(j) = {}
                      /\ fielddefs[i].fieldId # fielddefs[j].fieldId
                      /\ fielddefs[i].name # fielddefs[j].name
    BY DEF FieldsApart
  <2>1. i < j \/ j < i
    BY DEF Fields
  <2> QED
    BY <2>1, SpansApart DEF IInv, Layout
<1> QED
  BY <1>1, Invariance, PTL

\* A field narrower than the word reads as what it was last set to.
THEOREM FieldsReadBack == Spec => []FieldsHold
<1>1. IInv => FieldsHold
  BY DEF IInv
<1> QED
  BY <1>1, Invariance, PTL

\* Bits that belong to no field stay as they are.
THEOREM OtherBitsStay == Spec => []OtherBitsKept
<1>1. IInv => OtherBitsKept
  BY DEF IInv
<1> QED
  BY <1>1, Invariance, PTL
=============================================================================
