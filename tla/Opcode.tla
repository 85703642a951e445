------------------------------- MODULE Opcode -------------------------------
(***************************************************************************)
(* Opcodes packed from fields, lib/cmpsc311_opcode.c: a definition that    *)
(* gives every field its bits, and one opcode whose fields are set and     *)
(* read through it.                                                        *)
(*                                                                         *)
(* A word is the set of its bits that are 1, bit 0 the lowest.  A shift by *)
(* the whole width of the word is undefined in C: both the outcome of a    *)
(* masked shift count (1, what x86 yields) and 0 are possible.             *)
(***************************************************************************)
EXTENDS Integers, Sequences, FiniteSets

CONSTANTS
  W,         \* CMPSC311_OPCODE_BITWIDTH
  Ids,       \* field identifiers, numbers (bound)
  Names,     \* field names (bound)
  MaxFields  \* bound on nofields

ASSUME OpcodeAssumption ==
  /\ W \in Nat \ {0}
  /\ Ids \subseteq Nat
  /\ MaxFields \in Nat

VARIABLES
  status,      \* "none", "defined", or "aborted" after a stray free
  num_fields,
  fielddefs,   \* the fields assigned so far
  used_bits,
  op,          \* an opcode of the caller's
  value        \* what the caller last set each field to (history)

vars == <<status, num_fields, fielddefs, used_bits, op, value>>
definition == <<status, num_fields, fielddefs, used_bits>>
-----------------------------------------------------------------------------
Bits == 0..(W - 1)
Word == SUBSET Bits
FieldDef == [name : Names, fieldId : Ids, startBit : 0..W, width : 0..W]

assigned_fields == Len(fielddefs)
Fields == 1..assigned_fields

\* (1 << w) - 1
Ones(w) == IF w < W THEN {0..(w - 1)} ELSE {{}, Bits}

ShiftLeft(v, s)  == {b \in Bits : b - s \in v}
ShiftRight(v, s) == {b \in Bits : b + s \in v}

\* Mutant of ShiftIn: the old bits of the field are not masked out.
ShiftInOver(in, val, startbit, ones) ==
  in \cup (ShiftLeft(val, startbit) \cap ShiftLeft(ones, startbit))

\* Mutant of ShiftIn: everything lands one bit too low.
ShiftInLow(in, val, startbit, ones) ==
  LET mask == ShiftLeft(ones, startbit - 1) IN
  (in \ mask) \cup (ShiftLeft(val, startbit - 1) \cap mask)

ShiftIn(in, val, startbit, ones) ==
  LET mask == ShiftLeft(ones, startbit) IN
  (in \ mask) \cup (ShiftLeft(val, startbit) \cap mask)

ShiftOut(in, startbit, ones) == ShiftRight(in, startbit) \cap ones

\* The field a walk over the definitions meets first.
IsField(i, id) ==
  /\ i \in Fields /\ fielddefs[i].fieldId = id
  /\ \A j \in 1..(i - 1) : fielddefs[j].fieldId # id

\* The bits of field i.
Span(i) == fielddefs[i].startBit..(fielddefs[i].startBit + fielddefs[i].width - 1)
-----------------------------------------------------------------------------
Init ==
  /\ status = "none"
  /\ num_fields = 0
  /\ fielddefs = <<>>
  /\ used_bits = 0
  /\ op = {}
  /\ value = <<>>

\* The caller starts a new opcode with a new definition, as the self-test
\* does.
init_opcode_definition(n) ==
  /\ status = "none"
  /\ status' = "defined"
  /\ num_fields' = n
  /\ fielddefs' = <<>>
  /\ used_bits' = 0
  /\ op' = {}
  /\ value' = <<>>

\* Mutant of FieldFits: identifiers are not compared.
FieldFitsAnyId(name, id, w) ==
  /\ \A i \in Fields : fielddefs[i].name # name
  /\ used_bits + w <= W

FieldFits(name, id, w) ==
  /\ \A i \in Fields : fielddefs[i].name # name /\ fielddefs[i].fieldId # id
  /\ used_bits + w <= W

\* Fields are laid out from the top of the word down.  Callers assign no
\* more than the num_fields they asked for: the code does not test it.
add_opcode_field(name, id, w) ==
  /\ status = "defined"
  /\ assigned_fields < num_fields
  /\ FieldFits(name, id, w)
  /\ fielddefs' = Append(fielddefs,
       [name |-> name, fieldId |-> id,
        startBit |-> W - (used_bits + w), width |-> w])
  /\ used_bits' = used_bits + w
  /\ value' = Append(value, {})
  /\ UNCHANGED <<status, num_fields, op>>

\* A value that does not fit is refused and changes nothing.
set_opcode_field(id, val) ==
  /\ status = "defined"
  /\ \E i \in Fields :
       /\ IsField(i, id)
       /\ \E maxval \in Ones(fielddefs[i].width) : val \subseteq maxval
       /\ \E ones \in Ones(fielddefs[i].width) :
            op' = ShiftIn(op, val, fielddefs[i].startBit, ones)
       /\ value' = [value EXCEPT ![i] = val]
  /\ UNCHANGED definition

\* What get_opcode_field may return for field i.
get_opcode_field(i) ==
  {ShiftOut(op, fielddefs[i].startBit, ones) : ones \in Ones(fielddefs[i].width)}

\* The loop frees the name behind the last field assigned, once for each
\* field, instead of theirs.  When all are assigned it lies behind the array:
\* the free may stop the program.
release_opcode_definition ==
  /\ status = "defined"
  /\ \/ status' = "none"
     \/ assigned_fields = num_fields /\ status' = "aborted"
  /\ fielddefs' = <<>>
  /\ value' = <<>>
  /\ UNCHANGED <<num_fields, used_bits, op>>
-----------------------------------------------------------------------------
Next ==
  \/ \E n \in 1..MaxFields : init_opcode_definition(n)
  \/ \E name \in Names, id \in Ids, w \in 0..W : add_opcode_field(name, id, w)
  \/ \E id \in Ids, val \in Word : set_opcode_field(id, val)
  \/ release_opcode_definition

Spec == Init /\ [][Next]_vars
-----------------------------------------------------------------------------
(***************************************************************************)
(* Properties.                                                             *)
(***************************************************************************)
\* Every variable stays in its range; start bits and counts never leave the
\* word.
TypeOK ==
  /\ status \in {"none", "defined", "aborted"}
  /\ num_fields \in 0..MaxFields
  /\ fielddefs \in Seq(FieldDef)
  /\ used_bits \in 0..W
  /\ op \in Word
  /\ value \in Seq(Word) /\ Len(value) = Len(fielddefs)

\* Fields do not share bits, whatever widths were added and refused, and an
\* identifier stands for one field.
FieldsApart ==
  \A i, j \in Fields : i # j =>
    /\ Span(i) \cap Span(j) = {}
    /\ fielddefs[i].fieldId # fielddefs[j].fieldId
    /\ fielddefs[i].name # fielddefs[j].name

\* A field reads as what it was last set to, whatever was set in the other
\* fields meanwhile.  A field of the full width is left
\* out: its mask is undefined.
FieldsHold ==
  \A i \in Fields : fielddefs[i].width < W => get_opcode_field(i) = {value[i]}

\* Setting fields never touches a bit that belongs to no field.
OtherBitsKept ==
  status = "defined" => op \subseteq UNION {Span(i) : i \in Fields}
=============================================================================
