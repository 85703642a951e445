---------------------------- MODULE StreamProofs ----------------------------
(***************************************************************************)
(* Proofs about Stream, for every size of a byte, a word, a message and a  *)
(* socket's buffer, and any number of iterations and signals.              *)
(***************************************************************************)
EXTENDS Stream, TLAPS

-----------------------------------------------------------------------------
(***************************************************************************)
(* Values                                                                  *)
(***************************************************************************)

\* A random value lies between the bounds asked for.
LEMMA RandomInRange ==
  ASSUME NEW val \in 0..(Word - 1), NEW min \in Nat, NEW max \in Nat,
         min <= max, max - min + 1 < Word
  PROVE  getRandomValue(val, min, max) \in min..max
<1> DEFINE range == max - min + 1
<1>1. range \in Nat \ {0} /\ range % Word = range
  BY ValuesAssumption
<1>2. val % range \in 0..(range - 1)
  BY <1>1, ValuesAssumption
<1> QED BY <1>1, <1>2 DEF getRandomValue

\* So does a random byte when a word is no larger than a byte.
LEMMA RandomByte ==
  ASSUME NEW val \in 0..(Word - 1)
  PROVE  getRandomValue(val, 0, Byte - 1) \in 0..(Byte - 1)
<1>1. CASE Byte < Word
  BY <1>1, RandomInRange, ValuesAssumption
<1>2. CASE Byte = Word
  <2>1. (Byte - 1 - 0 + 1) % Word = 0
    BY <1>2, ValuesAssumption
  <2> QED BY <1>2, <2>1, ValuesAssumption DEF getRandomValue
<1> QED BY <1>1, <1>2, ValuesAssumption

\* What the test draws are messages.
LEMMA RandomIsMessage == RandomMessages \subseteq Messages
<1>1. \A v \in 0..(Word - 1) : getRandomValue(v, 1, MaxLen) \in 1..MaxLen
  BY RandomInRange, ValuesAssumption
<1> QED BY <1>1, RandomByte DEF RandomMessages, Messages

\* The two bytes of a length are bytes, and make up the length again.
LEMMA LengthBytes ==
  ASSUME NEW l \in 1..MaxLen
  PROVE  /\ l % Byte \in 0..(Byte - 1) /\ l \div Byte \in 0..(Byte - 1)
         /\ (l % Byte) + Byte * (l \div Byte) = l
<1>1. l \in Nat /\ Byte \in Nat \ {0} /\ l < Byte * Byte
  BY ValuesAssumption
<1>2. l % Byte \in 0..(Byte - 1) /\ l \div Byte \in Nat
  BY <1>1
<1>3. (l % Byte) + Byte * (l \div Byte) = l
  BY <1>1
<1>4. l \div Byte < Byte
  <2>1. SUFFICES ASSUME l \div Byte >= Byte PROVE FALSE
    BY <1>1, <1>2
  <2>2. Byte * (l \div Byte) >= Byte * Byte
    BY <1>1, <1>2, <2>1
  <2> QED BY <1>1, <1>2, <1>3, <2>2
<1> QED BY <1>1, <1>2, <1>3, <1>4

-----------------------------------------------------------------------------
(***************************************************************************)
(* Messages as bytes                                                       *)
(***************************************************************************)

\* The k-th byte of a message, the number of its bytes, and where a part of it
\* begins and how long it is.
EncByte(m, k) ==
  IF k = 1 THEN m.len % Byte ELSE IF k = 2 THEN m.len \div Byte ELSE m.ch

MsgLen(m) == 3 + m.len

Start(f) == IF f = "len" THEN 0 ELSE IF f = "ch" THEN 2 ELSE 3

PartLen(m, f) == IF f = "len" THEN 2 ELSE IF f = "ch" THEN 1 ELSE m.len

\* A sequence of copies of one character.
LEMMA Constant ==
  ASSUME NEW S, NEW c \in S, NEW l \in Nat
  PROVE  [k \in 1..l |-> c] \in Seq(S) /\ Len([k \in 1..l |-> c]) = l
OBVIOUS

\* A part of a message is its bytes, in their places in the message.
LEMMA PartType ==
  ASSUME NEW m \in Messages, NEW f \in Fields
  PROVE  /\ Part(m, f) \in Seq(0..(Byte - 1)) /\ Len(Part(m, f)) = PartLen(m, f)
         /\ \A k \in 1..PartLen(m, f) : Part(m, f)[k] = EncByte(m, Start(f) + k)
<1>1. /\ m.len \in 1..MaxLen /\ m.ch \in 0..(Byte - 1)
      /\ m.len % Byte \in 0..(Byte - 1) /\ m.len \div Byte \in 0..(Byte - 1)
  BY LengthBytes DEF Messages
<1>2. CASE f = "len"
  BY <1>1, <1>2 DEF Part, PartLen, EncByte, Start
<1>3. CASE f = "ch"
  BY <1>1, <1>3 DEF Part, PartLen, EncByte, Start
<1>4. CASE f = "buf"
  <2>1. /\ Part(m, f) = [k \in 1..m.len |-> m.ch] /\ m.len \in Nat
        /\ PartLen(m, f) = m.len /\ Start(f) = 3
    BY <1>1, <1>4, ValuesAssumption DEF Part, PartLen, Start
  <2>2. Part(m, f) \in Seq(0..(Byte - 1)) /\ Len(Part(m, f)) = m.len
    <3>1. /\ [k \in 1..m.len |-> m.ch] \in Seq(0..(Byte - 1))
          /\ Len([k \in 1..m.len |-> m.ch]) = m.len
      BY <1>1, <2>1, Constant, Zenon
    <3> QED BY <2>1, <3>1
  <2>3. \A k \in 1..m.len : EncByte(m, 3 + k) = m.ch
    BY <2>1 DEF EncByte
  <2> QED BY <2>1, <2>2, <2>3
<1> QED BY <1>2, <1>3, <1>4 DEF Fields

\* A message is its parts, one behind the other.
LEMMA PartsFit ==
  ASSUME NEW m \in Messages, NEW f \in Fields
  PROVE  /\ Start(f) \in Nat /\ PartLen(m, f) \in Nat \ {0} /\ MsgLen(m) \in Nat
         /\ f = "buf" => Start(f) + PartLen(m, f) = MsgLen(m)
         /\ f # "buf" => /\ NextField(f) \in Fields
                         /\ Start(f) + PartLen(m, f) = Start(NextField(f))
                         /\ Start(f) + PartLen(m, f) < MsgLen(m)
         /\ Start(f) = 0 => f = "len"
<1>1. m.len \in Nat /\ m.len >= 1
  BY ValuesAssumption DEF Messages
<1> QED BY <1>1 DEF Fields, Start, PartLen, MsgLen, NextField

\* A piece of a sequence of bytes, and one with a piece added to it.
LEMMA Pieces ==
  ASSUME NEW s \in Seq(0..(Byte - 1)), NEW a \in Nat, NEW b \in Nat,
         a <= b, b <= Len(s)
  PROVE  /\ SubSeq(s, a + 1, b) \in Seq(0..(Byte - 1)) /\ Len(SubSeq(s, a + 1, b)) = b - a
         /\ \A k \in 1..(b - a) : SubSeq(s, a + 1, b)[k] = s[a + k]
<1>1. Len(s) \in Nat /\ s \in [1..Len(s) -> 0..(Byte - 1)]
  <2>1. \A S : s \in Seq(S) => Len(s) \in Nat /\ s \in [1..Len(s) -> S]
    OBVIOUS
  <2> QED BY <2>1
<1>2. Len(SubSeq(s, a + 1, b)) = b - a
  BY <1>1
<1>3. \A k \in 1..(b - a) : SubSeq(s, a + 1, b)[k] = s[a + k]
  BY <1>1
<1>4. SubSeq(s, a + 1, b) \in Seq(0..(Byte - 1))
  BY <1>1
<1> QED BY <1>2, <1>3, <1>4

\* The elements of two sequences joined.
LEMMA Joined ==
  ASSUME NEW s \in Seq(0..(Byte - 1)), NEW r \in Seq(0..(Byte - 1))
  PROVE  /\ s \o r \in Seq(0..(Byte - 1)) /\ Len(s \o r) = Len(s) + Len(r)
         /\ Len(s) \in Nat /\ Len(r) \in Nat
         /\ \A k \in 1..Len(s) : (s \o r)[k] = s[k]
         /\ \A k \in 1..Len(r) : (s \o r)[Len(s) + k] = r[k]
<1>1. s \o r \in Seq(0..(Byte - 1)) /\ Len(s) \in Nat /\ Len(r) \in Nat
  <2>1. \A S : s \in Seq(S) /\ r \in Seq(S) => s \o r \in Seq(S)
    OBVIOUS
  <2> QED BY <2>1
<1>2. Len(s \o r) = Len(s) + Len(r)
  OBVIOUS
<1>3. \A k \in 1..Len(s) : (s \o r)[k] = s[k]
  OBVIOUS
<1>4. \A k \in 1..Len(r) : (s \o r)[Len(s) + k] = r[k]
  OBVIOUS
<1> QED BY <1>1, <1>2, <1>3, <1>4

-----------------------------------------------------------------------------
(***************************************************************************)
(* The invariant                                                           *)
(***************************************************************************)

\* What end q has written on the connection is the beginning of its message;
\* a message is sent when it is all of it, and only then is the end closed.
Sent(q) ==
  /\ Len(stream[q]) <= MsgLen(msg[q])
  /\ \A k \in 1..Len(stream[q]) : stream[q][k] = EncByte(msg[q], k)
  /\ outbox[q] = IF Len(stream[q]) = MsgLen(msg[q]) THEN <<msg[q]>> ELSE <<>>
  /\ taken[q] <= Len(stream[q])
  /\ closed[q] => Len(stream[q]) = MsgLen(msg[q])
  /\ pc[q] = "close" => Len(stream[q]) = MsgLen(msg[q])

\* How far a send has come.
Writing(q) == pc[q] = "write" =>
  /\ n[q] < PartLen(msg[q], field[q])
  /\ Len(stream[q]) = Start(field[q]) + n[q]

\* How far a read has come, and that what it has is what the other end wrote.
Reading(p) == pc[p] = "read" =>
  LET q == Peer(p)
  IN  /\ inbox[p] = <<>>
      /\ n[p] < PartLen(msg[q], field[p])
      /\ taken[q] = Start(field[p]) + n[p]
      /\ Len(buf[p]) = n[p]
      /\ \A k \in 1..n[p] : buf[p][k] = EncByte(msg[q], Start(field[p]) + k)
      /\ field[p] # "len" => len[p] = msg[q].len
      /\ field[p] = "buf" => ch[p] = msg[q].ch

\* Nothing has been read by end p, and nothing of a message is in its buffer.
NothingRead(p) == inbox[p] = <<>> /\ taken[Peer(p)] = 0 /\ buf[p] = <<>>

\* Where the two threads can be at the same time, and what the connection is
\* like before the main thread accepts it and before the client reads.
Stages ==
  /\ pc["main"] # "done" => i < Iterations
  /\ pc["main"] \in {"create", "waitRead", "accept", "write", "read", "close",
                     "join", "done", "failed"}
  /\ pc["client"] \in {"none", "connect", "write", "read", "close", "exited", "failed"}
  /\ pending =>
       /\ pc["main"] \in {"waitRead", "accept", "failed"}
       /\ NothingRead("main") /\ field["main"] = "len" /\ n["main"] = 0
       /\ stream["main"] = <<>>
  /\ pc["client"] = "connect" =>
       pc["main"] \in {"waitRead", "accept", "failed"} /\ ~ pending
  /\ pc["main"] = "create" => pc["client"] \in {"none", "exited", "failed"}
  /\ pc["main"] = "read" => stream["main"] = <<>>
  /\ pc["client"] = "write" => NothingRead("client")
  /\ pc["client"] \in {"read", "close"} => Len(stream["client"]) = MsgLen(msg["client"])

IInv ==
  /\ TypeOK /\ Stages /\ OnlySignalsFail
  /\ \A p \in Ends : Sent(p) /\ Writing(p) /\ Reading(p)

\* The variables of one end.
LEMMA MessageTypes ==
  ASSUME TypeOK, NEW p \in Ends
  PROVE  /\ msg[p] \in Messages /\ field[p] \in Fields /\ n[p] \in Nat
         /\ stream[p] \in Seq(0..(Byte - 1)) /\ Len(stream[p]) \in Nat
         /\ buf[p] \in Seq(0..(Byte - 1)) /\ taken[p] \in Nat
         /\ len[p] \in 0..MaxLen /\ ch[p] \in 0..(Byte - 1)
         /\ Peer(p) \in Ends /\ Peer(p) # p
         /\ MsgLen(msg[p]) \in Nat /\ MsgLen(msg[p]) > 3
<1>1. /\ msg[p] \in Messages /\ field[p] \in Fields /\ n[p] \in Nat
      /\ stream[p] \in Seq(0..(Byte - 1))
      /\ buf[p] \in Seq(0..(Byte - 1)) /\ taken[p] \in Nat
      /\ len[p] \in 0..MaxLen /\ ch[p] \in 0..(Byte - 1)
  BY DEF TypeOK, Places
<1>2. Peer(p) \in Ends /\ Peer(p) # p
  BY DEF Peer, Ends
<1>3. MsgLen(msg[p]) \in Nat /\ MsgLen(msg[p]) > 3
  BY <1>1, ValuesAssumption DEF Messages, MsgLen
<1> QED BY <1>1, <1>2, <1>3

\* The invariant holds before the client thread is created.
LEMMA InitInv == ASSUME Init PROVE IInv
<1> USE DEF Init, EveryEnd
<1>1. msg \in [Ends -> Messages]
  BY RandomIsMessage
<1>2. TypeOK
  <2>1. /\ field \in [Ends -> Fields] /\ n \in [Ends -> Nat]
        /\ buf \in [Ends -> Seq(0..(Byte - 1))] /\ len \in [Ends -> 0..MaxLen]
        /\ ch \in [Ends -> 0..(Byte - 1)]
    BY ValuesAssumption DEF Fields
  <2>2. /\ stream \in [Ends -> Seq(0..(Byte - 1))] /\ taken \in [Ends -> Nat]
        /\ signals \in Nat
    OBVIOUS
  <2>6. closed \in [Ends -> BOOLEAN] /\ pending \in BOOLEAN
    OBVIOUS
  <2>3. outbox \in [Ends -> Seq(Messages)] /\ inbox \in [Ends -> Seq(Messages)]
    OBVIOUS
  <2>4. i \in 0..Iterations
    BY CountsAssumption
  <2>5. pc \in [Ends -> {"create", "none"}]
    OBVIOUS
  <2> QED BY <1>1, <2>1, <2>2, <2>3, <2>4, <2>5, <2>6 DEF TypeOK, Places
<1>3. Stages
  BY CountsAssumption DEF Stages, Ends
<1>4. OnlySignalsFail
  BY DEF OnlySignalsFail
<1>5. ASSUME NEW p \in Ends PROVE Sent(p) /\ Writing(p) /\ Reading(p)
  <2>1. /\ stream[p] = <<>> /\ Len(stream[p]) = 0 /\ taken[p] = 0
        /\ outbox[p] = <<>> /\ closed[p] = FALSE
    OBVIOUS
  <2>2. pc[p] \in {"create", "none"}
    OBVIOUS
  <2> QED BY <1>2, <2>1, <2>2, MessageTypes DEF Sent, Writing, Reading
<1> QED BY <1>2, <1>3, <1>4, <1>5 DEF IInv

-----------------------------------------------------------------------------
(***************************************************************************)
(* Steps that move no data                                                 *)
(***************************************************************************)

\* Where a thread that neither writes, reads nor closes goes on to any of the
\* three nothing is claimed of its data before.
LEMMA DataKept ==
  ASSUME IInv, UNCHANGED <<endVars, stream, taken, outbox, inbox>>, NEW p \in Ends,
         pc'[p] \in {"write", "read", "close"} => pc'[p] = pc[p],
         closed'[p] = closed[p] \/ pc[p] = "close"
  PROVE  Sent(p)' /\ Writing(p)' /\ Reading(p)'
<1>1. Sent(p) /\ Writing(p) /\ Reading(p)
  BY DEF IInv
<1>2. Sent(p)'
  BY <1>1 DEF Sent, endVars
<1>3. Writing(p)'
  BY <1>1 DEF Writing, endVars
<1>4. Reading(p)'
  BY <1>1 DEF Reading, endVars
<1> QED BY <1>2, <1>3, <1>4

\* The creation of the client thread keeps the invariant.
LEMMA CreateStep == ASSUME IInv, CreateClient PROVE IInv'
<1> USE DEF IInv, CreateClient
<1>1. pc'["main"] = "waitRead" /\ pc'["client"] = "connect"
  BY DEF TypeOK, Places, Ends
<1>2. TypeOK'
  BY DEF TypeOK, Places, endVars, netVars, history
<1>3. Stages' /\ OnlySignalsFail'
  BY <1>1 DEF Stages, netVars, OnlySignalsFail, Ends
<1>4. ASSUME NEW p \in Ends PROVE Sent(p)' /\ Writing(p)' /\ Reading(p)'
  BY <1>1, <1>4, DataKept DEF netVars, history, Ends
<1> QED BY <1>2, <1>3, <1>4

\* cmpsc311_wait_read keeps the invariant.
LEMMA WaitStep == ASSUME IInv, WaitRead PROVE IInv'
<1> USE DEF IInv, WaitRead
<1>1. pc'["main"] = "accept" /\ pc'["client"] = pc["client"]
  BY DEF TypeOK, Places, Ends
<1>2. TypeOK'
  BY DEF TypeOK, Places, endVars, netVars, history
<1>3. Stages' /\ OnlySignalsFail'
  BY <1>1 DEF Stages, NothingRead, endVars, netVars, history, OnlySignalsFail, Ends
<1>4. ASSUME NEW p \in Ends PROVE Sent(p)' /\ Writing(p)' /\ Reading(p)'
  BY <1>1, <1>4, DataKept DEF netVars, history, Ends
<1> QED BY <1>2, <1>3, <1>4

\* What the connection was set up with is what the first read begins with.
LEMMA AcceptStep == ASSUME IInv, Accept PROVE IInv'
<1> USE DEF IInv, Accept
<1>1. pc'["main"] = "read" /\ pc'["client"] = pc["client"]
  BY DEF TypeOK, Places, Ends, After
<1>2. TypeOK'
  BY <1>1 DEF TypeOK, Places, endVars, history, Ends
<1>3. Stages' /\ OnlySignalsFail'
  BY <1>1 DEF Stages, NothingRead, endVars, history, OnlySignalsFail, Ends
<1>4. Sent("client")' /\ Writing("client")' /\ Reading("client")'
  BY <1>1, DataKept DEF history, Ends
<1>5. Sent("main")' /\ Writing("main")'
  BY <1>1 DEF Sent, Writing, endVars, history, Ends
<1>6. Reading("main")'
  <2>1. /\ inbox["main"] = <<>> /\ taken["client"] = 0 /\ buf["main"] = <<>>
        /\ field["main"] = "len" /\ n["main"] = 0 /\ Peer("main") = "client"
    BY DEF Stages, NothingRead, Peer
  <2>2. PartLen(msg["client"], "len") = 2 /\ Start("len") = 0
    BY DEF PartLen, Start
  <2> QED BY <2>1, <2>2 DEF Reading, endVars, history
<1> QED BY <1>2, <1>3, <1>4, <1>5, <1>6 DEF Ends

\* cmpsc311_close keeps the invariant.
LEMMA CloseStep == ASSUME IInv, NEW p \in Ends, Close(p) PROVE IInv'
<1> USE DEF IInv, Close
<1>1. /\ pc[p] = "close" /\ pc'[p] = IF p = "main" THEN "join" ELSE "exited"
      /\ \A q \in Ends \ {p} : pc'[q] = pc[q] /\ closed'[q] = closed[q]
  BY DEF TypeOK, Places
<1>2. TypeOK'
  BY DEF TypeOK, Places, endVars, history
<1>3. Stages' /\ OnlySignalsFail'
  BY <1>1 DEF Stages, NothingRead, endVars, history, OnlySignalsFail, Ends
<1>4. ASSUME NEW q \in Ends PROVE Sent(q)' /\ Writing(q)' /\ Reading(q)'
  <2>1. /\ pc'[q] \in {"write", "read", "close"} => pc'[q] = pc[q]
        /\ closed'[q] = closed[q] \/ pc[q] = "close"
    <3>1. CASE q = p
      <4>1. pc'[q] \notin {"write", "read", "close"} /\ pc[q] = "close"
        BY <1>1, <3>1
      <4> QED BY <4>1
    <3>2. CASE q # p
      BY <1>1, <1>4, <3>2
    <3> QED BY <3>1, <3>2
  <2> QED BY <1>4, <2>1, DataKept DEF history
<1> QED BY <1>2, <1>3, <1>4

\* The join, and a new iteration, keep the invariant.
LEMMA JoinStep == ASSUME IInv, Join PROVE IInv'
<1> USE DEF IInv, Join
<1>1. /\ pc[ "main"] = "join" /\ pc'["main"] \in {"create", "done"}
      /\ pc'["client"] = pc["client"] /\ pc["client"] \in {"exited", "failed"}
  BY DEF TypeOK, Places, Ends
<1>2. i' \in 0..Iterations /\ (pc'["main"] = "create" => i' < Iterations)
  BY <1>1, CountsAssumption DEF TypeOK, Places, Stages, Ends
<1>3. TypeOK'
  BY <1>2 DEF TypeOK, Places, endVars, netVars, history
<1>4. Stages' /\ OnlySignalsFail'
  BY <1>1, <1>2 DEF Stages, netVars, history, OnlySignalsFail, Ends
<1>5. ASSUME NEW p \in Ends PROVE Sent(p)' /\ Writing(p)' /\ Reading(p)'
  BY <1>1, <1>5, DataKept DEF netVars, history, Ends
<1> QED BY <1>3, <1>4, <1>5

\* A signal keeps the invariant.
LEMMA InterruptStep == ASSUME IInv, NEW p \in Ends, Interrupt(p) PROVE IInv'
<1> USE DEF IInv, Interrupt
<1>1. /\ pc'[p] = IF pc[p] = "waitRead" THEN "accept" ELSE "failed"
      /\ \A q \in Ends \ {p} : pc'[q] = pc[q]
      /\ signals \in Nat /\ signals' = signals + 1
  BY DEF TypeOK, Places
<1>2. TypeOK'
  BY SMTT(30), <1>1 DEF TypeOK, Places, endVars, netVars
<1>3. OnlySignalsFail'
  BY <1>1 DEF OnlySignalsFail
<1>4. Stages'
  <2>1. CASE p = "main"
    BY <1>1, <2>1 DEF Stages, NothingRead, endVars, netVars, Ends, Running
  <2>2. CASE p = "client"
    BY <1>1, <2>2 DEF Stages, NothingRead, endVars, netVars, Ends
  <2> QED BY <2>1, <2>2 DEF Ends
<1>5. ASSUME NEW q \in Ends PROVE Sent(q)' /\ Writing(q)' /\ Reading(q)'
  BY <1>1, <1>5, DataKept DEF netVars, Ends
<1> QED BY <1>2, <1>3, <1>4, <1>5

-----------------------------------------------------------------------------
(***************************************************************************)
(* Steps that move data                                                    *)
(***************************************************************************)

\* A new connection: nothing is written or read on it yet.
LEMMA ConnectStep == ASSUME IInv, Connect PROVE IInv'
<1> USE DEF IInv, Connect, EveryEnd
<1>1. /\ pc["client"] = "connect" /\ pc'["client"] = "write"
      /\ pc'["main"] = pc["main"] /\ pc["main"] \in {"waitRead", "accept"}
  BY DEF TypeOK, Places, Stages, Running, After, Ends
<1>2. msg' \in [Ends -> Messages]
  <2>1. PICK m \in RandomMessages : msg' = [msg EXCEPT !["client"] = m]
    OBVIOUS
  <2>2. m \in Messages
    BY RandomIsMessage
  <2> QED BY <2>1, <2>2 DEF TypeOK, Places
<1>3. TypeOK'
  <2>1. /\ field' \in [Ends -> Fields] /\ n' \in [Ends -> Nat]
        /\ buf' \in [Ends -> Seq(0..(Byte - 1))] /\ len' \in [Ends -> 0..MaxLen]
        /\ ch' \in [Ends -> 0..(Byte - 1)]
    BY ValuesAssumption DEF Fields
  <2>2. /\ stream' \in [Ends -> Seq(0..(Byte - 1))] /\ taken' \in [Ends -> Nat]
    OBVIOUS
  <2>3. closed' \in [Ends -> BOOLEAN] /\ pending' \in BOOLEAN
    OBVIOUS
  <2>4. outbox' \in [Ends -> Seq(Messages)] /\ inbox' \in [Ends -> Seq(Messages)]
    OBVIOUS
  <2>5. i' \in 0..Iterations /\ signals' \in Nat
    BY DEF TypeOK, Places
  <2>6. pc' \in [Ends -> Places]
    BY DEF TypeOK, Places, After, Places
  <2> QED BY <1>2, <2>1, <2>2, <2>3, <2>4, <2>5, <2>6 DEF TypeOK, Places
<1>4. \A p \in Ends : NothingRead(p)'
  BY DEF NothingRead, Peer, Ends
<1>5. Stages' /\ OnlySignalsFail'
  BY <1>1, <1>4 DEF Stages, OnlySignalsFail, Ends
<1>6. ASSUME NEW p \in Ends PROVE Sent(p)' /\ Writing(p)' /\ Reading(p)'
  <2>1. /\ stream'[p] = <<>> /\ Len(stream'[p]) = 0 /\ taken'[p] = 0
        /\ outbox'[p] = <<>> /\ closed'[p] = FALSE
        /\ n'[p] = 0 /\ field'[p] = "len"
    BY <1>6
  <2>2. msg'[p] \in Messages /\ MsgLen(msg'[p]) \in Nat /\ MsgLen(msg'[p]) > 3
    BY <1>2, <1>6, ValuesAssumption DEF MsgLen, Messages
  <2>3. pc'[p] # "read" /\ pc'[p] # "close"
    BY <1>1, <1>6 DEF Ends
  <2>4. Sent(p)'
    BY <2>1, <2>2, <2>3 DEF Sent
  <2>5. Writing(p)'
    BY <2>1 DEF Writing, PartLen, Start
  <2>6. Reading(p)'
    BY <2>3 DEF Reading
  <2> QED BY <2>4, <2>5, <2>6
<1> QED BY <1>3, <1>5, <1>6

\* What a write adds is the next piece of the message.
LEMMA PieceWritten ==
  ASSUME IInv, NEW p \in Ends, NEW k \in Nat, WriteSome(p, k)
  PROVE  /\ stream'[p] \in Seq(0..(Byte - 1))
         /\ Len(stream'[p]) = Start(field[p]) + n[p] + k
         /\ Len(stream[p]) <= Len(stream'[p])
         /\ \A j \in 1..Len(stream'[p]) : stream'[p][j] = EncByte(msg[p], j)
         /\ n[p] + k <= PartLen(msg[p], field[p])
         /\ \A q \in Ends \ {p} : stream'[q] = stream[q]
         /\ stream' \in [Ends -> Seq(0..(Byte - 1))]
<1> DEFINE part == Part(msg[p], field[p])
           piece == SubSeq(part, n[p] + 1, n[p] + k)
           s == stream[p]
<1>1. /\ msg[p] \in Messages /\ field[p] \in Fields /\ n[p] \in Nat
      /\ s \in Seq(0..(Byte - 1)) /\ Len(s) \in Nat
  BY MessageTypes DEF IInv
<1>2. /\ part \in Seq(0..(Byte - 1)) /\ Len(part) = PartLen(msg[p], field[p])
      /\ \A j \in 1..Len(part) : part[j] = EncByte(msg[p], Start(field[p]) + j)
      /\ Start(field[p]) \in Nat /\ Len(part) \in Nat
  BY <1>1, PartType, PartsFit
<1>3. /\ pc[p] = "write" /\ n[p] + k <= Len(part)
      /\ stream' = [stream EXCEPT ![p] = s \o piece]
  BY <1>1, <1>2 DEF WriteSome, Missing
<1>4. /\ piece \in Seq(0..(Byte - 1)) /\ Len(piece) = k
      /\ \A j \in 1..k : piece[j] = part[n[p] + j]
  <2> HIDE DEF part
  <2>1. /\ n[p] \in Nat /\ n[p] + k \in Nat /\ n[p] <= n[p] + k
        /\ n[p] + k <= Len(part) /\ (n[p] + k) - n[p] = k
    BY <1>1, <1>3
  <2>2. /\ piece \in Seq(0..(Byte - 1)) /\ Len(piece) = (n[p] + k) - n[p]
        /\ \A j \in 1..((n[p] + k) - n[p]) : piece[j] = part[n[p] + j]
    BY <1>2, <2>1, Pieces
  <2> QED BY <2>1, <2>2
<1>5. Len(s) = Start(field[p]) + n[p] /\ \A j \in 1..Len(s) : s[j] = EncByte(msg[p], j)
  BY <1>3 DEF IInv, Writing, Sent
<1>6. stream'[p] = s \o piece /\ \A q \in Ends \ {p} : stream'[q] = stream[q]
  BY <1>3 DEF IInv, TypeOK, Places
<1> HIDE DEF part, piece, s
<1>7. /\ s \o piece \in Seq(0..(Byte - 1)) /\ Len(s \o piece) = Len(s) + k
      /\ \A j \in 1..Len(s) : (s \o piece)[j] = s[j]
      /\ \A j \in 1..k : (s \o piece)[Len(s) + j] = piece[j]
  <2>1. /\ s \o piece \in Seq(0..(Byte - 1))
        /\ Len(s \o piece) = Len(s) + Len(piece)
        /\ \A j \in 1..Len(s) : (s \o piece)[j] = s[j]
        /\ \A j \in 1..Len(piece) : (s \o piece)[Len(s) + j] = piece[j]
    BY <1>1, <1>4, Joined
  <2> QED BY <1>4, <2>1
<1>8. \A j \in 1..(Len(s) + k) : (s \o piece)[j] = EncByte(msg[p], j)
  <2>1. SUFFICES ASSUME NEW j \in 1..(Len(s) + k)
                 PROVE  (s \o piece)[j] = EncByte(msg[p], j)
    OBVIOUS
  <2>2. CASE j <= Len(s)
    BY <1>1, <1>5, <1>7, <2>2
  <2>3. CASE j > Len(s)
    <3> DEFINE x == j - Len(s)
    <3>1. x \in 1..k /\ j = Len(s) + x /\ n[p] + x \in 1..Len(part)
      BY <1>1, <1>2, <1>3, <2>3
    <3> HIDE DEF x
    <3>2. /\ (s \o piece)[j] = part[n[p] + x]
          /\ part[n[p] + x] = EncByte(msg[p], Start(field[p]) + (n[p] + x))
      <4>1. (s \o piece)[Len(s) + x] = piece[x]
        BY <1>7, <3>1
      <4>2. piece[x] = part[n[p] + x]
        BY <1>4, <3>1
      <4>3. part[n[p] + x] = EncByte(msg[p], Start(field[p]) + (n[p] + x))
        BY <1>2, <3>1
      <4> QED BY <3>1, <4>1, <4>2, <4>3
    <3>3. Start(field[p]) + (n[p] + x) = j
      BY SMTT(30), <1>1, <1>2, <1>5, <3>1
    <3> QED BY <3>2, <3>3
  <2>4. j <= Len(s) \/ j > Len(s)
    BY <1>1
  <2> QED BY <2>2, <2>3, <2>4
<1>9. stream' \in [Ends -> Seq(0..(Byte - 1))]
  BY <1>3, <1>7 DEF IInv, TypeOK, Places
<1> QED BY SMTT(30), <1>1, <1>2, <1>3, <1>5, <1>6, <1>7, <1>8, <1>9 DEF s

\* The three ways a turn of the loop of cmpsc311_send_bytes ends: within a
\* part, with a part, with the message.
LEMMA WriteOutcome ==
  ASSUME IInv, NEW p \in Ends, NEW k \in Nat, WriteSome(p, k)
  PROVE  /\ pc[p] = "write" /\ outbox[p] = <<>>
         /\ UNCHANGED <<i, msg, buf, len, ch, pending, taken, closed, signals, inbox>>
         /\ \A q \in Ends \ {p} : /\ pc'[q] = pc[q] /\ field'[q] = field[q]
                                  /\ n'[q] = n[q] /\ outbox'[q] = outbox[q]
         /\ pc' \in [Ends -> Places] /\ field' \in [Ends -> Fields]
         /\ n' \in [Ends -> Nat] /\ outbox' \in [Ends -> Seq(Messages)]
         /\ \/ /\ n'[p] = n[p] + k /\ n[p] + k < PartLen(msg[p], field[p])
               /\ UNCHANGED <<pc, field, outbox>>
            \/ /\ n'[p] = 0 /\ n[p] + k = PartLen(msg[p], field[p])
               /\ field[p] # "buf" /\ field'[p] = NextField(field[p])
               /\ UNCHANGED <<pc, outbox>>
            \/ /\ n'[p] = 0 /\ n[p] + k = PartLen(msg[p], field[p])
               /\ field[p] = "buf" /\ field'[p] = "len"
               /\ pc'[p] = IF p = "main" THEN "close" ELSE "read"
               /\ outbox'[p] = <<msg[p]>>
<1>1. /\ msg[p] \in Messages /\ field[p] \in Fields /\ n[p] \in Nat
      /\ Len(Part(msg[p], field[p])) = PartLen(msg[p], field[p])
      /\ PartLen(msg[p], field[p]) \in Nat /\ Start(field[p]) \in Nat
  BY MessageTypes, PartType, PartsFit DEF IInv
<1>2. /\ pc[p] = "write" /\ n[p] + k <= PartLen(msg[p], field[p])
      /\ UNCHANGED <<i, msg, buf, len, ch, pending, taken, closed, signals, inbox>>
  BY <1>1, PieceWritten DEF WriteSome
<1>3. outbox[p] = <<>>
  <2>1. /\ Len(stream[p]) = Start(field[p]) + n[p]
        /\ n[p] < PartLen(msg[p], field[p])
        /\ outbox[p] = IF Len(stream[p]) = MsgLen(msg[p]) THEN <<msg[p]>> ELSE <<>>
    BY <1>2 DEF IInv, Writing, Sent
  <2> QED BY <1>1, <2>1, PartsFit
<1>4. /\ pc \in [Ends -> Places] /\ field \in [Ends -> Fields] /\ n \in [Ends -> Nat]
      /\ outbox \in [Ends -> Seq(Messages)]
  BY DEF IInv, TypeOK, Places
<1>5. CASE n[p] + k < PartLen(msg[p], field[p])
  <2>1. n' = [n EXCEPT ![p] = n[p] + k] /\ UNCHANGED <<pc, field, outbox>>
    BY <1>1, <1>5 DEF WriteSome
  <2>2. n' \in [Ends -> Nat]
    BY <1>1, <1>4, <2>1
  <2> QED BY <1>2, <1>3, <1>4, <1>5, <2>1, <2>2
<1>6. CASE n[p] + k = PartLen(msg[p], field[p]) /\ field[p] # "buf"
  <2>1. /\ n' = [n EXCEPT ![p] = 0] /\ UNCHANGED <<pc, outbox>>
        /\ field' = [field EXCEPT ![p] = NextField(@)]
    BY <1>1, <1>6 DEF WriteSome
  <2>2. n' \in [Ends -> Nat] /\ field' \in [Ends -> Fields]
    BY <1>1, <1>4, <1>6, <2>1, PartsFit
  <2> QED BY <1>2, <1>3, <1>4, <1>6, <2>1, <2>2
<1>7. CASE n[p] + k = PartLen(msg[p], field[p]) /\ field[p] = "buf"
  <2>1. /\ n' = [n EXCEPT ![p] = 0] /\ field' = [field EXCEPT ![p] = "len"]
        /\ pc' = [pc EXCEPT ![p] = After(p, @)]
        /\ outbox' = [outbox EXCEPT ![p] = Append(@, msg[p])]
    BY <1>1, <1>7 DEF WriteSome
  <2>2. pc'[p] = IF p = "main" THEN "close" ELSE "read"
    BY <1>2, <1>4, <2>1 DEF After
  <2>3. outbox'[p] = <<msg[p]>>
    BY <1>3, <1>4, <2>1
  <2>4. /\ pc' \in [Ends -> Places] /\ field' \in [Ends -> Fields]
        /\ n' \in [Ends -> Nat] /\ outbox' \in [Ends -> Seq(Messages)]
    <3>1. After(p, pc[p]) \in Places
      BY <1>2 DEF After, Places
    <3>2. Append(outbox[p], msg[p]) \in Seq(Messages)
      BY <1>1, <1>3
    <3> QED BY <1>4, <2>1, <3>1, <3>2 DEF Fields
  <2> QED BY <1>2, <1>3, <1>4, <1>7, <2>1, <2>2, <2>3, <2>4
<1> QED BY <1>1, <1>2, <1>5, <1>6, <1>7

\* A write() of cmpsc311_send_bytes keeps the invariant.
LEMMA WriteStep ==
  ASSUME IInv, NEW p \in Ends, NEW k \in Nat, WriteSome(p, k) PROVE IInv'
<1> DEFINE written == Len(stream'[p])
<1>1. /\ msg[p] \in Messages /\ field[p] \in Fields /\ n[p] \in Nat
      /\ PartLen(msg[p], field[p]) \in Nat /\ Start(field[p]) \in Nat
      /\ MsgLen(msg[p]) \in Nat
  BY MessageTypes, PartsFit DEF IInv
<1>2. /\ pc[p] = "write" /\ outbox[p] = <<>>
      /\ UNCHANGED <<i, msg, buf, len, ch, pending, taken, closed, signals, inbox>>
      /\ \A q \in Ends \ {p} : /\ pc'[q] = pc[q] /\ field'[q] = field[q]
                               /\ n'[q] = n[q] /\ outbox'[q] = outbox[q]
                               /\ stream'[q] = stream[q]
  BY WriteOutcome, PieceWritten
<1>3. /\ written = Start(field[p]) + n[p] + k /\ Len(stream[p]) <= written
      /\ n[p] + k <= PartLen(msg[p], field[p])
      /\ \A j \in 1..written : stream'[p][j] = EncByte(msg[p], j)
  BY PieceWritten
<1> HIDE DEF written
<1>4. /\ field'[p] \in Fields /\ n'[p] \in Nat /\ pc'[p] \in {"write", "close", "read"}
      /\ pc'[p] = "write" => /\ n'[p] < PartLen(msg[p], field'[p])
                             /\ written = Start(field'[p]) + n'[p]
                             /\ written < MsgLen(msg[p]) /\ outbox'[p] = <<>>
      /\ pc'[p] # "write" => /\ pc'[p] = IF p = "main" THEN "close" ELSE "read"
                             /\ n'[p] = 0 /\ field'[p] = "len"
                             /\ written = MsgLen(msg[p]) /\ outbox'[p] = <<msg[p]>>
  <2>1. CASE n'[p] = n[p] + k /\ n[p] + k < PartLen(msg[p], field[p])
             /\ UNCHANGED <<pc, field, outbox>>
    BY SMTT(30), <1>1, <1>2, <1>3, <2>1, PartsFit
  <2>2. CASE /\ n'[p] = 0 /\ n[p] + k = PartLen(msg[p], field[p])
             /\ field[p] # "buf" /\ field'[p] = NextField(field[p])
             /\ UNCHANGED <<pc, outbox>>
    <3>1. /\ field'[p] \in Fields /\ written = Start(field'[p])
          /\ written < MsgLen(msg[p])
      BY <1>1, <1>3, <2>2, PartsFit
    <3>2. PartLen(msg[p], field'[p]) \in Nat \ {0} /\ Start(field'[p]) \in Nat
      BY <1>1, <3>1, PartsFit
    <3> QED BY <1>2, <2>2, <3>1, <3>2
  <2>3. CASE /\ n'[p] = 0 /\ n[p] + k = PartLen(msg[p], field[p])
             /\ field[p] = "buf" /\ field'[p] = "len"
             /\ pc'[p] = IF p = "main" THEN "close" ELSE "read"
             /\ outbox'[p] = <<msg[p]>>
    <3>1. written = MsgLen(msg[p])
      BY <1>1, <1>3, <2>3, PartsFit
    <3> QED BY <2>3, <3>1 DEF Fields
  <2> QED BY <2>1, <2>2, <2>3, WriteOutcome
<1>5. TypeOK'
  BY <1>2, WriteOutcome, PieceWritten DEF IInv, TypeOK
<1>6. Stages' /\ OnlySignalsFail'
  <2>1. ~ (p = "main" /\ pending)
    BY <1>2 DEF IInv, Stages
  <2>2. CASE p = "main"
    BY <1>2, <1>4, <2>1, <2>2
       DEF IInv, Stages, NothingRead, OnlySignalsFail, Ends
  <2>3. CASE p = "client"
    BY <1>2, <1>4, <2>3
       DEF IInv, Stages, NothingRead, OnlySignalsFail, Ends, written
  <2> QED BY <2>2, <2>3 DEF Ends
<1>7. ASSUME NEW q \in Ends PROVE Sent(q)' /\ Writing(q)' /\ Reading(q)'
  <2>1. Sent(q) /\ Writing(q) /\ Reading(q)
    BY DEF IInv
  <2>2. CASE q # p
    <3>1. Sent(q)' /\ Writing(q)'
      BY <1>2, <2>1, <2>2 DEF Sent, Writing
    <3>2. Reading(q)'
      BY <1>2, <2>1, <2>2 DEF Reading
    <3> QED BY <3>1, <3>2
  <2>3. CASE q = p
    <3>1. Sent(p)'
      <4>1. /\ taken[p] <= Len(stream[p]) /\ taken[p] \in Nat /\ Len(stream[p]) \in Nat
            /\ closed[p] => Len(stream[p]) = MsgLen(msg[p])
            /\ Len(stream[p]) < MsgLen(msg[p])
        <5>1. /\ taken[p] \in Nat /\ Len(stream[p]) \in Nat
              /\ taken[p] <= Len(stream[p])
              /\ closed[p] => Len(stream[p]) = MsgLen(msg[p])
          BY <2>1, <2>3, MessageTypes DEF IInv, Sent
        <5>2. /\ n[p] < PartLen(msg[p], field[p])
              /\ Len(stream[p]) = Start(field[p]) + n[p]
          BY <1>2, <2>1, <2>3 DEF Writing
        <5>3. Start(field[p]) + PartLen(msg[p], field[p]) <= MsgLen(msg[p])
          BY <1>1, PartsFit
        <5> QED BY <1>1, <5>1, <5>2, <5>3
      <4>2. taken[p] <= written /\ written \in Nat /\ written <= MsgLen(msg[p])
        BY SMTT(30), <1>1, <1>3, <1>4, <4>1
      <4> QED BY <1>2, <1>3, <1>4, <4>1, <4>2 DEF Sent, written
    <3>2. Writing(p)'
      BY <1>2, <1>4 DEF Writing, written
    <3>3. Reading(p)'
      <4>1. CASE pc'[p] = "read"
        <5>1. p = "client" /\ NothingRead("client")
          BY <1>2, <1>4, <4>1 DEF IInv, Stages, Ends
        <5>2. /\ n'[p] = 0 /\ field'[p] = "len" /\ PartLen(msg[Peer(p)], "len") = 2
              /\ Start("len") = 0 /\ Len(buf[p]) = 0
          BY <1>4, <4>1, <5>1 DEF PartLen, Start, NothingRead
        <5> QED BY <1>2, <5>1, <5>2 DEF Reading, NothingRead
      <4> QED BY <4>1 DEF Reading
    <3> QED BY <2>3, <3>1, <3>2, <3>3
  <2> QED BY <2>2, <2>3
<1> QED BY <1>5, <1>6, <1>7 DEF IInv

\* What a read stores is the next piece of the message the other end sends.
LEMMA PieceRead ==
  ASSUME IInv, NEW p \in Ends, NEW k \in Nat, ReadSome(p, k),
         NEW q, q = Peer(p), NEW bytes,
         bytes = Stored(buf[p], n[p], SubSeq(stream[q], taken[q] + 1, taken[q] + k))
  PROVE  /\ PartLength(p) = PartLen(msg[q], field[p])
         /\ n[p] + k <= PartLength(p) /\ taken[q] + k <= Len(stream[q])
         /\ bytes \in Seq(0..(Byte - 1)) /\ Len(bytes) = n[p] + k
         /\ \A j \in 1..(n[p] + k) : bytes[j] = EncByte(msg[q], Start(field[p]) + j)
<1> DEFINE s == stream[q]
           from == taken[q]
           piece == SubSeq(s, from + 1, from + k)
           b == buf[p]
<1>1. /\ q \in Ends /\ msg[q] \in Messages /\ field[p] \in Fields /\ n[p] \in Nat
      /\ stream[q] \in Seq(0..(Byte - 1)) /\ Len(stream[q]) \in Nat
      /\ b \in Seq(0..(Byte - 1)) /\ taken[q] \in Nat /\ len[p] \in Nat
  BY MessageTypes DEF IInv
<1>2. /\ pc[p] = "read" /\ Sent(q) /\ Reading(p)
  BY <1>1 DEF IInv, ReadSome
<1>3. PartLength(p) = PartLen(msg[q], field[p])
  BY <1>1, <1>2 DEF PartLength, PartLen, Reading, Fields
<1>4. /\ Start(field[p]) \in Nat /\ PartLen(msg[q], field[p]) \in Nat
      /\ taken[q] = Start(field[p]) + n[p]
      /\ Len(b) = n[p] /\ \A j \in 1..n[p] : b[j] = EncByte(msg[q], Start(field[p]) + j)
      /\ \A j \in 1..Len(stream[q]) : stream[q][j] = EncByte(msg[q], j)
  BY <1>1, <1>2, PartsFit DEF Reading, Sent
<1>5. n[p] + k <= PartLength(p) /\ taken[q] + k <= Len(stream[q])
  <2>1. k <= Unread(q) /\ k <= Missing(PartLength(p), n[p])
    BY DEF ReadSome
  <2>2. k <= Len(stream[q]) - taken[q] /\ k <= PartLength(p) - n[p]
    BY <2>1 DEF Unread, Missing
  <2>3. /\ PartLength(p) \in Nat /\ n[p] \in Nat
        /\ Len(stream[q]) \in Nat /\ taken[q] \in Nat
    BY <1>1, <1>3, <1>4
  <2> QED BY <2>2, <2>3
<1>6. /\ piece \in Seq(0..(Byte - 1)) /\ Len(piece) = k
      /\ \A j \in 1..k : piece[j] = stream[q][taken[q] + j]
  <2>1. s \in Seq(0..(Byte - 1)) /\ from \in Nat /\ from + k <= Len(s)
    BY <1>1, <1>5
  <2> HIDE DEF s, from
  <2>2. /\ from + k \in Nat /\ from <= from + k /\ (from + k) - from = k
    BY <2>1
  <2>3. /\ piece \in Seq(0..(Byte - 1)) /\ Len(piece) = (from + k) - from
        /\ \A j \in 1..((from + k) - from) : piece[j] = s[from + j]
    BY <2>1, <2>2, Pieces
  <2>4. /\ piece \in Seq(0..(Byte - 1)) /\ Len(piece) = k
        /\ \A j \in 1..k : piece[j] = s[from + j]
    BY <2>2, <2>3
  <2> QED BY <2>4 DEF s, from
<1>7. SubSeq(b, 1, n[p]) = b
  BY <1>1, <1>4
<1>8. bytes = b \o piece
  BY <1>7 DEF Stored
<1> HIDE DEF piece, b
<1>9. /\ bytes \in Seq(0..(Byte - 1)) /\ Len(bytes) = n[p] + k
      /\ \A j \in 1..n[p] : bytes[j] = b[j]
      /\ \A j \in 1..k : bytes[n[p] + j] = piece[j]
  <2>1. /\ b \o piece \in Seq(0..(Byte - 1))
        /\ Len(b \o piece) = Len(b) + Len(piece)
        /\ \A j \in 1..Len(b) : (b \o piece)[j] = b[j]
        /\ \A j \in 1..Len(piece) : (b \o piece)[Len(b) + j] = piece[j]
    BY <1>1, <1>6, Joined
  <2> QED BY <1>4, <1>6, <1>8, <2>1
<1>10. ASSUME NEW j \in 1..(n[p] + k)
       PROVE  bytes[j] = EncByte(msg[q], Start(field[p]) + j)
  <2>1. CASE j <= n[p]
    BY SMTT(30), <1>1, <1>4, <1>9, <2>1
  <2>2. CASE j > n[p]
    <3> DEFINE x == j - n[p]
    <3>1. x \in 1..k /\ j = n[p] + x /\ taken[q] + x \in 1..Len(stream[q])
      <4>1. x \in 1..k /\ j = n[p] + x
        BY SMTT(30), <1>1, <2>2
      <4>2. /\ taken[q] \in Nat /\ Len(stream[q]) \in Nat
            /\ taken[q] + k <= Len(stream[q])
        BY <1>1, <1>5
      <4> QED BY SMTT(30), <4>1, <4>2
    <3>2. /\ bytes[j] = stream[q][taken[q] + x]
          /\ stream[q][taken[q] + x] = EncByte(msg[q], taken[q] + x)
      BY <1>4, <1>6, <1>9, <3>1
    <3>3. taken[q] + x = Start(field[p]) + j
      BY <1>1, <1>4, <3>1
    <3> QED BY <3>2, <3>3
  <2>3. j <= n[p] \/ j > n[p]
    BY <1>1
  <2> QED BY <2>1, <2>2, <2>3
<1> QED BY <1>3, <1>5, <1>9, <1>10

\* The values the parts of a message are read as are those of the message.
LEMMA PartRead ==
  ASSUME NEW m \in Messages, NEW f \in Fields, NEW bytes \in Seq(0..(Byte - 1)),
         Len(bytes) = PartLen(m, f),
         \A j \in 1..PartLen(m, f) : bytes[j] = EncByte(m, Start(f) + j)
  PROVE  /\ f = "len" => Value(bytes) = m.len
         /\ f = "ch" => bytes[1] = m.ch
         /\ f = "buf" => \A j \in 1..m.len : bytes[j] = m.ch
<1>1. m.len \in 1..MaxLen /\ m.len \in Nat
  BY ValuesAssumption DEF Messages
<1>2. CASE f = "len"
  <2>1. bytes[1] = m.len % Byte /\ bytes[2] = m.len \div Byte
    BY <1>2 DEF PartLen, Start, EncByte
  <2> QED BY <1>1, <1>2, <2>1, LengthBytes DEF Value
<1>3. CASE f = "ch"
  BY <1>3 DEF PartLen, Start, EncByte
<1>4. CASE f = "buf"
  BY <1>1, <1>4 DEF PartLen, Start, EncByte
<1> QED BY <1>2, <1>3, <1>4 DEF Fields

\* The ways a turn of the loop of cmpsc311_read_bytes ends: within a part, with
\* the length, with the character, with the message; never with a mismatch.
LEMMA ReadOutcome ==
  ASSUME IInv, NEW p \in Ends, NEW k \in Nat, ReadSome(p, k), NEW q, q = Peer(p)
  PROVE  /\ pc[p] = "read" /\ inbox[p] = <<>> /\ TypeOK'
         /\ UNCHANGED <<i, pending, stream, closed, signals, outbox>>
         /\ \A r \in Ends \ {p} :
              /\ pc'[r] = pc[r] /\ field'[r] = field[r] /\ n'[r] = n[r]
              /\ buf'[r] = buf[r] /\ len'[r] = len[r] /\ ch'[r] = ch[r]
              /\ inbox'[r] = inbox[r] /\ msg'[r] = msg[r]
         /\ taken'[q] = taken[q] + k /\ taken'[p] = taken[p]
         /\ taken[q] + k <= Len(stream[q])
         /\ taken[q] + k = Start(field[p]) + n[p] + k
         /\ \/ /\ n'[p] = n[p] + k /\ n[p] + k < PartLen(msg[q], field[p])
               /\ Len(buf'[p]) = n[p] + k
               /\ \A j \in 1..(n[p] + k) :
                    buf'[p][j] = EncByte(msg[q], Start(field[p]) + j)
               /\ UNCHANGED <<pc, field, msg, len, ch, inbox>>
            \/ /\ n'[p] = 0 /\ buf'[p] = <<>> /\ n[p] + k = PartLen(msg[q], field[p])
               /\ \/ /\ field[p] = "len" /\ field'[p] = "ch" /\ len'[p] = msg[q].len
                     /\ UNCHANGED <<pc, msg, inbox>>
                  \/ /\ field[p] = "ch" /\ field'[p] = "buf" /\ ch'[p] = msg[q].ch
                     /\ UNCHANGED <<pc, msg, len, inbox>>
                  \/ /\ field[p] = "buf" /\ field'[p] = "len"
                     /\ pc'[p] = (IF p = "main" THEN "write" ELSE "close")
                     /\ inbox'[p] = <<msg[q]>>
                     /\ inbox' = [inbox EXCEPT ![p] = Append(@, msg[q])]
                     /\ p = "client" => msg' = msg
<1> DEFINE bytes == Stored(buf[p], n[p], SubSeq(stream[q], taken[q] + 1, taken[q] + k))
<1>1. /\ q \in Ends /\ q # p /\ msg[q] \in Messages /\ field[p] \in Fields
      /\ n[p] \in Nat /\ taken[q] \in Nat /\ taken \in [Ends -> Nat]
      /\ PartLen(msg[q], field[p]) \in Nat /\ Start(field[p]) \in Nat
  <2>1. q \in Ends /\ q # p
    BY MessageTypes DEF IInv
  <2> QED BY <2>1, MessageTypes, PartsFit DEF IInv, TypeOK
<1>2. /\ PartLength(p) = PartLen(msg[q], field[p])
      /\ n[p] + k <= PartLength(p) /\ taken[q] + k <= Len(stream[q])
      /\ bytes \in Seq(0..(Byte - 1)) /\ Len(bytes) = n[p] + k
      /\ \A j \in 1..(n[p] + k) : bytes[j] = EncByte(msg[q], Start(field[p]) + j)
  BY PieceRead
<1>3. /\ pc[p] = "read" /\ Reading(p)
      /\ UNCHANGED <<i, pending, stream, closed, signals, outbox>>
      /\ taken' = [taken EXCEPT ![q] = @ + k]
  BY DEF ReadSome, IInv
<1>4. /\ taken'[q] = taken[q] + k /\ taken'[p] = taken[p]
      /\ taken' \in [Ends -> Nat]
      /\ taken[q] = Start(field[p]) + n[p] /\ inbox[p] = <<>>
  BY <1>1, <1>3 DEF Reading
<1>5. /\ pc \in [Ends -> Places] /\ field \in [Ends -> Fields] /\ n \in [Ends -> Nat]
      /\ msg \in [Ends -> Messages] /\ buf \in [Ends -> Seq(0..(Byte - 1))]
      /\ len \in [Ends -> 0..MaxLen] /\ ch \in [Ends -> 0..(Byte - 1)]
      /\ inbox \in [Ends -> Seq(Messages)]
  BY DEF IInv, TypeOK
<1>6. /\ i \in 0..Iterations /\ pending \in BOOLEAN /\ signals \in Nat
      /\ stream \in [Ends -> Seq(0..(Byte - 1))] /\ closed \in [Ends -> BOOLEAN]
      /\ outbox \in [Ends -> Seq(Messages)]
  BY DEF IInv, TypeOK
<1>7. msg[q].len \in 0..MaxLen /\ msg[q].ch \in 0..(Byte - 1) /\ msg[q].len \in Nat
  BY <1>1, ValuesAssumption DEF Messages
<1>8. CASE n[p] + k < PartLength(p)
  <2>1. /\ n' = [n EXCEPT ![p] = n[p] + k] /\ buf' = [buf EXCEPT ![p] = bytes]
        /\ UNCHANGED <<pc, field, msg, len, ch, inbox>>
    BY <1>8 DEF ReadSome
  <2> HIDE DEF bytes
  <2>2. n' \in [Ends -> Nat] /\ buf' \in [Ends -> Seq(0..(Byte - 1))]
    <3>1. n[p] + k \in Nat
      BY <1>1
    <3>2. n' \in [Ends -> Nat]
      BY <1>5, <2>1, <3>1
    <3>3. buf' \in [Ends -> Seq(0..(Byte - 1))]
      BY <1>2, <1>5, <2>1
    <3> QED BY <3>2, <3>3
  <2>3. TypeOK'
    BY <1>3, <1>4, <1>5, <1>6, <2>1, <2>2 DEF TypeOK
  <2>4. n'[p] = n[p] + k /\ buf'[p] = bytes
    BY <1>5, <2>1
  <2>5. \A r \in Ends \ {p} : n'[r] = n[r] /\ buf'[r] = buf[r]
    BY <1>5, <2>1
  <2> QED BY <1>1, <1>2, <1>3, <1>4, <1>8, <2>1, <2>3, <2>4, <2>5
<1>9. CASE n[p] + k = PartLength(p)
  <2>1. /\ n' = [n EXCEPT ![p] = 0] /\ buf' = [buf EXCEPT ![p] = <<>>]
    BY <1>1, <1>2, <1>9 DEF ReadSome
  <2>2. /\ n' \in [Ends -> Nat] /\ buf' \in [Ends -> Seq(0..(Byte - 1))]
        /\ n'[p] = 0 /\ buf'[p] = <<>>
        /\ \A r \in Ends \ {p} : n'[r] = n[r] /\ buf'[r] = buf[r]
    BY <1>5, <2>1
  <2>3. /\ field[p] = "len" => Value(bytes) = msg[q].len
        /\ field[p] = "ch" => bytes[1] = msg[q].ch
        /\ field[p] = "buf" => \A j \in 1..msg[q].len : bytes[j] = msg[q].ch
    <3>1. /\ bytes \in Seq(0..(Byte - 1)) /\ Len(bytes) = PartLen(msg[q], field[p])
          /\ \A j \in 1..PartLen(msg[q], field[p]) :
               bytes[j] = EncByte(msg[q], Start(field[p]) + j)
      BY <1>2, <1>9
    <3> HIDE DEF bytes
    <3> QED BY <1>1, <3>1, PartRead
  <2>4. CASE field[p] = "len"
    <3>1. /\ len' = [len EXCEPT ![p] = msg[q].len]
          /\ field' = [field EXCEPT ![p] = "ch"] /\ UNCHANGED <<pc, msg, ch, inbox>>
      BY <1>1, <1>2, <1>9, <2>3, <2>4 DEF ReadSome
    <3>2. len' \in [Ends -> 0..MaxLen] /\ field' \in [Ends -> Fields]
      BY <1>5, <1>7, <3>1 DEF Fields
    <3>3. TypeOK'
      BY <1>3, <1>4, <1>5, <1>6, <2>2, <3>1, <3>2 DEF TypeOK
    <3>4. /\ len'[p] = msg[q].len /\ field'[p] = "ch"
          /\ \A r \in Ends \ {p} : len'[r] = len[r] /\ field'[r] = field[r]
      BY <1>5, <3>1
    <3> HIDE DEF bytes
    <3> QED BY <1>1, <1>2, <1>3, <1>4, <1>9, <2>2, <2>4, <3>1, <3>3, <3>4
  <2>5. CASE field[p] = "ch"
    <3>1. /\ ch' = [ch EXCEPT ![p] = msg[q].ch]
          /\ field' = [field EXCEPT ![p] = "buf"] /\ UNCHANGED <<pc, msg, len, inbox>>
      BY <1>1, <1>2, <1>9, <2>3, <2>5 DEF ReadSome
    <3>2. ch' \in [Ends -> 0..(Byte - 1)] /\ field' \in [Ends -> Fields]
      BY <1>5, <1>7, <3>1 DEF Fields
    <3>3. TypeOK'
      BY <1>3, <1>4, <1>5, <1>6, <2>2, <3>1, <3>2 DEF TypeOK
    <3>4. /\ ch'[p] = msg[q].ch /\ field'[p] = "buf"
          /\ \A r \in Ends \ {p} : ch'[r] = ch[r] /\ field'[r] = field[r]
      BY <1>5, <3>1
    <3> HIDE DEF bytes
    <3> QED BY <1>1, <1>2, <1>3, <1>4, <1>9, <2>2, <2>5, <3>1, <3>3, <3>4
  <2>6. CASE field[p] = "buf"
    <3>1. len[p] = msg[q].len /\ ch[p] = msg[q].ch
      BY <1>3, <2>6 DEF Reading
    <3>2. [len |-> len[p], ch |-> ch[p]] = msg[q]
      BY <1>1, <3>1 DEF Messages
    <3>3. ~ \E j \in 1..len[p] : bytes[j] # ch[p]
      BY <2>3, <2>6, <3>1
    <3>4. /\ field' = [field EXCEPT ![p] = "len"]
          /\ inbox' = [inbox EXCEPT ![p] = Append(@, msg[q])]
          /\ pc' = [pc EXCEPT ![p] = After(p, @)]
          /\ msg' \in IF p = "main"
                        THEN {[msg EXCEPT ![p] = m] : m \in RandomMessages}
                        ELSE {msg}
          /\ UNCHANGED <<len, ch>>
      BY <1>1, <1>2, <1>9, <2>6, <3>2, <3>3 DEF ReadSome
    <3> HIDE DEF bytes
    <3>5. /\ msg' \in [Ends -> Messages] /\ (p = "client" => msg' = msg)
          /\ \A r \in Ends \ {p} : msg'[r] = msg[r]
      <4>1. CASE p = "main"
        <5>1. PICK m \in RandomMessages : msg' = [msg EXCEPT ![p] = m]
          BY <3>4, <4>1
        <5>2. m \in Messages
          BY RandomIsMessage
        <5> QED BY <1>5, <4>1, <5>1, <5>2
      <4>2. CASE p # "main"
        BY <1>5, <3>4, <4>2
      <4> QED BY <4>1, <4>2
    <3>6. /\ pc'[p] = (IF p = "main" THEN "write" ELSE "close")
          /\ pc' \in [Ends -> Places] /\ \A r \in Ends \ {p} : pc'[r] = pc[r]
      <4>1. After(p, pc[p]) = IF p = "main" THEN "write" ELSE "close"
        BY <1>3 DEF After
      <4> QED BY <1>5, <3>4, <4>1 DEF Places
    <3>7. /\ inbox'[p] = <<msg[q]>> /\ inbox' \in [Ends -> Seq(Messages)]
          /\ \A r \in Ends \ {p} : inbox'[r] = inbox[r]
      <4>1. Append(inbox[p], msg[q]) = <<msg[q]>> /\ <<msg[q]>> \in Seq(Messages)
        BY <1>1, <1>4
      <4> QED BY <1>5, <3>4, <4>1
    <3>8. /\ field' \in [Ends -> Fields] /\ field'[p] = "len"
          /\ \A r \in Ends \ {p} : field'[r] = field[r]
      BY <1>5, <3>4 DEF Fields
    <3>9. TypeOK'
      BY <1>3, <1>4, <1>5, <1>6, <2>2, <3>4, <3>5, <3>6, <3>7, <3>8 DEF TypeOK
    <3> QED BY <1>1, <1>2, <1>3, <1>4, <1>9, <2>2, <2>6,
               <3>4, <3>5, <3>6, <3>7, <3>8, <3>9
  <2> QED BY <1>1, <2>4, <2>5, <2>6 DEF Fields
<1> QED BY SMTT(30), <1>1, <1>2, <1>8, <1>9

\* A read() of cmpsc311_read_bytes keeps the invariant.
LEMMA ReadStep ==
  ASSUME IInv, NEW p \in Ends, NEW k \in Nat, ReadSome(p, k) PROVE IInv'
<1> DEFINE q == Peer(p)
<1>1. /\ q \in Ends /\ q # p /\ msg[q] \in Messages /\ field[p] \in Fields
      /\ n[p] \in Nat /\ PartLen(msg[q], field[p]) \in Nat
      /\ Start(field[p]) \in Nat /\ MsgLen(msg[q]) \in Nat
      /\ \A r \in Ends : r = p \/ r = q
      /\ Peer(q) = p
  <2>1. q \in Ends /\ q # p /\ Peer(q) = p /\ \A r \in Ends : r = p \/ r = q
    BY DEF Peer, Ends
  <2> QED BY <2>1, MessageTypes, PartsFit DEF IInv
<1>2. /\ pc[p] = "read" /\ inbox[p] = <<>> /\ TypeOK'
      /\ UNCHANGED <<i, pending, stream, closed, signals, outbox>>
      /\ taken'[q] = taken[q] + k /\ taken'[p] = taken[p]
      /\ taken[q] + k <= Len(stream[q])
      /\ taken[q] + k = Start(field[p]) + n[p] + k
      /\ pc'[q] = pc[q] /\ field'[q] = field[q] /\ n'[q] = n[q]
      /\ buf'[q] = buf[q] /\ len'[q] = len[q] /\ ch'[q] = ch[q]
      /\ inbox'[q] = inbox[q] /\ msg'[q] = msg[q]
  BY <1>1, ReadOutcome
<1>3. /\ Sent(p) /\ Sent(q) /\ Writing(q) /\ Reading(p) /\ Reading(q)
      /\ pc[p] = "read" /\ Stages /\ OnlySignalsFail /\ TypeOK
  BY <1>1, <1>2 DEF IInv
<1> DEFINE within == /\ n'[p] = n[p] + k /\ n[p] + k < PartLen(msg[q], field[p])
                     /\ Len(buf'[p]) = n[p] + k
                     /\ \A j \in 1..(n[p] + k) :
                          buf'[p][j] = EncByte(msg[q], Start(field[p]) + j)
                     /\ UNCHANGED <<pc, field, msg, len, ch, inbox>>
           gotPart == /\ n'[p] = 0 /\ buf'[p] = <<>>
                      /\ n[p] + k = PartLen(msg[q], field[p])
           gotLen == /\ field[p] = "len" /\ field'[p] = "ch" /\ len'[p] = msg[q].len
                     /\ UNCHANGED <<pc, msg, inbox>>
           gotCh == /\ field[p] = "ch" /\ field'[p] = "buf" /\ ch'[p] = msg[q].ch
                    /\ UNCHANGED <<pc, msg, len, inbox>>
           gotAll == /\ field[p] = "buf" /\ field'[p] = "len"
                     /\ pc'[p] = (IF p = "main" THEN "write" ELSE "close")
                     /\ p = "client" => msg' = msg
<1>4. within \/ (gotPart /\ (gotLen \/ gotCh \/ gotAll))
  BY ReadOutcome
<1>5. CASE within \/ (gotPart /\ (gotLen \/ gotCh))
  <2>1. UNCHANGED <<pc, msg, inbox>>
    BY <1>5
  <2>2. Reading(p)'
    <3>1. CASE within
      BY SMTT(30), <1>1, <1>2, <1>3, <3>1 DEF Reading
    <3>2. CASE gotPart /\ gotLen
      <4>1. /\ PartLen(msg[q], "len") = 2 /\ PartLen(msg[q], "ch") = 1
            /\ Start("len") = 0 /\ Start("ch") = 2 /\ Len(<<>>) = 0
        BY DEF PartLen, Start
      <4>2. taken'[q] = 2 /\ n[p] + k = 2
        BY <1>1, <1>2, <3>2, <4>1
      <4> QED BY <1>2, <2>1, <3>2, <4>1, <4>2 DEF Reading
    <3>3. CASE gotPart /\ gotCh
      <4>1. /\ PartLen(msg[q], "ch") = 1 /\ PartLen(msg[q], "buf") \in Nat \ {0}
            /\ Start("ch") = 2 /\ Start("buf") = 3 /\ Len(<<>>) = 0
        BY <1>1, PartsFit DEF PartLen, Start, Fields
      <4> QED BY <1>2, <1>3, <2>1, <3>3, <4>1 DEF Reading
    <3> QED BY <1>5, <3>1, <3>2, <3>3
  <2>3. Reading(q)' /\ Writing(q)' /\ Writing(p)'
    BY <1>1, <1>2, <1>3, <2>1 DEF Reading, Writing
  <2>4. Sent(q)' /\ Sent(p)'
    BY <1>1, <1>2, <1>3, <2>1 DEF Sent
  <2>5. Stages' /\ OnlySignalsFail'
    <3>1. CASE p = "main"
      BY <1>1, <1>2, <1>3, <2>1, <3>1
         DEF Stages, NothingRead, OnlySignalsFail, Peer
    <3>2. CASE p = "client"
      BY <1>1, <1>2, <1>3, <2>1, <3>2
         DEF Stages, NothingRead, OnlySignalsFail, Peer
    <3> QED BY <3>1, <3>2 DEF Ends
  <2> QED BY <1>1, <1>2, <2>2, <2>3, <2>4, <2>5 DEF IInv
<1>6. CASE gotPart /\ gotAll
  <2>1. Reading(p)' /\ (pc'[p] = "write" <=> p = "main")
    BY <1>6 DEF Reading
  <2>2. CASE p = "main"
    <3>1. /\ q = "client" /\ stream["main"] = <<>> /\ Len(stream["main"]) = 0
          /\ taken["main"] \in Nat /\ taken["main"] <= 0
          /\ outbox["main"] = <<>> /\ ~ closed["main"]
      <4>1. q = "client" /\ stream["main"] = <<>>
        BY <1>3, <2>2 DEF Stages, Peer
      <4>2. Len(stream["main"]) = 0
        BY <4>1
      <4>3. MsgLen(msg["main"]) > 3 /\ taken["main"] \in Nat
        BY <1>3, MessageTypes DEF Ends
      <4> QED BY <1>3, <2>2, <4>1, <4>2, <4>3 DEF Sent
    <3>2. msg'["main"] \in Messages /\ MsgLen(msg'["main"]) > 3
          /\ MsgLen(msg'["main"]) \in Nat
      <4>1. msg'["main"] \in Messages
        BY <1>2 DEF TypeOK, Ends
      <4> QED BY <4>1, ValuesAssumption DEF Messages, MsgLen
    <3>3. Sent("main")'
      <4>1. /\ stream'["main"] = <<>> /\ Len(stream'["main"]) = 0
            /\ outbox'["main"] = <<>> /\ ~ closed'["main"]
            /\ taken'["main"] <= 0 /\ pc'["main"] = "write"
        BY <1>2, <1>6, <2>2, <3>1
      <4>2. 0 <= MsgLen(msg'["main"]) /\ MsgLen(msg'["main"]) # 0
        BY <3>2
      <4> QED BY <4>1, <4>2 DEF Sent
    <3>4. Sent("client")'
      <4>1. /\ UNCHANGED <<stream, closed, outbox>> /\ msg'["client"] = msg["client"]
            /\ pc'["client"] = pc["client"] /\ Sent("client")
            /\ taken'["client"] <= Len(stream["client"])
        BY <1>2, <1>3, <3>1
      <4> QED BY <4>1 DEF Sent
    <3>5. Writing("main")'
      BY <1>2, <1>6, <2>2, <3>1 DEF Writing, PartLen, Start
    <3>6. Writing("client")'
      BY <1>2, <1>3, <3>1 DEF Writing
    <3>7. Reading("client")'
      <4>1. SUFFICES ASSUME pc["client"] = "read" PROVE Reading("client")'
        BY <1>2, <3>1 DEF Reading
      <4>2. /\ Peer("client") = "main" /\ field["client"] \in Fields
            /\ Start(field["client"]) \in Nat /\ n["client"] \in Nat
        BY <1>3, MessageTypes, PartsFit DEF Ends, Peer
      <4>3. /\ taken["main"] = Start(field["client"]) + n["client"]
            /\ Len(buf["client"]) = n["client"] /\ inbox["client"] = <<>>
        BY <1>3, <3>1, <4>1, <4>2 DEF Reading
      <4>4. /\ Start(field["client"]) = 0 /\ n["client"] = 0
            /\ field["client"] = "len" /\ taken["main"] = 0
        <5>1. Start(field["client"]) + n["client"] <= 0
          BY <3>1, <4>3
        <5>2. Start(field["client"]) = 0 /\ n["client"] = 0
          BY <4>2, <5>1
        <5>3. field["client"] = "len"
          BY <1>1, <4>2, <5>2, PartsFit
        <5> QED BY <4>3, <5>2, <5>3
      <4>5. PartLen(msg'["main"], "len") = 2 /\ Start("len") = 0
        BY DEF PartLen, Start
      <4>6. /\ inbox'["client"] = <<>> /\ n'["client"] = 0 /\ field'["client"] = "len"
            /\ buf'["client"] = buf["client"] /\ taken'["main"] = 0
        BY <1>2, <2>2, <3>1, <4>3, <4>4
      <4> QED BY <4>2, <4>3, <4>4, <4>5, <4>6 DEF Reading
    <3>8. Stages' /\ OnlySignalsFail'
      BY <1>2, <1>3, <1>6, <2>2, <3>1
         DEF Stages, NothingRead, OnlySignalsFail, Ends, Peer
    <3> QED BY <1>2, <2>1, <2>2, <3>3, <3>4, <3>5, <3>6, <3>7, <3>8 DEF IInv, Ends
  <2>3. CASE p = "client"
    <3>1. q = "main" /\ pc'["client"] = "close" /\ msg' = msg
      BY <1>6, <2>3 DEF Peer
    <3>2. Sent("main")' /\ Sent("client")'
      <4>1. /\ UNCHANGED <<stream, closed, outbox, msg>>
            /\ pc'["main"] = pc["main"] /\ Sent("main")
            /\ taken'["main"] <= Len(stream["main"])
        BY <1>2, <1>3, <2>3, <3>1
      <4>2. Sent("main")'
        BY <4>1 DEF Sent
      <4>3. /\ taken'["client"] = taken["client"] /\ Sent("client")
            /\ Len(stream["client"]) = MsgLen(msg["client"])
        BY <1>2, <1>3, <2>3 DEF Stages
      <4>4. Sent("client")'
        BY <4>1, <4>3 DEF Sent
      <4> QED BY <4>2, <4>4
    <3>3. Writing("main")' /\ Writing("client")' /\ Reading("main")'
      <4>1. Writing("main")'
        BY <1>2, <1>3, <2>3, <3>1 DEF Writing
      <4>2. Writing("client")'
        BY <1>2, <1>3, <2>3, <3>1 DEF Writing
      <4>3. Reading("main")'
        BY <1>2, <1>3, <2>3, <3>1 DEF Reading, Peer
      <4> QED BY <4>1, <4>2, <4>3
    <3>4. Stages' /\ OnlySignalsFail'
      BY <1>2, <1>3, <2>3, <3>1
         DEF Stages, NothingRead, OnlySignalsFail, Ends, Peer
    <3> QED BY <1>2, <2>1, <2>3, <3>2, <3>3, <3>4 DEF IInv, Ends
  <2> QED BY <2>2, <2>3 DEF Ends
<1> QED BY <1>4, <1>5, <1>6

\* No end reads from a connection that is closed and read to its end: the other
\* end closes behind its message, of which a reader still misses a part.
LEMMA NeverClosedEarly ==
  ASSUME IInv, NEW p \in Ends, pc[p] = "read", Unread(Peer(p)) = 0, closed[Peer(p)]
  PROVE  FALSE
<1> DEFINE q == Peer(p)
<1>1. /\ q \in Ends /\ msg[q] \in Messages /\ field[p] \in Fields
      /\ n[p] \in Nat /\ Len(stream[q]) \in Nat /\ taken[q] \in Nat
  BY MessageTypes DEF IInv
<1>2. /\ PartLen(msg[q], field[p]) \in Nat /\ Start(field[p]) \in Nat
      /\ Start(field[p]) + PartLen(msg[q], field[p]) <= MsgLen(msg[q])
      /\ MsgLen(msg[q]) \in Nat
  BY <1>1, PartsFit
<1>3. Len(stream[q]) = MsgLen(msg[q]) /\ Len(stream[q]) = taken[q]
  <2>1. Len(stream[q]) - taken[q] = 0 /\ Sent(q)
    BY <1>1 DEF Unread, IInv
  <2> QED BY <1>1, <2>1 DEF Sent
<1>4. taken[q] = Start(field[p]) + n[p] /\ n[p] < PartLen(msg[q], field[p])
  BY DEF IInv, Reading
<1> QED BY <1>1, <1>2, <1>3, <1>4

\* Every step keeps the invariant.
LEMMA NextInv == ASSUME IInv, [Next]_vars PROVE IInv'
<1>1. ASSUME NEW p \in Ends, Transfer(p) PROVE IInv'
  <2>1. \A k \in 1..(MaxLen + 2) : k \in Nat
    BY ValuesAssumption
  <2>2. ASSUME NEW k \in 1..(MaxLen + 2), WriteSome(p, k) PROVE IInv'
    BY <2>1, <2>2, WriteStep
  <2>3. ASSUME ReadCall(p) PROVE IInv'
    <3>1. PICK k \in 1..(MaxLen + 2) : ReadSome(p, k)
      BY <2>3, NeverClosedEarly DEF ReadCall
    <3> QED BY <2>1, <3>1, ReadStep
  <2>4. ASSUME Close(p) PROVE IInv'
    BY <2>4, CloseStep
  <2> QED BY <1>1, <2>2, <2>3, <2>4 DEF Transfer
<1>2. CASE Main
  BY <1>1, <1>2, CreateStep, WaitStep, AcceptStep, JoinStep DEF Main, Ends
<1>3. CASE Client
  BY <1>1, <1>3, ConnectStep DEF Client, Ends
<1>4. ASSUME NEW p \in Ends, Interrupt(p) PROVE IInv'
  BY <1>4, InterruptStep
<1>5. CASE UNCHANGED vars
  <2>1. UNCHANGED <<i, pc, field, n, msg, buf, len, ch, pending, stream, taken, closed,
                    signals, outbox, inbox>>
    BY <1>5 DEF vars, endVars, netVars, history
  <2>2. TypeOK' /\ Stages' /\ OnlySignalsFail'
    BY <2>1 DEF IInv, TypeOK, Stages, NothingRead, OnlySignalsFail
  <2>3. ASSUME NEW p \in Ends PROVE Sent(p)' /\ Writing(p)' /\ Reading(p)'
    BY <2>1, <2>3, DataKept DEF endVars
  <2> QED BY <2>2, <2>3 DEF IInv
<1> QED BY <1>2, <1>3, <1>4, <1>5 DEF Next

\* The invariant holds in every state the test can reach.
THEOREM Invariance == Spec => []IInv
<1>1. Init => IInv
  BY InitInv
<1>2. IInv /\ [Next]_vars => IInv'
  BY NextInv
<1> QED BY <1>1, <1>2, PTL DEF Spec

-----------------------------------------------------------------------------
\* The variables have the types of TypeOK: in particular the length a thread
\* reads never exceeds the buffer it reads the message to.
THEOREM TypeCorrect == Spec => []TypeOK
BY Invariance, PTL DEF IInv

\* A thread of the unit test fails only after a signal has interrupted a call:
\* it finds no connection closed that it still reads from, and no other
\* characters than were sent.
THEOREM FailuresAreInterrupts == Spec => []OnlySignalsFail
BY Invariance, PTL DEF IInv

\* Every step is a step of the channel of messages or leaves it alone.
LEMMA StepRefines ==
  ASSUME IInv, [Next]_vars PROVE [Channel!Next]_<<outbox, inbox>>
<1> USE DEF Channel!Next
<1>1. ASSUME NEW p \in Ends, NEW k \in Nat, WriteSome(p, k)
      PROVE  [Channel!Next]_<<outbox, inbox>>
  <2>1. /\ UNCHANGED inbox /\ msg[p] \in Messages
        /\ \/ UNCHANGED outbox
           \/ outbox' = [outbox EXCEPT ![p] = Append(@, msg[p])]
    BY <1>1, MessageTypes DEF WriteSome, IInv
  <2> QED BY <1>1, <2>1 DEF Channel!Send
<1>2. ASSUME NEW p \in Ends, NEW k \in Nat, ReadSome(p, k)
      PROVE  [Channel!Next]_<<outbox, inbox>>
  <2> DEFINE q == Peer(p)
  <2>1. q \in Ends /\ q # p /\ inbox[p] = <<>> /\ UNCHANGED outbox
    BY <1>2, MessageTypes, ReadOutcome DEF IInv
  <2>2. \/ UNCHANGED inbox
        \/ /\ inbox' = [inbox EXCEPT ![p] = Append(@, msg[q])]
           /\ field[p] = "buf" /\ n[p] + k = PartLen(msg[q], field[p])
    BY <1>2, ReadOutcome
  <2>3. CASE /\ inbox' = [inbox EXCEPT ![p] = Append(@, msg[q])]
             /\ field[p] = "buf" /\ n[p] + k = PartLen(msg[q], field[p])
    <3>1. /\ taken[q] + k <= Len(stream[q])
          /\ taken[q] + k = Start(field[p]) + n[p] + k
      BY <1>2, ReadOutcome
    <3>2. /\ msg[q] \in Messages /\ Sent(q) /\ n[p] \in Nat
          /\ Len(stream[q]) \in Nat /\ MsgLen(msg[q]) \in Nat
      BY <2>1, MessageTypes DEF IInv
    <3>3. /\ Start(field[p]) \in Nat
          /\ Start(field[p]) + PartLen(msg[q], field[p]) = MsgLen(msg[q])
      BY <2>3, <3>2, PartsFit DEF Fields
    <3>4. Len(stream[q]) = MsgLen(msg[q])
      BY <1>2, <2>3, <3>1, <3>2, <3>3 DEF Sent
    <3>5. outbox[q] = <<msg[q]>>
      BY <3>2, <3>4 DEF Sent
    <3>6. /\ Len(inbox[p]) < Len(outbox[q])
          /\ outbox[q][Len(inbox[p]) + 1] = msg[q]
      BY <2>1, <3>5
    <3>7. inbox' = [inbox EXCEPT ![p] = Append(@, outbox[q][Len(@) + 1])]
      BY <2>3, <3>6
    <3> QED BY <1>2, <2>1, <3>6, <3>7 DEF Channel!Receive
  <2> QED BY <2>1, <2>2, <2>3
<1>3. ASSUME NEW p \in Ends, Transfer(p) PROVE [Channel!Next]_<<outbox, inbox>>
  <2>1. \A k \in 1..(MaxLen + 2) : k \in Nat
    BY ValuesAssumption
  <2>2. CASE \E k \in 1..(MaxLen + 2) : WriteSome(p, k)
    BY <1>1, <2>1, <2>2
  <2>3. CASE ReadCall(p)
    <3>1. PICK k \in 1..(MaxLen + 2) : ReadSome(p, k)
      BY <2>3, NeverClosedEarly DEF ReadCall
    <3> QED BY <1>2, <2>1, <3>1
  <2>4. CASE Close(p)
    BY <2>4 DEF Close, history
  <2> QED BY <1>3, <2>2, <2>3, <2>4 DEF Transfer
<1>4. CASE Connect
  BY <1>4 DEF Connect, EveryEnd, Channel!Reconnect
<1>5. CASE CreateClient \/ WaitRead \/ Accept \/ Join \/ UNCHANGED vars
  BY <1>5 DEF CreateClient, WaitRead, Accept, Join, vars, history
<1>6. ASSUME NEW p \in Ends, Interrupt(p) PROVE [Channel!Next]_<<outbox, inbox>>
  BY <1>6 DEF Interrupt
<1> QED BY <1>3, <1>4, <1>5, <1>6 DEF Next, Main, Client, Ends

\* However the kernel cuts the stream, the loops of cmpsc311_send_bytes and
\* cmpsc311_read_bytes make a channel of it that delivers whole messages, in
\* order and unchanged.
THEOREM ChannelImplemented == Spec => ChannelSpec
<1>1. Init => Channel!Init
  BY DEF Init, EveryEnd, Channel!Init
<1>2. IInv /\ [Next]_vars => [Channel!Next]_<<outbox, inbox>>
  BY StepRefines
<1> QED BY <1>1, <1>2, Invariance, PTL DEF Spec, ChannelSpec, Channel!Spec

=============================================================================
