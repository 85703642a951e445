------------------------------- MODULE Stream -------------------------------
(***************************************************************************)
(* The TCP helpers as their unit test uses them: in every iteration the    *)
(* main thread starts a client thread, which connects and sends a message  *)
(* and reads one, while the main thread reads that message and sends its   *)
(* own.  (lib/cmpsc311_network.c, getRandomValue in lib/cmpsc311_util.c)   *)
(*                                                                         *)
(* The socket takes and gives any number of bytes per call.  A message is  *)
(* two bytes of length, low byte first, a character, and as many copies of *)
(* it.                                                                     *)
(***************************************************************************)
EXTENDS Integers, Sequences

CONSTANTS
  Byte,         \* values of a byte (256)
  Word,         \* values of a uint32_t (2^32)
  MaxLen,       \* CMPSC311_NETWORK_UNIT_TEST_MAX_MSG_SIZE (4096)
  Iterations,   \* CMPSC311_NETWORK_ITERATIONS (100)
  Buffer,       \* bytes a socket holds
  MaxSignals    \* bound: signals that interrupt a call

ASSUME ValuesAssumption ==
  /\ Byte \in Nat \ {0} /\ Word \in Nat /\ Byte <= Word
  /\ MaxLen \in Nat \ {0} /\ MaxLen < Byte * Byte /\ MaxLen < Word

ASSUME CountsAssumption ==
  Iterations \in Nat \ {0} /\ Buffer \in Nat \ {0} /\ MaxSignals \in Nat

VARIABLES
  i,            \* main: iterations done
  pc,           \* per end: where it is
  field,        \* per end: the part of a message it sends or reads
  n,            \* per end: sentBytes or readBytes
  msg,          \* per end: the message it sends
  buf,          \* per end: the part it reads, as far as it has come
  len,          \* per end: len, as read
  ch,           \* per end: ch, as read
  pending,      \* kernel: a connection waits for accept
  stream,       \* kernel: per end the bytes it has written
  taken,        \* kernel: per end how many of these the other end has read
  closed,       \* kernel: per end that it has closed its socket
  signals,      \* signals that have interrupted a call
  outbox,       \* history: per end the messages sent on this connection
  inbox         \* history: per end the messages read on it

endVars == <<field, n, msg, buf, len, ch>>
netVars == <<pending, stream, taken, closed>>
history == <<signals, outbox, inbox>>
vars == <<i, pc, endVars, netVars, history>>

Ends == {"main", "client"}
Peer(p) == IF p = "main" THEN "client" ELSE "main"

Messages == [len : 1..MaxLen, ch : 0..(Byte - 1)]

\* val is the random word; a range of length 0 is that of all words.
getRandomValue(val, min, max) ==
  LET range_length == (max - min + 1) % Word
  IN  IF range_length # 0 THEN (val % range_length) + min ELSE val

RandomMessages ==
  {[len |-> getRandomValue(v, 1, MaxLen), ch |-> getRandomValue(w, 0, Byte - 1)] :
     v, w \in 0..(Word - 1)}

-----------------------------------------------------------------------------
(***************************************************************************)
(* Iterations                                                              *)
(***************************************************************************)

EveryEnd(v) == [p \in Ends |-> v]

Init ==
  /\ i = 0
  /\ pc = [p \in Ends |-> IF p = "main" THEN "create" ELSE "none"]
  /\ field = EveryEnd("len") /\ n = EveryEnd(0) /\ buf = EveryEnd(<<>>)
  /\ msg \in [Ends -> RandomMessages]
  /\ len = EveryEnd(0) /\ ch = EveryEnd(0)
  /\ pending = FALSE /\ stream = EveryEnd(<<>>)
  /\ taken = EveryEnd(0) /\ closed = EveryEnd(FALSE)
  /\ signals = 0 /\ outbox = EveryEnd(<<>>) /\ inbox = EveryEnd(<<>>)

\* Mutant of After: the main thread sends first, too.
BothSendFirst(p, step) ==
  CASE step = "write" -> "read"
    [] step = "read" -> "close"
    [] OTHER -> "write"

\* Mutant of After: the main thread closes without an answer.
NoAnswer(p, step) ==
  CASE step = "write" -> IF p = "main" THEN "close" ELSE "read"
    [] step = "read" -> "close"
    [] OTHER -> IF p = "main" THEN "read" ELSE "write"

\* What the two threads do with a connection, in this order.
After(p, step) ==
  CASE step = "write" -> IF p = "main" THEN "close" ELSE "read"
    [] step = "read" -> IF p = "main" THEN "write" ELSE "close"
    [] OTHER -> IF p = "main" THEN "read" ELSE "write"

Running == pc["main"] \notin {"done", "failed"}

\* pthread_create.
CreateClient ==
  /\ pc["main"] = "create"
  /\ pc' = [pc EXCEPT !["main"] = "waitRead", !["client"] = "connect"]
  /\ UNCHANGED <<i, endVars, netVars, history>>

\* cmpsc311_client_connect succeeds before anybody accepts.
Connect ==
  /\ Running /\ pc["client"] = "connect"
  /\ pc' = [pc EXCEPT !["client"] = After("client", @)]
  /\ msg' \in {[msg EXCEPT !["client"] = m] : m \in RandomMessages}
  /\ field' = EveryEnd("len") /\ n' = EveryEnd(0) /\ buf' = EveryEnd(<<>>)
  /\ len' = EveryEnd(0) /\ ch' = EveryEnd(0)
  /\ pending' = TRUE /\ stream' = EveryEnd(<<>>)
  /\ taken' = EveryEnd(0) /\ closed' = EveryEnd(FALSE)
  /\ outbox' = EveryEnd(<<>>) /\ inbox' = EveryEnd(<<>>)
  /\ UNCHANGED <<i, signals>>

\* cmpsc311_wait_read, then cmpsc311_accept_connection.
WaitRead ==
  /\ pc["main"] = "waitRead" /\ pending
  /\ pc' = [pc EXCEPT !["main"] = "accept"]
  /\ UNCHANGED <<i, endVars, netVars, history>>

Accept ==
  /\ pc["main"] = "accept" /\ pending
  /\ pc' = [pc EXCEPT !["main"] = After("main", @)]
  /\ pending' = FALSE
  /\ UNCHANGED <<i, endVars, stream, taken, closed, history>>

\* cmpsc311_close; the client thread ends with it.
Close(p) ==
  /\ Running /\ pc[p] = "close"
  /\ closed' = [closed EXCEPT ![p] = TRUE]
  /\ pc' = [pc EXCEPT ![p] = IF p = "main" THEN "join" ELSE "exited"]
  /\ UNCHANGED <<i, endVars, pending, stream, taken, history>>

\* pthread_join and the head of the for loop.
Join ==
  /\ pc["main"] = "join" /\ pc["client"] \in {"exited", "failed"}
  /\ i' = i + 1
  /\ pc' = [pc EXCEPT !["main"] = IF i' < Iterations THEN "create" ELSE "done"]
  /\ UNCHANGED <<endVars, netVars, history>>

-----------------------------------------------------------------------------
(***************************************************************************)
(* cmpsc311NetworkUnitSend over cmpsc311_send_bytes                        *)
(***************************************************************************)

Part(m, f) ==
  CASE f = "len" -> <<m.len % Byte, m.len \div Byte>>
    [] f = "ch" -> <<m.ch>>
    [] f = "buf" -> [k \in 1..m.len |-> m.ch]

NextField(f) == IF f = "len" THEN "ch" ELSE "buf"

\* Bytes of p the other end has not read yet, and room for more.
Unread(p) == Len(stream[p]) - taken[p]
Room(p) == Buffer - Unread(p)

\* What send_bytes and read_bytes ask the kernel for.
Missing(length, done) == length - done

\* One turn of the loop of cmpsc311_send_bytes: the kernel takes k bytes.
WriteSome(p, k) ==
  /\ Running /\ pc[p] = "write"
  /\ LET part == Part(msg[p], field[p])
         length == Len(part)
         done == n[p] + k
     IN  /\ k <= Room(p) /\ k <= Missing(length, n[p])
         /\ stream' = [stream EXCEPT ![p] = @ \o SubSeq(part, n[p] + 1, done)]
         /\ IF done < length
              THEN n' = [n EXCEPT ![p] = done] /\ UNCHANGED <<pc, field, outbox>>
            ELSE /\ n' = [n EXCEPT ![p] = 0]
                 /\ IF field[p] # "buf"
                      THEN /\ field' = [field EXCEPT ![p] = NextField(@)]
                           /\ UNCHANGED <<pc, outbox>>
                    ELSE /\ field' = [field EXCEPT ![p] = "len"]
                         /\ pc' = [pc EXCEPT ![p] = After(p, @)]
                         /\ outbox' = [outbox EXCEPT ![p] = Append(@, msg[p])]
  /\ UNCHANGED <<i, msg, buf, len, ch, pending, taken, closed, signals, inbox>>

-----------------------------------------------------------------------------
(***************************************************************************)
(* cmpsc311NetworkUnitRecv over cmpsc311_read_bytes                        *)
(***************************************************************************)

\* Mutant of Stored: every call reads to buf, not to &buf[readBytes].
StoredAtStart(b, done, bytes) ==
  [k \in 1..(done + Len(bytes)) |->
     IF k <= Len(bytes) THEN bytes[k] ELSE IF k <= done THEN b[k] ELSE 0]

\* Bytes read to &buf[readBytes].
Stored(b, done, bytes) == SubSeq(b, 1, done) \o bytes

\* sizeof(uint16_t), sizeof(char), and the length read before.
PartLength(p) == IF field[p] = "len" THEN 2 ELSE IF field[p] = "ch" THEN 1 ELSE len[p]

Value(word) == word[1] + Byte * word[2]

\* One turn of the loop of cmpsc311_read_bytes: the kernel gives k bytes.
\* After the last part every character is compared.
ReadSome(p, k) ==
  /\ Running /\ pc[p] = "read"
  /\ LET q == Peer(p)
         done == n[p] + k
         bytes == Stored(buf[p], n[p], SubSeq(stream[q], taken[q] + 1, taken[q] + k))
     IN  /\ k <= Unread(q) /\ k <= Missing(PartLength(p), n[p])
         /\ taken' = [taken EXCEPT ![q] = @ + k]
         /\ IF done < PartLength(p)
              THEN /\ n' = [n EXCEPT ![p] = done]
                   /\ buf' = [buf EXCEPT ![p] = bytes]
                   /\ UNCHANGED <<pc, field, msg, len, ch, inbox>>
            ELSE /\ n' = [n EXCEPT ![p] = 0]
                 /\ buf' = [buf EXCEPT ![p] = <<>>]
                 /\ CASE field[p] = "len" ->
                           /\ len' = [len EXCEPT ![p] = Value(bytes)]
                           /\ field' = [field EXCEPT ![p] = "ch"]
                           /\ UNCHANGED <<pc, msg, ch, inbox>>
                      [] field[p] = "ch" ->
                           /\ ch' = [ch EXCEPT ![p] = bytes[1]]
                           /\ field' = [field EXCEPT ![p] = "buf"]
                           /\ UNCHANGED <<pc, msg, len, inbox>>
                      [] field[p] = "buf" /\ \E j \in 1..len[p] : bytes[j] # ch[p] ->
                           /\ pc' = [pc EXCEPT ![p] = "failed"]
                           /\ UNCHANGED <<field, msg, len, ch, inbox>>
                      [] OTHER ->
                           /\ field' = [field EXCEPT ![p] = "len"]
                           /\ inbox' = [inbox EXCEPT ![p] =
                                          Append(@, [len |-> len[p], ch |-> ch[p]])]
                           /\ pc' = [pc EXCEPT ![p] = After(p, @)]
                           /\ msg' \in IF p = "main"
                                         THEN {[msg EXCEPT ![p] = m] : m \in RandomMessages}
                                         ELSE {msg}
                           /\ UNCHANGED <<len, ch>>
  /\ UNCHANGED <<i, pending, stream, closed, signals, outbox>>

\* A call of read by p: it returns 0 once the other end has closed and
\* everything is read.
ReadCall(p) ==
  IF pc[p] = "read" /\ Unread(Peer(p)) = 0 /\ closed[Peer(p)]
    THEN /\ Running
         /\ pc' = [pc EXCEPT ![p] = "failed"]
         /\ UNCHANGED <<i, endVars, netVars, history>>
    ELSE \E k \in 1..(MaxLen + 2) : ReadSome(p, k)

-----------------------------------------------------------------------------
\* The call p is in waits.
Blocked(p) ==
  \/ pc[p] \in {"waitRead", "accept"} /\ ~ pending
  \/ pc[p] = "connect"
  \/ pc[p] = "read" /\ Unread(Peer(p)) = 0 /\ ~ closed[Peer(p)]
  \/ pc[p] = "write" /\ Room(p) = 0

\* A signal ends a call that waits: cmpsc311_signal_handler is installed
\* without SA_RESTART.  Both functions of the test return at the first call
\* that fails, leaving their sockets open; only the result of
\* cmpsc311_wait_read is ignored.
Interrupt(p) ==
  /\ Running /\ Blocked(p) /\ signals < MaxSignals
  /\ signals' = signals + 1
  /\ pc' = [pc EXCEPT ![p] = IF @ = "waitRead" THEN "accept" ELSE "failed"]
  /\ UNCHANGED <<i, endVars, netVars, outbox, inbox>>

Transfer(p) ==
  \/ \E k \in 1..(MaxLen + 2) : WriteSome(p, k)
  \/ ReadCall(p) \/ Close(p)

Main == CreateClient \/ WaitRead \/ Accept \/ Transfer("main") \/ Join
Client == Connect \/ Transfer("client")

Next == Main \/ Client \/ \E p \in Ends : Interrupt(p)

Spec == Init /\ [][Next]_vars

\* Both threads are scheduled.  Nothing obliges anybody to send a signal.
FairSpec == Spec /\ WF_vars(Main) /\ WF_vars(Client)

-----------------------------------------------------------------------------
(***************************************************************************)
(* Properties                                                              *)
(***************************************************************************)

Fields == {"len", "ch", "buf"}
Places == {"create", "none", "connect", "waitRead", "accept", "write", "read",
           "close", "join", "exited", "done", "failed"}

\* Types; a length fits the buffer of the test on both sides.
TypeOK ==
  /\ i \in 0..Iterations
  /\ pc \in [Ends -> Places]
  /\ field \in [Ends -> Fields] /\ n \in [Ends -> Nat]
  /\ msg \in [Ends -> Messages] /\ buf \in [Ends -> Seq(0..(Byte - 1))]
  /\ len \in [Ends -> 0..MaxLen] /\ ch \in [Ends -> 0..(Byte - 1)]
  /\ pending \in BOOLEAN /\ stream \in [Ends -> Seq(0..(Byte - 1))]
  /\ taken \in [Ends -> Nat] /\ closed \in [Ends -> BOOLEAN]
  /\ signals \in Nat
  /\ outbox \in [Ends -> Seq(Messages)] /\ inbox \in [Ends -> Seq(Messages)]

\* However the kernel cuts the stream, what the loops read is what was sent.
Channel == INSTANCE MessageChannel
ChannelSpec == Channel!Spec

\* Nothing but a signal makes a thread fail: neither finds a connection closed
\* that it still reads from, or other characters than were sent.  The test
\* itself does not see that a client thread has failed.
OnlySignalsFail == \A p \in Ends : pc[p] = "failed" => signals > 0

\* Unless a signal interrupts a call the test comes to its end, and with
\* success: no end ever waits for bytes the other one does not send, nor the
\* two for each other to read.
TestSucceeds == <>(pc["main"] = "done" \/ signals > 0)
=============================================================================
