# Verification of network_experiment

TLA+ models of the programs in `src/`, the TLC configurations that check them
on small instances, and proofs for every instance that TLAPS checks.  Paths are
relative to `src/`.

To run one check: `tlc -workers 2 -config Transfer_steady.cfg MCTransfer`; to
check the proofs of one component: `tlapm TransferProofs.tla`.

## 1. The system

network_experiment measures how the response time of a file server changes when
somebody floods the network at the same time.

    runner.py --starts--> client <==TCP 19876==> server        (one thread per connection)
                            ^ \
              TCP 6001      |  timing log --read by--> data_parser.py
       START/ENDIN/CONTRO   |
                          flooder ---UDP---> packet_sink

| Part | State | Operations | Talks to |
|---|---|---|---|
| **Client**, `client/client.c`, `client/main.c` | socket, marshalling buffer, block count, `timing_logfh`, `request_counter`, `flooder_state` | main thread: a loop that connects, sends REQ_FILE, reads REQ_ACK, reads and acknowledges blocks until FILE_COMPLETE, and counts waits; second thread `flooder_checks`: reads notifications and writes markers | server (TCP), flooder (TCP), its log (file) |
| **Server**, `server/server.c` | listening socket, descriptor table; per thread the connection, its buffer and the file | main thread: accept, start a detached thread; thread: read the request, acknowledge, send block by block, FILE_COMPLETE, close | clients |
| **TCP helpers**, `lib/cmpsc311_network.c` | none of their own | connect, accept, send_bytes, read_bytes, close, wait_read, a signal handler, the UDP variants | sockets; the unit test in the same file |
| **Flooder**, `flooder/` | `start_time`, phase, `notified_control` | sleep, notify START (and CONTRO once, after a minute), flood, notify ENDIN; a thread that exits with the client | client, sink |
| **Timing log parser**, `analysis/parser/data_parser.py` | `flooder_on`, `control`, four lists of RTTs | one line at a time | the client's log |
| **Hash table**, `lib/cmpsc311_hashtable.c` | lists of allocated entries, element count, iterator | init, insert, find, delete, iterate, clean up | cache |
| **Buffer cache**, `lib/cmpsc311_cache.c` | limits, counts, the table, who owns each buffer | init, put (with ejection), get, delete, close | hash table, clock |
| **Opcode library**, `lib/cmpsc311_opcode.c` | a layout of fields in a 64-bit word | define, add a field, set, get, log, release | - |
| **Log**, `lib/cmpsc311_log.c` | level descriptors and masks, file handle, `errored` | register, enable, disable, log, close | everybody |
| **Environment capture**, `lib/cmpsc311_capture.c`, `_uncapture.c` | a file of records linked backwards | append a record; walk back and list | - |
| **Utilities**, `lib/cmpsc311_util.c` | - | time comparison, random values, byte swaps, hashes | cache, log |
| Packet sink, noise generator, `common/ccommon.c`, analysis scripts, deployment | - | - | see section 8 |

What is hard in it:

- *Interleaving.*  A server thread per connection, two threads in the client
  with a shared descriptor number and a shared flag, and a flooder that runs on
  its own clock.
- *Partial transfers.*  The kernel takes and gives any number of bytes per call;
  records of the environment log are a dozen writes each; nothing locks a file.
- *Failure.*  Every caller ignores the results of `cmpsc311_read_bytes` and
  `cmpsc311_send_bytes` and asserts on whatever its buffer holds; SIGPIPE is
  never ignored; files are opened and never closed; clients are killed and
  started again.
- *Ordering.*  The server closes without reading the last acknowledgement;
  notifications cross requests; the log is closed and opened while the other
  thread writes to its number.
- *Counting.*  The client's counter must make two samples the same size, the
  cache's counts must follow its table, the fields of a word must not overlap.

What makes each part correct, and where that is said:

| Part | Correct when | Stated by |
|---|---|---|
| File transfer | clients that keep to the protocol get the whole file or nothing, never misread the stream and never bring the server down; every request and every thread comes to an end | `WholeFileOrNothing`, `BlocksAccounted`, `ClientBlame`, `ServerBlame`, `NoBrokenPipe`, `RequestAnswered`, `ThreadsEnd`, `ServiceSpec` |
| Measurement | markers and lines reach the log and nothing else, labels are right, the samples balance, the run ends | `LinesReachLog`, `LabelsCaughtUp`, `BalancedSample`, `ControlIsQuiet`, `ControlEndsClient`, `ExperimentEnds` |
| TCP helpers | what is read is what was sent, however the stream is cut; nobody waits for ever | `ChannelSpec`, `OnlySignalsFail`, `TestSucceeds` |
| Hash table | it is a dictionary; lists, count, walks and clean-up are sound | `DictionarySpec`, `ListsSound`, `ElementsCounted`, `WalkComplete` |
| Cache | limits, counts and ownership hold after any sequence of calls; calls end | `LimitsKept`, `ItemsCounted`, `SizeCounted`, `BuffersOwned`, `VictimExists`, `CallsReturn` |
| Opcodes | fields are independent and read back | `FieldsApart`, `FieldsHold`, `OtherBitsKept` |
| Log | levels are independent; threads that share it lose no line and few descriptors | `LevelsIndependent`, `LinesKept`, `FewHandles` |
| Environment capture | a record once written stays; a whole file is listed whole, in order; a walk ends wherever the check of its offsets can see it go astray | `RecordsKept`, `RecordsListed`, `WalkEnds` |

`PROJECT.json` lists the hazards behind these properties line by line, the
source lines each definition stands for, and one mutant of the code per
property that makes TLC refute it.

## 2. Modules

| Module | Role | Proofs |
|---|---|---|
| `Transfer` | client and server over TCP | `TransferProofs` |
| `FileService` | what a client may expect of the server; `Transfer` implements it | |
| `Experiment` | client (both threads), flooder, timing log and parser | `ExperimentProofs` |
| `HashTable` | the table at the level of pointers | `HashTableProofs` |
| `Dictionary` | what the table's interface promises; `HashTable` implements it | |
| `Cache` | the cache, standing on a dictionary | `CacheProofs` |
| `Opcode` | fields in a word | `OpcodeProofs` |
| `Stream` | two threads, the TCP helpers and a stream of bytes between them | `StreamProofs` |
| `MessageChannel` | what a connection is to everybody else; `Stream` implements it | |
| `Log` | levels, and the log file several threads open and write | `LogProofs` |
| `Capture` | the environment records: captures and a display on one file | `CaptureProofs` |
| `MCTransfer`, `MCExperiment`, `MCHashTable`, `MCCache`, `MCOpcode`, `MCStream`, `MCLog`, `MCCapture` | instances for TLC | |

The abstractions meet at three seams.  `Experiment` treats a request as something
the server answers in bounded steps; that is `RequestAnswered` of `Transfer`.
`Cache` keeps its entries in a function from cids to entries; that is the
dictionary `HashTable` implements.
`Transfer` and `Experiment` send whole messages through a connection; that such
a connection is what `cmpsc311_send_bytes` and `cmpsc311_read_bytes` make out of
a stream is `ChannelSpec` of `Stream`.

Definitions carry the names of the source.  Those called "Mutant of X" are not
part of any specification: each is a plausible bug in X that one property is
there to catch.

## 3. Transfer

**State.**  `cpc`, `csock`, `cbuf`, `got` are a client's program counter,
`socketfh`, decoded `marshallBuffer` and block count; `tpc`, `tbuf`, `tname`,
`served` those of the server thread of a connection; `server` and `main` the
server process and its main thread; `leaked` the descriptors of files nobody
closes; `backlog`, `up`, `dn`, `copen`, `sopen`, `reset` what the kernel keeps
per connection; `died` and `crashes` are history.

**Actions and code.**  Client: `Connect`/`ConnectFails`, `ClientSend`,
`ReadReqAck`, `ReadBlock`, `ReadComplete`, `ClientClose`, `LoopTest`,
`ClientAssertFails`, `ClientSigpipe` follow `client_run`, `client_connect` and
`client_send_request` line by line.  Server: `EnterAccept`, `Accept`,
`AcceptFails` are the loop of `server_run`; `ReadRequest`, `SendReqAck`,
`OpenFile`, `SendBlock`, `ReadBlockAck`, `SendComplete`, `CloseConn`,
`ServerAssertFails`, `ServerSigpipe` are `server_func` and `exit_connection`;
`ServerStops` is the end of the process, however it comes.  `Crash` kills a
client anywhere, also in the middle of a send, and `Restart` is
`analysis/runner.py` starting it again.

**TCP as the code uses it.**

- `accept()` takes a descriptor before it waits (Linux), so `Accept` follows an
  `EnterAccept` that found one free.
- Closing a socket that has unread data, or receiving data on a closed one,
  resets the connection.  Data received before stays readable; a first write to
  a closed peer is dropped and provokes the reset, a later one may raise
  SIGPIPE.
- A process that ends closes its listening socket too, which resets every
  connection still in the accept queue, whether it holds data or not.  A client
  that has connected but not yet asked for the file then writes to a reset
  connection (`ClientSigpipe`).
- A failed read returns -1 and leaves the buffer: `Filled` keeps the old
  message, and the next assertion looks at that.
- A message is one unit (`Stream` says why); only a process that dies in a send
  leaves it cut.
- `connect()` waits while the accept queue is full (`Backlog`).
- Connections come from the pool `Conns` and go back to it when both ends are
  closed, so the state stays finite over any number of requests.

**Abstracted.**  A message is its type and whether its data is zeros, the
file's name or the file's content.  `request_counter` becomes a free choice in
`LoopTest` (Experiment models it).  `FileBlocks` counts the `fread`s that
return data.  Log messages and timing lines are left out.  So is an operator's
SIGINT: both programs catch it without SA_RESTART (`network.c:63-65`), so that a
waiting read returns -1 with the peer still there and the assertion behind it
may fail.  It is taken for what it is meant as, the end of a process by hand;
the properties are about processes nobody interrupts.  (`Stream` has signals.)

**Runs.**

| Run | Instance | Checks | Distinct states |
|---|---|---|---|
| `transfer_steady` | 2 clients, 3 connections, 2 blocks, 4 descriptors, nobody killed, fair | `TypeOK`, `WholeFileOrNothing`, `BlocksAccounted`, `RequestAnswered` | 498,515 |
| `transfer_crash` | 2 clients, 3 connections, 2 blocks, 4 descriptors, one kill, restarts, symmetry | `ClientBlame`, `ServerBlame`, `NoBrokenPipe`, `ServiceSpec` | 1,208,308 |
| `transfer_drain` | 1 client, 2 connections, one kill, restarts, fair | `ThreadsEnd` | 18,718 |

Why these bounds suffice for the cases that matter: two clients are needed for
one to be hurt by what another does (the server process is all they share), and
three connections let a new request start while two old threads are still
running.  Two blocks make the difference between first, middle and last block.
With 4 descriptors the table fills within a few requests, once in `open()` (the
file is answered with no blocks) and once in `accept()` (the process exits).
One kill is enough for every way a dead client can hurt the others.  The three
connections of `transfer_crash` let the old thread of the client that was killed,
the thread of its restart and that of a bystander run at the same time.  That
run identifies states that differ only in which client or connection is which
(`Interchangeable`): clients and connections are model values no definition
singles out, and it checks no liveness.

**Fairness.**  Weak fairness of every client, of the server's main thread and
of every server thread: each runs on an operating system that schedules every
runnable thread, and each of their steps stays enabled until it is taken.  No
fairness for `Crash` and `Restart`: nothing obliges anybody to kill a client.
`AllQuiet` lets the system rest when all clients have ended and the server
waits in `accept()`.

**Proved** (`TransferProofs`, for any set of clients and connections, any
number of blocks, descriptors and kills): `TypeOK`, `ClientBlame`,
`ServerBlame`, `NoBrokenPipe`, `WholeFileOrNothing`, `BlocksAccounted`, and
`ServiceSpec`, the implementation of `FileService`.

None of these is inductive: whether an assertion fails depends on what is
unread, which depends on where the other end is.  The invariant `IInv` says it
in layers:

- `Plumbing`: types, and which sockets, threads and queues belong together;
- `Lockstep`: for a client and the thread at the other end of its socket, the
  short list of joint states (`InStep`) of both program counters and both
  queues, such as "the client waits for a block, nothing is unread and the
  thread is about to send";
- `NoOrphan`: while nobody has died, a thread whose client is gone has nothing
  left to do but close;
- `Ledger`: blocks sent = blocks counted + blocks unread;
- `ClientBlame` and `ServerBlame`, which then follow in one step.

`NoBrokenPipe` says which write of a client may meet a reset connection: its
REQ_FILE, when the server process ended with the connection still in the accept
queue, and no acknowledgement ever.  It is about the time after the server has
ended, when `Lockstep` says nothing.  Its invariant `Quiet` adds that a reset reaches
a client only when it closes next, when it has yet to ask for the file, or when it
reads next and finds nothing (`Resettable`, `Unheard`), and that the buffer then
holds a message of its own (`OwnMessage`), so that it fails the assertion before it
writes again.

`ImplementsService` maps initial states to initial states and every step
to a step of `FileService` or a stutter, using `IInv` to show that a FILE_COMPLETE
is never read half way.

## 4. Experiment

**State.**  `mpc`, `socketfh`, `timing_logfh`, `blk`, `request_counter` and the
descriptor table `fd` belong to the client's main thread, `kpc` and
`flooder_state` to `flooder_checks`, `fpc`, `wait`, `late`, `elapsed`,
`notified_control` to the flooder, `chan` to the TCP connection between them.
`parse` holds the variables of `_parse_client_times`: the parser reads the log
from front to back and remembers nothing else, so a line is parsed when it is
written.  `marked` is history.

**Actions and code.**  `Connect`, `OpenLog`, `LogRequestStart`, `ReadAnswer`,
`LogRequestEnd`, `UpdateRequestCounter`, `CloseRequest`, `Finish` follow
`client_run` to the end of `main`; END line and counter are two steps, because
the other thread may run between them.  `Fail` is any failed call or assertion.
`TakeNotification` and `SetFlooderState` are `flooder_checks`.  `FloodStart`,
`FloodEnd` are the cycle of `flooder_run`, `FlooderExit` is
`flooder_test_connection`, `Tick` lets a second pass; a sleeper wakes at most
`Late` seconds late.  `FlooderKilled`: nothing starts a flooder again.

**Descriptors.**  `open()` and `socket()` return the lowest free number.  That
is modelled because `timing_logfh` keeps its number while the log is closed and
the other thread writes to it at any moment: `LinesReachLog` says that number is
never a socket's.

**Abstracted.**  RTTs are counted, not measured.  A request is answered by all
its blocks or by none (`WholeFileOrNothing` of `Transfer`).  Packets, byte
counters and the flooder's own log are left out; so is the flooder's option
-n, whose `case` falls through into -l with a null argument
(`flooder/main.c:62`).  Descriptors below `BaseFd` are one kind.  `elapsed`
stops at `Minute + 1`, and while the client counts up it is held at
`MaxCounter`: nothing later depends on more.

**Runs.**

| Run | Instance | Checks | Distinct states |
|---|---|---|---|
| `experiment_run` | one-block files, minute of 2 s, floods of 1 s, 1 s late, 3 free descriptors, counter up to 2, fair | `TypeOK`, `LinesReachLog`, `BalancedSample`, `LabelsCaughtUp`, `ControlIsQuiet`, `ControlEndsClient`, `ExperimentEnds` | 124,701 |
| `experiment_record` | the same | `ControlRecorded`, violated, section 7 | |

A minute of two floods puts CONTRO behind a full cycle and, with the delay,
makes it due during a sleep as well as during a flood.  A file of one block is
two waits per request, so the counter can pass below zero within a file as well
as at its end.  A socket buffer of two notifications is the smallest that takes
START and CONTRO at once, so the flooder also has to wait for room.

**Fairness.**  Weak fairness of both client threads, the flooder and the clock:
the scheduler runs them and time passes.  That the server answers is
`RequestAnswered`.  No fairness for `Fail` and `FlooderKilled`.  A client with
no flooder left never ends - it has nobody to tell it to - which is why
`ExperimentEnds` excepts a killed flooder, and why `Quiet` lets such a run rest.

**Proved** (`ExperimentProofs`, for any file size, duration, minute, delay,
buffer, number of descriptors and bound on the counter): `TypeOK`,
`LinesReachLog`, `ControlIsQuiet`, `BalancedSample`, `LabelsCaughtUp`.

- *Descriptors.*  Between requests everything from `BaseFd` on is free; so the
  socket always gets `BaseFd` and the log `BaseFd + 1`, and `timing_logfh` is
  either still 0 or that number.  The invariant lists the three tables a
  client goes through (`Between`, `Connected`, `Requesting`).
- *Counter.*  `TypeOK` bounds `request_counter` from below by the blocks of one
  file: it is tested once per file and falls by at most one per wait (`Counter`).
- *Once.*  CONTRO is in the channel, taken, or not sent, exactly one of them,
  and the flooder floods only while it has not been sent.
- *Balance.*  With N normal and C control RTTs, and Pending = 1 between an END
  line and its count: before `flooder_state` is set `counter = N + C - Pending`;
  afterwards `N + Pending <= C + counter + 2`.  The client stops with a counter
  below zero and nothing pending, which gives `N <= C + 1`.  The slack of two is
  the race: one RTT may be filed as normal and still be counted down.
- *Labels.*  `LabelsCaughtUp` is about an empty channel, so its invariant
  (`Labels`) says what a channel that is not empty will make of the parser:
  while every marker so far is in the log, the last START or ENDIN on its way,
  CONTRO apart, is what the flooder is doing (`LastToCome`); with none on its
  way the parser's label is that already, or no notification has ever been
  sent (`Known`).  Before the first marker the label is a guess
  (`data_parser.py:31`); the proof needs that the first notification is a START.

## 5. Library

### Hash table

`hasHTable` holds the list heads, `heap` the entries malloc has handed out,
with their `prev` and `next`, `it` the iterator.  Each function is one action
(no two calls run at once).  A walk along a list is a function from its turns
to the addresses it passes (`Walk`, `List`): the head first, then `next` of the
one before, NULL behind the end.  A call's loop stops at the first turn that ends
it in C: `findValueInHashTable` and `insertValueInHashTable` at the first larger
index, `deleteValueFromHashTable` only at the end.  Inserting an index that is
already there fails the assertion in the code and is no step.  A walk ends at
the first change of the table, as it does in the callers.  The cookie of an
entry and a failing malloc are not represented.

Run `hashtable` (two lists, index values 0 to 4, two blocks, a heap of three
entries, 42,838 distinct states): lists sorted and doubly linked without a
pointer to freed memory (`ListsSound`), as many entries allocated as the count says and none after
clean-up (`ElementsCounted`), `WalkComplete`, and `DictionarySpec`: the table implements `Dictionary`.  Three
entries make a first, a middle and a last one on a list; two lists make an
empty list before, between or after.

Proved (`HashTableProofs`, for any index values, blocks, finite set of addresses
and number of lists): `TypeOK`, `ListsSound`, `ElementsCounted`, `WalkComplete`
and `DictionarySpec`, so everything the run checks.  The inductive
invariant `HInv` is the three safety properties, that a table not ready has empty
lists, and `IteratorSound`: the entries returned so far are, each once, those of
the lists before the iterator's and those of its list up to its own (`Passed`).
`ListsSound` speaks of entries and their neighbours only; what a loop finds is about whole
lists.  Between the two stand the lemmas on walks:

- `WalkSteps`: the function is what its recursive definition says.  The
  library's induction theorems cannot be used (they take an operator), so this,
  and every other induction here, argues from a least counterexample
  (`LeastNumber`, from `NatLessThanWellFounded` and `WFMin`);
- `ListStays`, `ListRises`, `ListReaches`, `ListEnds`: a walk stays on its list,
  its index values rise, it passes every entry of its hash value, and it ends
  within as many turns as there are addresses, since it passes none twice;
- `FindEntryFinds`, `InsertPlaceFits`, `DeleteEntryFinds`: what the three loops
  stop at;
- `InsertEffect`, `DeleteEffect`: which links a call changes, after which
  `InsertKeepsLists` and `DeleteKeepsLists` compare neighbours.

`TableIsDictionary` then needs that the entries walked over are the allocated
ones and have different index values (`EntriesAreFound`), which gives the
dictionary entry by entry (`DictionaryHolds`) before and after every call.

### Buffer cache

`htable` maps cids to entries, `owner` says who owns each buffer, `call` is the
call in progress.  `put_cmpsc311_cache` and `close_cmpsc311_cache` loop, so
they are several steps: `eject_cmpsc311_cache` one turn of the loop in put,
`PutEntry` its end, `CloseEntry` and `CloseEnd` the loop and end of close.  A
buffer too long is refused; a cid already in the cache is left to the assertion
in `insertValueInHashTable`, after the counts have been raised
(`running` becomes FALSE).  Sizes are taken modulo `WordSize`.

| Run | Instance | Checks | Distinct states |
|---|---|---|---|
| `cache_limits` | 3 cids, 3 buffers of 0 to 6 bytes, up to 2 items and 5 bytes, 3 clock readings, fair | `TypeOK`, `ItemsCounted`, `SizeCounted`, `LimitsKept`, `BuffersOwned`, `VictimExists`, `CallsReturn` | 63,156 |
| `cache_oldest` | one-byte buffers | `OldestEjected`, violated, section 7 | |

Three buffers against a limit of two items, and lengths that need one ejection,
two, or are refused, reach both limits in every order.  Fairness: a call that
has begun goes on, because the program is sequential.

`LimitsKept` is about byte counts that do not wrap.  `current_size + len`
(`cache.c:221`) is a sum of two `uint32_t`: with `SizeLimits = {7}`,
`Lengths = {5}` and `WordSize = 8` TLC finds it violated after two puts.  It
takes a `max_size` in the upper half of the range, which `init_cmpsc311_cache`
accepts.

Proved (`CacheProofs`, for any cids, buffers, limits, lengths and word size):
`TypeOK`, `ItemsCounted`, `SizeCounted`, `BuffersOwned`, `VictimExists`, and
`LimitsKept` where the sum cannot wrap.  The first invariant, `IInv`, adds to
the counts that the items are within their limit, what the parameters of a put
in progress are (`Putting`: the caller owns the buffer, it is in no entry) and
that a closed cache is empty (`Closed`).

The byte count is a sum over the entries, a fold.  `SumsAre` shows that the fold
is the sum it should be, by a least counterexample among the subsets
(`SmallestSubset`), and that it does not depend on the order entries are added in
(`SumsWithout`); so one entry more or less changes it by that entry's size
(`BytesEnter`, `BytesLeave`), and `current_size` follows modulo `WordSize`
(`ResidueOfSum`).  `VictimExists` adds that a put goes on only with a buffer
`max_size` allows (`Admitted`): an empty cache has room for it.

`LimitsRight` assumes `NoWrap`: a buffer that is admitted can be added to any
limit without leaving 32 bits, which holds for every `max_size` below half the
range.  Without it the theorem is false: see above.

### Opcodes

A word is the set of its bits that are 1.  `ShiftIn` and `ShiftOut` are
`opcode_shift_in` and `opcode_shift_out`; `Ones(w)` is `(1 << w) - 1`, and for
the full width, where the shift is undefined in C, both what x86 yields and what
was meant.  Functions that only read or log are left out.  Callers are
taken to add no more fields than they announced: the code does not test it.

Run `opcode_fields` (words of five bits, up to three fields of widths 0 to 5,
61,531 distinct states): `FieldsApart`, `FieldsHold`, `OtherBitsKept`.  Three fields put one between two others, and every split of
the word occurs, empty and full fields included.

Proved (`OpcodeProofs`, for any width of the word): all three, and `TypeOK`.  The invariant
adds `Layout`: fields lie one below the other from the top of the word, with
the next free bit at `W - used_bits`.  The lemmas are about the shifts: what
`ShiftIn` writes is what `ShiftOut` reads (`RoundTrip`), bits outside the field
stay (`OutsideKept`), and reading a field depends on its own bits only
(`ReadUnchanged`).

### TCP helpers

`Stream` is the library's own two-threaded test (`cmpsc311NetworkUnitTest`)
down to the loops of `cmpsc311_send_bytes` and `cmpsc311_read_bytes`.  The
kernel takes or gives any number of bytes from one up to what there is room or
data for; `n` and `buf` are `sentBytes`/`readBytes` and the buffer of the part
in hand.  A message is a length, a character and copies of the character, each
part read by a call of its own with the length the first brought.  `After` is
the order of the two threads' calls.  `Connect` succeeds before `Accept`
(backlog), `pending` is what wakes `cmpsc311_wait_read`.  The handler is
installed without SA_RESTART, so a signal makes a waiting call fail
(`Interrupt`).  `getRandomValue` is the arithmetic of `lib/cmpsc311_util.c`,
its word taken modulo `Word`.  `MessageChannel` is the abstract channel: whole
messages, in order, to one other end, from scratch on every connection.

Run `stream_test` (bytes of two values, words of six, messages of up to three
characters, two iterations, two bytes of buffer, two signals; 14,076 distinct
states): `OnlySignalsFail`, `ChannelSpec` (the refinement) and `TestSucceeds`.
A buffer of two bytes is smaller than every message, so every message is cut
somewhere in both loops and senders wait for readers; a length of three fills
both bytes of the length field; the second iteration starts from what the first
left.  Fairness: both threads, which the operating system schedules; signals
need not come.

Proved (`StreamProofs`, for any byte, word, length, number of iterations,
buffer and signals): `TypeOK`, `OnlySignalsFail`, and `ChannelSpec`.  The
invariant says what each end has put on the stream in terms of its program
counter (`Sent`, `Writing`) and what it has taken off it (`Reading`); `EncByte`
is the k-th byte of a message, `PartRead` that a part read whole gives back what
was put in, which for the length is the arithmetic of two bytes.

### Log

`logLevel` is a word, `registered` the number of descriptors set;
`initializeLogWithFilename` and `initializeLogWithFilehandle` are the two
initial states.  `vlogMessage` is cut where threads can meet: the tests at its
head, `openLog` (`OpenSucceeds`, or `OpenFails` and `SetErrored`, between which
another thread may look), the test of `errored`, and the write.  Several levels
at once are the or of their values.  Levels change only while nobody logs, as in
the programs that use the library.  The text, the echo descriptor and `closeLog`
(which nobody calls) are left out.

Run `log_levels` (two threads of two messages each, one failed open, ints of six
bits, 122,686 distinct states): `LevelsIndependent`, `LinesKept`, `FewHandles`.
Two threads are what it takes to open the log twice, and with two messages one
of them logs again after that; six bits leave two levels to register, the last
of which is the sign bit.  There is no fairness: no liveness is claimed.

Proved (`LogProofs`, for any finite set of threads, number of messages and
failures, and width): all three and `TypeOK`.  The invariant ties the
bits of `logLevel` to `wanted` (`BitsFollow`), every line of the file to the
one message written there (`FileLines`), and counts opens by the threads that
made them (`OpensBounded`): a descriptor is opened only by a thread that found
none.

### Environment capture

The file is a sequence of cells, one per `write()`; positions count cells and are
as large as the file.  What `ofs` and `next` keep of a position are its lower 32
bits (`Offset`, modulo `Word`): `lseek` returns 64, the variables and the record
hold 32.  `StartCapture`, `WriteCell` and `Die` are
`environment_capture` in any number of processes at once: each seeks to the end
once and writes on from there, over whatever another has put there.
`OpenLog`, `WalkBack` and `ReadCell` are `display_environment_log`.  The walk
reads the word before its offset: the offset of a record that ends there, zero
at the archive's end, and otherwise - behind half a record or in the middle of
one - any value (`WordBefore`), from which it never finds back
(`astray`).  The check of an offset is the code's sum of 32 bits, and `ofs - 4` is a
difference of 32 bits (`Before`).  The reader
goes from cell to cell; past the first cell out of place it may list garbage,
then stop or fail.

Run `capture_records` (three records of two or three cells behind an archive of
one, offsets modulo 8, 806,898 distinct states): `RecordsKept`,
`RecordsListed`, `WalkEnds`.  Three captures give one that is complete, one that
dies or collides, and one that comes after it; two lengths make overwritten
records end at different places.  Files of three records are of 7 to 10 cells: just
below the width of an offset, where the sum of the check wraps, at it, and past
it.  Sums past the word's end occur, too, when the walk follows bytes that are no
offset.  Fairness: the displaying process; nobody need capture.

Two of the properties have a limit the code sets.  `RecordsListed` is about
files shorter than 2^32: of a longer one the walk begins at what is left of its
length.  `WalkEnds` speaks of a walk that is at an offset in reach of the check
(`InReach`): from the last 27 bytes below 2^32 the sum `next + 27` wraps, the
check accepts the offset the walk is at, and the loop may go round for ever
(section 7).

Proved (`CaptureProofs`, for any number and sizes of records, archive and
word): `TypeOK`, `RecordsKept`, `RecordsListed`, and `WalkDescends`,
the step property from which `WalkEnds` follows: from an offset in reach of the
check a turn of the walk goes on before where it was, so it stays in reach.
`RecordsKept` rests on positions: who writes alone has its
position at the end of the file, and nobody's position is ever before a finished
lone record's end.  `RecordsListed` needs the shape of the file behind the
archive (`Shape`, `InOrder`), that what a clean open found is never changed
and is shorter than an offset can say (`Kept`), and that display and file agree: the walk goes from one record's
beginning to the one before (`Walking`, `Seams`), the reader has listed exactly
what lies behind it (`Reading`).

## 6. Proofs and runs

Eight modules hold proofs.  Each `...Proofs` module has the same shape: lemmas about operators; an
invariant (`IInv`; `Inv` in `ExperimentProofs`, `HInv` in `HashTableProofs`) whose conjuncts are named above; a lemma that `Init` implies
it; lemmas, action by action, that a step keeps it; `Invariance`, and one
theorem per property that follows.  The assumptions are the named ASSUMEs
at the head of each component's module (types of the constants, `NoConn` is no
connection, a socket buffer of at least two, and the like), which TLC evaluates
on every run.

Every invariant, every step property and every refinement a passing run
checks is also proved; `LimitsKept` under the condition stated there.

Only model-checked: the liveness properties (`RequestAnswered`, `ThreadsEnd`,
`ControlEndsClient`, `ExperimentEnds`, `CallsReturn`, `TestSucceeds`,
`WalkEnds`), because liveness under fairness is beyond the prover; and the two
violations, which are shown by a counterexample.  No module uses a RECURSIVE
operator; recursive functions and folds are reasoned about with least
counterexamples, as described under hash table and cache.

## 7. Disagreements found

Shown by a run whose property TLC refutes; `PROJECT.json` quotes the lines.

| Run | What happens | Says otherwise |
|---|---|---|
| `experiment_record` | CONTRO arriving between two requests finds the log closed; the client ends, its log has no control sample | "Notify Start of control sequence", `flooder.pseudo:11` |
| `cache_oldest` | the newest entry is ejected: `compareTimes` is used with the wrong sign (`cache.c:350`) | "removing oldest cached entry", `cache.c:188` |

Met while modelling and shown by no run.

In the programs: a client killed during its request takes the server process
with it, by an assertion on a stale buffer (`server.c:65, 99`) or by SIGPIPE;
the descriptor of every served file stays open (`server.c:84`), so that files
are first answered as empty and then the server exits; a block is cleared after
it was read from the file (`server.c:91`), so that clients receive zeros.  The
first two are actions of `Transfer` (`ServerAssertFails`, `OpenFile`), the third
is the content it gives a block.

In the log: `1 << 31` is a negative int (`log.c:176`), so a level registered last
gets the upper 32 bits of the `unsigned long`, and disabling it leaves them
(`log.c:71`) - it cannot be turned off; `registerLogLevel` returns -1, all
levels, when there is no room; an open that fails while another thread's
succeeded replaces a working handle by -1, and after one failure `errored`
keeps every later message out, although later opens succeed.

In the captures: a process that dies within a record hides all earlier ones
from the walk; in a file that was empty the offset of the first record is the
zero the walk stops at, so that record is never listed; in a file of 2^32 - 27
bytes or more the sum of the check wraps, an offset that names itself passes it
(`capture.c:266`) and the loop never ends - `WalkEnds` leaves such offsets out; a display in the middle of a record shows garbage or "Bad file"; and
`cmpsc311_uncapture` reports success whatever the display returned
(`uncapture.c:73`).

In the network test: a client thread that fails leaves the main thread waiting
for a connection or bytes that never come, and its result is ignored
(`network.c:457-471, 507-518`); a signal makes any waiting call fail, since the
handler is installed without SA_RESTART.

Elsewhere: the wrap in the cache (section 5);
`set_opcode_field` refuses all values but 0 for a field of 64 bits
(`opcode.c:208`); `log_opcode_value` asks for fields by position instead of
identifier (`opcode.c:347`); `release_opcode_definition` frees the name behind
the last field, once per field, and none of theirs (`opcode.c:144`; the action
`release_opcode_definition` has it as a call that may stop the program); a flood that begins before
the minute is over runs on beyond it (`flooder.c:109`); the parser files waits of
the flooder's first sleep as flooded (`data_parser.py:31`); the analyzer
assigns filtered RTTs with flooder to those without (`analyzer.py:126`).

## 8. Not modelled

| Part | Why |
|---|---|
| `closeLog`, `setEchoDescriptor` | no caller: the descriptors are freed at exit and nothing is echoed |
| `logAssert`, `logBufferMessage`, the text of a message | formatting in front of the same `vlogMessage` |
| What a record of the environment holds | time, names, and an address fetched with curl in a callback of its own: data to the file |
| Utilities other than `compareTimes` and `getRandomValue` | byte swaps and `bufToString` have no caller whose behaviour depends on them; hashes and random data are calls into libgcrypt |
| UDP helpers | datagrams nobody answers or waits for |
| An iterator or a buffer of the cache used after the entry is gone | contracts of `iterateHashTable` and `get_cmpsc311_cache` with their caller; no caller breaks them |
| pthread_create failing, the client's accept of the flooder, the server started again | exhaustion of memory, one call before the run, an operator's doing |
| Packet sink | throws datagrams away; no state |
| Noise generator | does not compile (`noise.c:25`) |
| `common/ccommon.c` | one floating-point formula |
| Analysis scripts | statistics in floating point and plots over the lists the parser builds |
| Deployment | shell, container and VM descriptions |
| Unit-test drivers | sequential callers of operations the modules allow in any order; the network test, which has two threads, is `Stream` |

## 9. Plan

Done, in this order: `Transfer` with `FileService` and its proofs; `Experiment`
and its proofs; `HashTable` with `Dictionary`; `Cache`, `Opcode`, `Log`, `Stream`
with `MessageChannel`, `Capture`, each with its proofs; the hash table's walks
without RECURSIVE operators and their proofs; the cache's byte counts; the
parser's labels.

What is left, most useful first:

1. The safety half of termination, as `WalkDescends` is of `WalkEnds`: what every
   turn of a loop brings nearer (the ejections of the cache, the requests of
   `Transfer` while nobody dies).
2. `Experiment` over `FileService` itself instead of an answered request, and
   `Cache` over `Dictionary` itself.
3. `setEchoDescriptor` and `closeLog`, should a program begin to call them.
