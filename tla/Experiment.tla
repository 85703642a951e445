----------------------------- MODULE Experiment -----------------------------
(***************************************************************************)
(* One run of the experiment: a client that times its block waits          *)
(* (client/client.c, client/main.c), the flooder that drives it            *)
(* (flooder/flooder.c) and the parser that labels the times afterwards     *)
(* (analysis/parser/data_parser.py).                                       *)
(*                                                                         *)
(* The client's main thread requests files and writes a START and an END   *)
(* line around every wait into the timing log, which it opens and closes   *)
(* once per request.  A second thread, flooder_checks, writes into the     *)
(* same descriptor a marker for every notification of the flooder.  The    *)
(* flooder floods and pauses in turn and, after a minute, sends one        *)
(* CONTRO; from then on the client counts its requests down instead of up  *)
(* and stops below zero.                                                   *)
(*                                                                         *)
(* The parser reads the log front to back and keeps nothing but its own    *)
(* variables, so the log is represented by those: each line written is     *)
(* parsed at once.  The server is represented by what Transfer shows of    *)
(* it: a request is answered by all blocks of the file or by none.         *)
(***************************************************************************)
EXTENDS Integers, Sequences

CONSTANTS
  Blocks,       \* blocks of the requested file
  WithControl,  \* the flooder was started with -c
  Duration,     \* seconds of a flood and of a pause (-d)
  Minute,       \* seconds until the control sequence (60 in flooder_run)
  Late,         \* by how many seconds a sleeper may wake late (bound)
  SocketBuffer, \* notifications on their way before write() blocks (bound)
  BaseFd,       \* descriptors the client holds when client_run begins
  MaxFd,        \* its last descriptor
  MaxCounter    \* request_counter while it still counts up (bound)

ASSUME ExperimentAssumption ==
  /\ Blocks \in Nat
  /\ WithControl \in BOOLEAN
  /\ Duration \in Nat \ {0}
  /\ Minute \in Nat
  /\ Late \in Nat
  /\ SocketBuffer \in Nat /\ SocketBuffer >= 2
  /\ BaseFd \in Nat \ {0}
  /\ MaxFd \in Nat /\ MaxFd > BaseFd
  /\ MaxCounter \in Nat

VARIABLES
  mpc,              \* the client's main thread
  fd,               \* its descriptor table
  socketfh,         \* the socket of the current request
  timing_logfh,     \* 0 until the first open(): standard input
  blk,              \* blocks read for the current request
  request_counter,
  kpc,              \* the client's second thread, flooder_checks
  flooder_state,    \* set by it when CONTRO has arrived
  parse,            \* the variables of _parse_client_times
  marked,           \* which markers so far are in the log (history)
  chan,             \* notifications between flooder and client
  fpc,              \* the flooder's main thread
  wait,             \* seconds until its sleep or flood is over
  late,             \* seconds by which it is late already
  elapsed,          \* seconds since start_time, up to Minute + 1
  notified_control

clientVars  == <<mpc, fd, socketfh, timing_logfh, blk, request_counter>>
markerVars  == <<kpc, flooder_state, marked>>
flooderVars == <<fpc, wait, late, elapsed, notified_control>>
vars == <<clientVars, markerVars, parse, chan, flooderVars>>
-----------------------------------------------------------------------------
Ended == {"done", "failed"}
ClientPC == Ended \cup {"connect", "openLog", "start", "wait", "end",
                        "count", "close", "finish"}
Running == mpc \notin Ended

Fds == 0..MaxFd
FreeFds == {n \in Fds : fd[n] = "free"}

\* POSIX: open() and socket() return the lowest descriptor that is free.
IsLowest(n, S) == n \in S /\ \A m \in S : n <= m

Lines == {"START", "END",
          "FLOODER_START", "FLOODER_END", "FLOODER_CONTROL"}

\* Mutant of ParseLine: the marker of the end is taken for a start.
ParseEndAsStart(p, line) ==
  CASE line \in {"FLOODER_START", "FLOODER_END"}
                                -> [p EXCEPT !.flooder_on = TRUE]
    [] line = "FLOODER_CONTROL" -> [p EXCEPT !.control = TRUE]
    [] line = "START"           -> p
    [] line = "END" ->
         IF p.control THEN [p EXCEPT !.ctrl = @ + 1]
         ELSE IF p.flooder_on THEN [p EXCEPT !.with = @ + 1]
         ELSE [p EXCEPT !.without = @ + 1]

\* One turn of the loop in _parse_client_times.
ParseLine(p, line) ==
  CASE line = "FLOODER_START"   -> [p EXCEPT !.flooder_on = TRUE]
    [] line = "FLOODER_END"     -> [p EXCEPT !.flooder_on = FALSE]
    [] line = "FLOODER_CONTROL" -> [p EXCEPT !.control = TRUE]
    [] line = "START"           -> p
    [] line = "END" ->
         IF p.control THEN [p EXCEPT !.ctrl = @ + 1]
         ELSE IF p.flooder_on THEN [p EXCEPT !.with = @ + 1]
         ELSE [p EXCEPT !.without = @ + 1]

\* write() of a line into the timing log.
WriteLine(line) ==
  IF fd[timing_logfh] = "log"
  THEN parse' = ParseLine(parse, line) ELSE UNCHANGED parse
-----------------------------------------------------------------------------
Init ==
  /\ mpc = "connect"
  /\ fd = [n \in Fds |-> IF n = 0 THEN "stdin"
                         ELSE IF n < BaseFd THEN "other" ELSE "free"]
  /\ socketfh = 0
  /\ timing_logfh = 0
  /\ blk = 0
  /\ request_counter = 0
  /\ kpc = "read"
  /\ flooder_state = 0
  /\ parse = [control |-> FALSE, flooder_on |-> TRUE,
              with |-> 0, without |-> 0, ctrl |-> 0]
  /\ marked = "none"
  /\ chan = <<>>
  /\ fpc = "idle"
  /\ wait = Duration
  /\ late = 0
  /\ elapsed = 0
  /\ notified_control = FALSE
-----------------------------------------------------------------------------
(***************************************************************************)
(* The client's main thread.                                               *)
(***************************************************************************)
\* The socket of client_connect.
Connect ==
  /\ mpc = "connect"
  /\ \E n \in Fds :
       /\ IsLowest(n, FreeFds)
       /\ socketfh' = n
       /\ fd' = [fd EXCEPT ![n] = "sock"]
  /\ blk' = 0
  /\ mpc' = "openLog"
  /\ UNCHANGED <<timing_logfh, request_counter, markerVars, parse, chan,
                 flooderVars>>

\* The open() of client_connect, then the request and its acknowledgement.
OpenLog ==
  /\ mpc = "openLog"
  /\ \E n \in Fds :
       /\ IsLowest(n, FreeFds)
       /\ timing_logfh' = n
       /\ fd' = [fd EXCEPT ![n] = "log"]
  /\ mpc' = "start"
  /\ UNCHANGED <<socketfh, blk, request_counter, markerVars, parse, chan,
                 flooderVars>>

\* socket(), connect() or open() fails, or an assertion of
\* client_send_request does because the server is gone: the process ends.
Fail ==
  /\ mpc \in {"connect", "openLog", "wait"}
  /\ mpc' = "failed"
  /\ UNCHANGED <<fd, socketfh, timing_logfh, blk, request_counter,
                 markerVars, parse, chan, flooderVars>>

LogRequestStart ==
  /\ mpc = "start"
  /\ WriteLine("START")
  /\ mpc' = "wait"
  /\ UNCHANGED <<fd, socketfh, timing_logfh, blk, request_counter,
                 markerVars, chan, flooderVars>>

\* A block, or FILE_COMPLETE after the last block or instead of the first:
\* the answer is read and acknowledged.  While it counts up the client is
\* held here by the bound on its counter.
ReadAnswer ==
  /\ mpc = "wait"
  /\ request_counter < MaxCounter \/ flooder_state = 1
  /\ \/ blk < Blocks /\ blk' = blk + 1
     \/ blk \in {0, Blocks} /\ blk' = Blocks + 1
  /\ mpc' = "end"
  /\ UNCHANGED <<fd, socketfh, timing_logfh, request_counter, markerVars,
                 parse, chan, flooderVars>>

\* The first half of log_request_end.
LogRequestEnd ==
  /\ mpc = "end"
  /\ WriteLine("END")
  /\ mpc' = "count"
  /\ UNCHANGED <<fd, socketfh, timing_logfh, blk, request_counter,
                 markerVars, chan, flooderVars>>

\* Mutant of UpdateRequestCounter: flooder_checks never unlocks the mutex it
\* took to set flooder_state.
CountNeedsLock ==
  /\ mpc = "count"
  /\ flooder_state = 0
  /\ request_counter' = request_counter + 1
  /\ mpc' = IF blk = Blocks + 1 THEN "close" ELSE "start"
  /\ UNCHANGED <<fd, socketfh, timing_logfh, blk, markerVars, parse, chan,
                 flooderVars>>

\* Its second half, under the lock; FILE_COMPLETE ends the loop of reads.
UpdateRequestCounter ==
  /\ mpc = "count"
  /\ request_counter' = IF flooder_state = 0 THEN request_counter + 1
                        ELSE request_counter - 1
  /\ mpc' = IF blk = Blocks + 1 THEN "close" ELSE "start"
  /\ UNCHANGED <<fd, socketfh, timing_logfh, blk, markerVars, parse, chan,
                 flooderVars>>

\* Mutant of CloseRequest: the loop already ends at zero.
CloseStopsAtZero ==
  /\ mpc = "close"
  /\ fd' = [fd EXCEPT ![socketfh] = "free", ![timing_logfh] = "free"]
  /\ mpc' = IF request_counter > 0 THEN "connect" ELSE "finish"
  /\ UNCHANGED <<socketfh, timing_logfh, blk, request_counter, markerVars,
                 parse, chan, flooderVars>>

\* Mutant of CloseRequest: the loop waits for the counter to be -1, which it
\* may pass within a file.
CloseStopsAtMinusOne ==
  /\ mpc = "close"
  /\ fd' = [fd EXCEPT ![socketfh] = "free", ![timing_logfh] = "free"]
  /\ mpc' = IF request_counter # -1 THEN "connect" ELSE "finish"
  /\ UNCHANGED <<socketfh, timing_logfh, blk, request_counter, markerVars,
                 parse, chan, flooderVars>>

\* Mutant of CloseRequest: the socket is not closed.
CloseLeavesSocket ==
  /\ mpc = "close"
  /\ fd' = [fd EXCEPT ![timing_logfh] = "free"]
  /\ mpc' = IF request_counter >= 0 THEN "connect" ELSE "finish"
  /\ UNCHANGED <<socketfh, timing_logfh, blk, request_counter, markerVars,
                 parse, chan, flooderVars>>

\* The two close() calls and the loop test of client_run.  The numbers stay
\* in socketfh and timing_logfh.
CloseRequest ==
  /\ mpc = "close"
  /\ fd' = [fd EXCEPT ![socketfh] = "free", ![timing_logfh] = "free"]
  /\ mpc' = IF request_counter >= 0 THEN "connect" ELSE "finish"
  /\ UNCHANGED <<socketfh, timing_logfh, blk, request_counter, markerVars,
                 parse, chan, flooderVars>>

\* main writes the newline for the flooder and returns: the process ends.
Finish ==
  /\ mpc = "finish"
  /\ mpc' = "done"
  /\ UNCHANGED <<fd, socketfh, timing_logfh, blk, request_counter,
                 markerVars, parse, chan, flooderVars>>
-----------------------------------------------------------------------------
(***************************************************************************)
(* The client's second thread, flooder_checks.                             *)
(***************************************************************************)
Marker == [START  |-> "FLOODER_START",
           ENDIN  |-> "FLOODER_END",
           CONTRO |-> "FLOODER_CONTROL"]

\* Read one notification and write its marker, wherever timing_logfh points.
TakeNotification ==
  /\ Running /\ kpc = "read" /\ chan # <<>>
  /\ WriteLine(Marker[Head(chan)])
  /\ marked' = IF fd[timing_logfh] # "log" \/ marked = "some"
               THEN "some" ELSE "all"
  /\ chan' = Tail(chan)
  /\ kpc' = IF Head(chan) = "CONTRO" THEN "flag" ELSE "read"
  /\ UNCHANGED <<flooder_state, clientVars, flooderVars>>

SetFlooderState ==
  /\ Running /\ kpc = "flag"
  /\ flooder_state' = 1
  /\ kpc' = "read"
  /\ UNCHANGED <<marked, parse, chan, clientVars, flooderVars>>
-----------------------------------------------------------------------------
(***************************************************************************)
(* The flooder.                                                            *)
(***************************************************************************)
\* write() to the client; once the client is gone nothing arrives.
Notify(msgs) ==
  IF Running
  THEN /\ Len(chan) + Len(msgs) <= SocketBuffer
       /\ chan' = chan \o msgs
  ELSE UNCHANGED chan

TimeForControl == WithControl /\ elapsed >= Minute /\ ~notified_control

\* Mutant of FloodStart: the flag is set but not looked at.
FloodDuringControl ==
  /\ fpc = "idle" /\ wait = 0
  /\ Notify(IF TimeForControl THEN <<"START", "CONTRO">> ELSE <<"START">>)
  /\ notified_control' = (notified_control \/ TimeForControl)
  /\ fpc' = "flood"
  /\ wait' = Duration
  /\ late' = 0
  /\ UNCHANGED <<elapsed, clientVars, markerVars, parse>>

\* The sleep is over: START, then CONTRO when it is time, then a flood or,
\* once CONTRO has been sent, another sleep.
FloodStart ==
  /\ fpc = "idle" /\ wait = 0
  /\ Notify(IF TimeForControl THEN <<"START", "CONTRO">> ELSE <<"START">>)
  /\ notified_control' = (notified_control \/ TimeForControl)
  /\ fpc' = IF notified_control' THEN "pause" ELSE "flood"
  /\ wait' = Duration
  /\ late' = 0
  /\ UNCHANGED <<elapsed, clientVars, markerVars, parse>>

FloodEnd ==
  /\ fpc \in {"flood", "pause"} /\ wait = 0
  /\ Notify(<<"ENDIN">>)
  /\ fpc' = "idle"
  /\ wait' = Duration
  /\ late' = 0
  /\ UNCHANGED <<elapsed, notified_control, clientVars, markerVars, parse>>

\* A second passes.  A thread whose time has come runs within Late seconds.
Tick ==
  /\ fpc \in {"idle", "flood", "pause"}
  /\ wait > 0 \/ late < Late
  /\ wait' = IF wait > 0 THEN wait - 1 ELSE 0
  /\ late' = IF wait > 0 THEN 0 ELSE late + 1
  /\ elapsed' = IF elapsed <= Minute THEN elapsed + 1 ELSE elapsed
  /\ UNCHANGED <<fpc, notified_control, clientVars, markerVars, parse, chan>>

\* Mutant of FlooderExit: the end of the connection is not noticed.
ExitOnNewline ==
  /\ fpc \in {"idle", "flood", "pause"}
  /\ mpc = "done"
  /\ fpc' = "exited"
  /\ UNCHANGED <<wait, late, elapsed, notified_control, clientVars,
                 markerVars, parse, chan>>

\* flooder_test_connection has read the client's newline or the end of the
\* connection: exit(5).  A notification after the client's end may also kill
\* the flooder with SIGPIPE; either way it ends.
FlooderExit ==
  /\ fpc \in {"idle", "flood", "pause"}
  /\ ~Running
  /\ fpc' = "exited"
  /\ UNCHANGED <<wait, late, elapsed, notified_control, clientVars,
                 markerVars, parse, chan>>

\* The flooder is killed, or cannot start: nothing starts it again.
FlooderKilled ==
  /\ fpc \in {"idle", "flood", "pause"}
  /\ Running
  /\ fpc' = "killed"
  /\ UNCHANGED <<wait, late, elapsed, notified_control, clientVars,
                 markerVars, parse, chan>>
-----------------------------------------------------------------------------
MainStep ==
  \/ Connect \/ OpenLog \/ LogRequestStart \/ ReadAnswer \/ LogRequestEnd
  \/ UpdateRequestCounter \/ CloseRequest \/ Finish

MarkerStep == TakeNotification \/ SetFlooderState

FlooderStep == FloodStart \/ FloodEnd

\* Once the flooder is gone the run may come to rest: the client has ended, or
\* nobody tells it to and the bound on its counter holds it.
Quiet ==
  /\ fpc \in {"exited", "killed"}
  /\ UNCHANGED vars

Next ==
  \/ MainStep \/ Fail
  \/ MarkerStep
  \/ FlooderStep \/ Tick \/ FlooderExit \/ FlooderKilled
  \/ Quiet

Spec == Init /\ [][Next]_vars

\* Every thread that can run does, the server answers (RequestAnswered of
\* Transfer) and time passes; no failure is ever due.
Fairness ==
  /\ WF_vars(MainStep)
  /\ WF_vars(MarkerStep)
  /\ WF_vars(FlooderStep)
  /\ WF_vars(Tick)
  /\ WF_vars(FlooderExit)

FairSpec == Spec /\ Fairness
-----------------------------------------------------------------------------
(***************************************************************************)
(* Properties.                                                             *)
(***************************************************************************)
\* Every variable stays in its range, the bounded ones within their bounds.  The
\* counter falls below zero by no more than the waits of one file, although it
\* is tested only between files (client.c:46).
TypeOK ==
  /\ mpc \in ClientPC
  /\ fd \in [Fds -> {"stdin", "other", "free", "sock", "log"}]
  /\ socketfh \in Fds
  /\ timing_logfh \in Fds
  /\ blk \in 0..(Blocks + 1)
  /\ request_counter \in (-(Blocks + 1))..MaxCounter
  /\ kpc \in {"read", "flag"}
  /\ flooder_state \in {0, 1}
  /\ parse \in [control : BOOLEAN, flooder_on : BOOLEAN,
                with : Nat, without : Nat, ctrl : Nat]
  /\ marked \in {"none", "all", "some"}
  /\ chan \in Seq({"START", "ENDIN", "CONTRO"})
  /\ Len(chan) <= SocketBuffer
  /\ fpc \in {"idle", "flood", "pause", "exited", "killed"}
  /\ wait \in 0..Duration
  /\ late \in 0..Late
  /\ elapsed \in 0..(Minute + 1)
  /\ notified_control \in BOOLEAN

\* timing_logfh keeps its number after the log is closed, and flooder_checks
\* writes to that number at any moment (main.c:40): it is never the number of
\* a socket, so no marker is ever sent to the server, and the START and END
\* lines of the main thread always reach the log.
LinesReachLog ==
  /\ fd[timing_logfh] \in {"stdin", "free", "log"}
  /\ mpc \in {"start", "wait", "end", "count"} => fd[timing_logfh] = "log"

\* The counter makes the control sample as large as the normal one: when the
\* client stops (client.c:46), and the CONTROL marker is in the log, the
\* parser files at most one RTT more under normal than under control,
\* whatever the race between the marker, flooder_state and the counter.
BalancedSample ==
  mpc = "done" /\ parse.control
    => parse.with + parse.without <= parse.ctrl + 1

\* When every marker so far is in the log and none is on its way, the label
\* the parser would give next (data_parser.py:53) is what the flooder is doing
\* now: notifications neither overtake each other nor go missing elsewhere.
LabelsCaughtUp ==
  /\ Running /\ marked = "all" /\ chan = <<>>
  /\ fpc \in {"idle", "flood", "pause"}
  => parse.flooder_on = (fpc # "idle")

\* While the parser files RTTs under control the flooder never floods.
ControlIsQuiet ==
  parse.control => fpc # "flood"

\* A client told of the control sequence ends: its counter falls below zero.
ControlEndsClient ==
  flooder_state = 1 ~> ~Running

\* A run with a control sequence ends, client and flooder, unless somebody
\* kills the flooder.
ExperimentEnds ==
  <>(fpc = "killed" \/ (~Running /\ fpc = "exited"))

\* "notify_client() // Notify Start of control sequence" (flooder.pseudo:11):
\* a client that has gone through the control sequence has it in its log.
ControlRecorded ==
  mpc = "done" => parse.control
=============================================================================
