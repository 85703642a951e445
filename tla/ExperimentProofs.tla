-------------------------- MODULE ExperimentProofs --------------------------
(***************************************************************************)
(* Proofs about Experiment, for every file size, duration, delay and       *)
(* number of descriptors.                                                  *)
(***************************************************************************)
EXTENDS Experiment, TLAPS

Notification == {"START", "ENDIN", "CONTRO"}

\* What a line makes of the parser's variables stays in their range.
LEMMA ParseLineType ==
  ASSUME NEW p \in [control : BOOLEAN, flooder_on : BOOLEAN,
                    with : Nat, without : Nat, ctrl : Nat],
         NEW line \in Lines
  PROVE  ParseLine(p, line) \in [control : BOOLEAN, flooder_on : BOOLEAN,
                                 with : Nat, without : Nat, ctrl : Nat]
<1>1. CASE line \in {"FLOODER_START", "FLOODER_END"}
  BY <1>1 DEF ParseLine
<1>2. CASE line \in {"FLOODER_CONTROL", "START"}
  BY <1>2 DEF ParseLine
<1>3. CASE line = "END"
  BY <1>3 DEF ParseLine
<1> QED BY <1>1, <1>2, <1>3 DEF Lines

\* The elements of a queue after its head has been taken and after messages
\* have been added to it.
LEMMA QueueElements ==
  ASSUME NEW S, NEW q \in Seq(S)
  PROVE  /\ q # <<>> => /\ Len(q) \in Nat \ {0}
                        /\ Head(q) = q[1] /\ q[1] \in S
                        /\ Tail(q) \in Seq(S)
                        /\ Len(Tail(q)) = Len(q) - 1
                        /\ \A i \in 1..(Len(q) - 1) : Tail(q)[i] = q[i + 1]
         /\ \A r \in Seq(S) :
              /\ q \o r \in Seq(S)
              /\ Len(q \o r) = Len(q) + Len(r)
              /\ \A i \in 1..Len(q) : (q \o r)[i] = q[i]
              /\ \A i \in (Len(q) + 1)..(Len(q) + Len(r)) :
                   (q \o r)[i] = r[i - Len(q)]
OBVIOUS

\* The counter is not negative when a request begins and has lost at most one
\* for every wait since; it was below its bound before the wait that has yet to
\* be counted, or counts down.
Counter ==
  /\ mpc \in {"end", "count"} =>
       /\ request_counter + blk >= 1
       /\ flooder_state = 1 \/ request_counter < MaxCounter
  /\ mpc \notin {"end", "count"} => request_counter + blk >= 0
  /\ mpc = "connect" => request_counter >= 0

\* The initial state is typed.
LEMMA InitType == ASSUME Init PROVE TypeOK /\ Counter
BY ExperimentAssumption
   DEF Init, TypeOK, ClientPC, Ended, Fds, Counter

\* Every step keeps what the counter has lost within the waits of the file.
LEMMA StepCounter == ASSUME TypeOK, Counter, [Next]_vars PROVE Counter'
<1>0. /\ request_counter \in Int /\ blk \in Nat /\ Blocks \in Nat
      /\ MaxCounter \in Nat /\ flooder_state \in {0, 1}
  BY ExperimentAssumption DEF TypeOK
<1>1. ASSUME Connect PROVE Counter'
  BY <1>0, <1>1 DEF Connect, Counter
<1>2. ASSUME ReadAnswer PROVE Counter'
  <2>1. /\ mpc = "wait" /\ mpc' = "end" /\ UNCHANGED <<request_counter, flooder_state>>
        /\ flooder_state = 1 \/ request_counter < MaxCounter
    BY <1>0, <1>2 DEF ReadAnswer, markerVars
  <2>2. blk' \in Nat /\ blk' >= blk + 1
    <3>1. \/ blk < Blocks /\ blk' = blk + 1
          \/ blk \in {0, Blocks} /\ blk' = Blocks + 1
      BY <1>2 DEF ReadAnswer
    <3> QED BY <1>0, <3>1
  <2>3. request_counter + blk >= 0
    BY <2>1 DEF Counter
  <2>4. request_counter' = request_counter
    BY <2>1
  <2>5. \A a \in Int, b, d \in Nat : a + b >= 0 /\ d >= b + 1 => a + d >= 1
    OBVIOUS
  <2>6. request_counter + blk' >= 1
    BY <1>0, <2>2, <2>3, <2>5
  <2> QED BY <2>1, <2>4, <2>6 DEF Counter
<1>3. ASSUME UpdateRequestCounter PROVE Counter'
  <2>1. /\ mpc = "count" /\ mpc' \in {"close", "start"} /\ blk' = blk
    BY <1>3 DEF UpdateRequestCounter
  <2>2. request_counter' = request_counter + 1 \/ request_counter' = request_counter - 1
    BY <1>3 DEF UpdateRequestCounter
  <2>3. request_counter + blk >= 1
    BY <2>1 DEF Counter
  <2>4. request_counter' + blk' >= 0
    BY <1>0, <2>1, <2>2, <2>3
  <2> QED BY <2>1, <2>4 DEF Counter
<1>4. ASSUME CloseRequest PROVE Counter'
  BY <1>0, <1>4 DEF CloseRequest, Counter
<1>5. ASSUME OpenLog \/ LogRequestStart \/ LogRequestEnd \/ Finish \/ Fail
      PROVE  Counter'
  <2>1. /\ UNCHANGED <<request_counter, blk, flooder_state>>
        /\ mpc \in {"end", "count"} <=> mpc' \in {"end", "count"}
        /\ mpc' # "connect"
    BY <1>5 DEF OpenLog, LogRequestStart, LogRequestEnd, Finish, Fail, markerVars
  <2> QED BY <2>1 DEF Counter
<1>6. ASSUME TakeNotification \/ SetFlooderState PROVE Counter'
  <2>1. /\ UNCHANGED <<request_counter, blk, mpc>>
        /\ flooder_state' \in {flooder_state, 1}
    BY <1>6 DEF TakeNotification, SetFlooderState, clientVars
  <2> QED BY <2>1 DEF Counter
<1>7. ASSUME \/ FloodStart \/ FloodEnd \/ Tick \/ FlooderExit \/ FlooderKilled
             \/ Quiet \/ UNCHANGED vars
      PROVE  Counter'
  <2>1. UNCHANGED <<request_counter, blk, mpc, flooder_state>>
    BY <1>7 DEF FloodStart, FloodEnd, Tick, FlooderExit, FlooderKilled, Quiet,
                vars, clientVars, markerVars
  <2> QED BY <2>1 DEF Counter
<1> QED BY <1>1, <1>2, <1>3, <1>4, <1>5, <1>6, <1>7
        DEF Next, MainStep, MarkerStep, FlooderStep

\* Every step keeps the types.
LEMMA StepType == ASSUME TypeOK, Counter, [Next]_vars PROVE TypeOK'
<1> USE ExperimentAssumption DEF TypeOK, ClientPC, Ended, Fds
<1>1. ASSUME Connect PROVE TypeOK'
  BY <1>1 DEF Connect, IsLowest, FreeFds, markerVars, flooderVars
<1>2. ASSUME OpenLog PROVE TypeOK'
  BY <1>2 DEF OpenLog, IsLowest, FreeFds, markerVars, flooderVars
<1>3. ASSUME LogRequestStart PROVE TypeOK'
  <2>1. parse' \in [control : BOOLEAN, flooder_on : BOOLEAN,
                    with : Nat, without : Nat, ctrl : Nat]
    BY <1>3, ParseLineType DEF LogRequestStart, WriteLine, Lines
  <2> QED BY <1>3, <2>1 DEF LogRequestStart, markerVars, flooderVars
<1>4. ASSUME ReadAnswer PROVE TypeOK'
  BY <1>4 DEF ReadAnswer, markerVars, flooderVars
<1>5. ASSUME LogRequestEnd PROVE TypeOK'
  <2>1. parse' \in [control : BOOLEAN, flooder_on : BOOLEAN,
                    with : Nat, without : Nat, ctrl : Nat]
    BY <1>5, ParseLineType DEF LogRequestEnd, WriteLine, Lines
  <2> QED BY <1>5, <2>1 DEF LogRequestEnd, markerVars, flooderVars
<1>6. ASSUME UpdateRequestCounter PROVE TypeOK'
  <2>1. /\ request_counter + blk >= 1
        /\ flooder_state = 1 \/ request_counter < MaxCounter
    BY <1>6 DEF UpdateRequestCounter, Counter
  <2>2. request_counter' = IF flooder_state = 0 THEN request_counter + 1
                                                ELSE request_counter - 1
    BY <1>6 DEF UpdateRequestCounter
  <2>3. request_counter' \in (-(Blocks + 1))..MaxCounter
    BY <2>1, <2>2
  <2> QED BY <1>6, <2>3 DEF UpdateRequestCounter, markerVars, flooderVars
<1>7. ASSUME CloseRequest PROVE TypeOK'
  BY <1>7 DEF CloseRequest, markerVars, flooderVars
<1>8. ASSUME Finish PROVE TypeOK'
  BY <1>8 DEF Finish, markerVars, flooderVars
<1>9. ASSUME Fail PROVE TypeOK'
  BY <1>9 DEF Fail, markerVars, flooderVars
<1>10. ASSUME TakeNotification PROVE TypeOK'
  <2>1. chan \in Seq(Notification) /\ chan # <<>>
    BY <1>10 DEF TakeNotification, Notification
  <2>2. /\ Head(chan) \in Notification
        /\ Tail(chan) \in Seq(Notification)
        /\ Len(Tail(chan)) <= SocketBuffer
    BY <2>1, QueueElements
  <2>3. Marker[Head(chan)] \in Lines
    BY <2>2 DEF Marker, Lines, Notification
  <2>4. parse' \in [control : BOOLEAN, flooder_on : BOOLEAN,
                    with : Nat, without : Nat, ctrl : Nat]
    <3>1. WriteLine(Marker[Head(chan)])
      BY <1>10 DEF TakeNotification
    <3> QED BY <2>3, <3>1, ParseLineType DEF WriteLine
  <2> QED BY <1>10, <2>2, <2>4
          DEF TakeNotification, Notification, clientVars, flooderVars
<1>11. ASSUME SetFlooderState PROVE TypeOK'
  BY <1>11 DEF SetFlooderState, clientVars, flooderVars
<1>12. ASSUME NEW msgs \in Seq(Notification), Notify(msgs)
       PROVE  chan' \in Seq(Notification) /\ Len(chan') <= SocketBuffer
  <2>1. chan \in Seq(Notification)
    BY DEF Notification
  <2>2. Len(chan) \in Nat /\ Len(msgs) \in Nat
    BY <2>1
  <2>3. chan \o msgs \in Seq(Notification)
    BY <2>1
  <2>4. Len(chan \o msgs) = Len(chan) + Len(msgs)
    BY <2>1
  <2> QED BY <1>12, <2>1, <2>2, <2>3, <2>4 DEF Notify
<1>13. ASSUME FloodStart PROVE TypeOK'
  <2>1. chan' \in Seq(Notification) /\ Len(chan') <= SocketBuffer
    <3>1. /\ <<"START", "CONTRO">> \in Seq(Notification)
          /\ <<"START">> \in Seq(Notification)
      BY DEF Notification
    <3> QED BY <1>13, <3>1, <1>12 DEF FloodStart
  <2> QED BY <1>13, <2>1
          DEF FloodStart, TimeForControl, Notification, clientVars, markerVars
<1>14. ASSUME FloodEnd PROVE TypeOK'
  <2>1. chan' \in Seq(Notification) /\ Len(chan') <= SocketBuffer
    <3>1. <<"ENDIN">> \in Seq(Notification)
      BY DEF Notification
    <3> QED BY <1>14, <3>1, <1>12 DEF FloodEnd
  <2> QED BY <1>14, <2>1 DEF FloodEnd, Notification, clientVars, markerVars
<1>15. ASSUME Tick PROVE TypeOK'
  BY <1>15 DEF Tick, clientVars, markerVars
<1>16. ASSUME FlooderExit \/ FlooderKilled PROVE TypeOK'
  <2>1. /\ fpc' \in {"exited", "killed"}
        /\ UNCHANGED <<clientVars, markerVars, parse, chan>>
        /\ UNCHANGED <<wait, late, elapsed, notified_control>>
    BY <1>16 DEF FlooderExit, FlooderKilled
  <2> QED BY <2>1 DEF clientVars, markerVars
<1>17. ASSUME UNCHANGED vars PROVE TypeOK'
  BY <1>17 DEF vars, clientVars, markerVars, flooderVars
<1> QED
  BY <1>1, <1>2, <1>3, <1>4, <1>5, <1>6, <1>7, <1>8, <1>9, <1>10, <1>11,
     <1>13, <1>14, <1>15, <1>16, <1>17
  DEF Next, MainStep, MarkerStep, FlooderStep, Quiet

\* The experiment's variables stay in their ranges and bounds.
THEOREM TypeCorrect == Spec => []TypeOK
<1>1. Init => TypeOK /\ Counter
  BY InitType
<1>2. TypeOK /\ Counter /\ [Next]_vars => TypeOK' /\ Counter'
  BY StepType, StepCounter
<1> QED BY <1>1, <1>2, PTL DEF Spec
-----------------------------------------------------------------------------
(***************************************************************************)
(* Descriptors.  client_connect takes the two lowest free descriptors in   *)
(* the same order for every request, and both are closed before the next:  *)
(* the socket is always BaseFd and the log always BaseFd + 1.              *)
(***************************************************************************)
Table(sock, log) ==
  [n \in Fds |-> IF n = 0 THEN "stdin"
                 ELSE IF n < BaseFd THEN "other"
                 ELSE IF n = BaseFd /\ sock THEN "sock"
                 ELSE IF n = BaseFd + 1 /\ log THEN "log"
                 ELSE "free"]

Between == /\ mpc \in {"connect", "finish", "done", "failed"}
           /\ fd = Table(FALSE, FALSE)
           /\ timing_logfh \in {0, BaseFd + 1}

Connected == /\ mpc \in {"openLog", "failed"}
             /\ fd = Table(TRUE, FALSE)
             /\ socketfh = BaseFd
             /\ timing_logfh \in {0, BaseFd + 1}

Requesting == /\ mpc \in {"start", "wait", "end", "count", "close", "failed"}
              /\ fd = Table(TRUE, TRUE)
              /\ socketfh = BaseFd
              /\ timing_logfh = BaseFd + 1

Descriptors == Between \/ Connected \/ Requesting

\* The table before the first request.
LEMMA InitDescriptors == ASSUME Init PROVE Descriptors
BY ExperimentAssumption DEF Init, Descriptors, Between, Table

\* The lowest free descriptor of each table client_connect meets.
LEMMA LowestFree ==
  ASSUME NEW n \in Fds, IsLowest(n, FreeFds)
  PROVE  /\ fd = Table(FALSE, FALSE) => n = BaseFd
         /\ fd = Table(TRUE, FALSE) => n = BaseFd + 1
BY ExperimentAssumption DEF IsLowest, FreeFds, Table, Fds

\* Every step keeps the descriptors where they are expected.
LEMMA StepDescriptors ==
  ASSUME Descriptors, [Next]_vars PROVE Descriptors'
<1> USE ExperimentAssumption
<1>1. ASSUME Connect PROVE Descriptors'
  <2>1. Between
    BY <1>1 DEF Connect, Descriptors, Between, Connected, Requesting
  <2>2. PICK n \in Fds : /\ IsLowest(n, FreeFds)
                         /\ socketfh' = n
                         /\ fd' = [fd EXCEPT ![n] = "sock"]
    BY <1>1 DEF Connect
  <2>3. n = BaseFd
    BY <2>1, <2>2, LowestFree DEF Between
  <2>4. fd' = Table(TRUE, FALSE)
    BY <2>1, <2>2, <2>3 DEF Between, Table, Fds
  <2>5. mpc' = "openLog" /\ timing_logfh' = timing_logfh
    BY <1>1 DEF Connect
  <2>6. Connected'
    BY <2>1, <2>2, <2>3, <2>4, <2>5 DEF Between, Connected, Table, Fds
  <2> QED BY <2>6 DEF Descriptors
<1>2. ASSUME OpenLog PROVE Descriptors'
  <2>1. Connected
    BY <1>2 DEF OpenLog, Descriptors, Between, Connected, Requesting
  <2>2. PICK n \in Fds : /\ IsLowest(n, FreeFds)
                         /\ timing_logfh' = n
                         /\ fd' = [fd EXCEPT ![n] = "log"]
    BY <1>2 DEF OpenLog
  <2>3. n = BaseFd + 1
    BY <2>1, <2>2, LowestFree DEF Connected
  <2>4. fd' = Table(TRUE, TRUE)
    BY <2>1, <2>2, <2>3 DEF Connected, Table, Fds
  <2>5. mpc' = "start" /\ socketfh' = socketfh
    BY <1>2 DEF OpenLog
  <2>6. Requesting'
    BY <2>1, <2>2, <2>3, <2>4, <2>5 DEF Connected, Requesting, Table, Fds
  <2> QED BY <2>6 DEF Descriptors
<1>3. ASSUME CloseRequest PROVE Descriptors'
  <2>1. Requesting
    BY <1>3 DEF CloseRequest, Descriptors, Between, Connected, Requesting
  <2>2. fd' = Table(FALSE, FALSE)
    BY <1>3, <2>1 DEF CloseRequest, Requesting, Table, Fds
  <2>3. mpc' \in {"connect", "finish"} /\ timing_logfh' = timing_logfh
    BY <1>3 DEF CloseRequest
  <2>4. Between'
    BY <2>1, <2>2, <2>3 DEF Between, Requesting, Table, Fds
  <2> QED BY <2>4 DEF Descriptors
<1>4. ASSUME \/ LogRequestStart \/ ReadAnswer \/ LogRequestEnd
             \/ UpdateRequestCounter
      PROVE  Descriptors'
  <2>1. Requesting
    BY <1>4 DEF LogRequestStart, ReadAnswer, LogRequestEnd,
                UpdateRequestCounter, Descriptors, Between, Connected,
                Requesting
  <2>2. /\ mpc' \in {"start", "wait", "end", "count", "close"}
        /\ UNCHANGED <<fd, socketfh, timing_logfh>>
    BY <1>4 DEF LogRequestStart, ReadAnswer, LogRequestEnd,
                UpdateRequestCounter
  <2>3. Requesting'
    BY <2>1, <2>2 DEF Requesting, Table, Fds
  <2> QED BY <2>3 DEF Descriptors
<1>5. ASSUME Finish \/ Fail PROVE Descriptors'
  BY <1>5 DEF Finish, Fail, Descriptors, Between, Connected, Requesting,
              Table, Fds
<1>6. ASSUME UNCHANGED clientVars PROVE Descriptors'
  BY <1>6 DEF clientVars, Descriptors, Between, Connected, Requesting,
              Table, Fds
<1>7. MarkerStep \/ FlooderStep \/ Tick \/ FlooderExit \/ FlooderKilled
        \/ Quiet \/ UNCHANGED vars
      => UNCHANGED clientVars
  BY DEF MarkerStep, FlooderStep, TakeNotification, SetFlooderState,
         FloodStart, FloodEnd, Tick, FlooderExit, FlooderKilled, Quiet, vars
<1> QED BY <1>1, <1>2, <1>3, <1>4, <1>5, <1>6, <1>7 DEF Next, MainStep

\* Where the descriptors are, the lines go into the log.
LEMMA DescriptorsGiveLog ==
  ASSUME Descriptors PROVE LinesReachLog
BY ExperimentAssumption
   DEF Descriptors, Between, Connected, Requesting, LinesReachLog, Table, Fds

\* No marker is ever written to a socket and no START or END line is lost
\* (client.c:26, 142; main.c:40): LinesReachLog for every descriptor table.
THEOREM LogIsTheLog == Spec => []LinesReachLog
<1>1. Init => Descriptors
  BY InitDescriptors
<1>2. Descriptors /\ [Next]_vars => Descriptors'
  BY StepDescriptors
<1>3. Descriptors => LinesReachLog
  BY DescriptorsGiveLog
<1> QED BY <1>1, <1>2, <1>3, PTL DEF Spec
-----------------------------------------------------------------------------
(***************************************************************************)
(* The control sequence.  CONTRO is sent once; it is in the socket, or     *)
(* between marker and flag, or flooder_state is set.                       *)
(***************************************************************************)
Once ==
  /\ ~notified_control =>
       /\ ~parse.control /\ flooder_state = 0 /\ kpc = "read"
       /\ \A i \in 1..Len(chan) : chan[i] # "CONTRO"
  /\ \A i \in 1..Len(chan) : chan[i] = "CONTRO" =>
       /\ ~parse.control /\ flooder_state = 0 /\ kpc = "read"
       /\ \A j \in 1..Len(chan) : chan[j] = "CONTRO" => j = i
  /\ kpc = "flag" => flooder_state = 0
  /\ fpc = "flood" => ~notified_control

\* Before the first notification nothing is on its way.
LEMMA InitOnce == ASSUME Init PROVE Once
BY DEF Init, Once

\* Only the marker of CONTRO moves the parser to control.
LEMMA ControlLine ==
  ASSUME NEW p \in [control : BOOLEAN, flooder_on : BOOLEAN,
                    with : Nat, without : Nat, ctrl : Nat],
         NEW line \in Lines
  PROVE  /\ line # "FLOODER_CONTROL" => ParseLine(p, line).control = p.control
         /\ line # "END" => /\ ParseLine(p, line).with = p.with
                            /\ ParseLine(p, line).without = p.without
                            /\ ParseLine(p, line).ctrl = p.ctrl
<1>1. CASE line \in {"FLOODER_START", "FLOODER_END"}
  BY <1>1 DEF ParseLine
<1>2. CASE line \in {"FLOODER_CONTROL", "START"}
  BY <1>2 DEF ParseLine
<1>3. CASE line = "END"
  BY <1>3 DEF ParseLine
<1> QED BY <1>1, <1>2, <1>3 DEF Lines

\* Every step keeps the control sequence in order.
LEMMA StepOnce ==
  ASSUME TypeOK, Once, [Next]_vars PROVE Once'
<1> DEFINE P == [control : BOOLEAN, flooder_on : BOOLEAN,
                 with : Nat, without : Nat, ctrl : Nat]
<1>0. /\ chan \in Seq(Notification) /\ parse \in P
      /\ Len(chan) \in Nat
      /\ notified_control \in BOOLEAN
  BY DEF TypeOK, Notification
<1>1. ASSUME LogRequestStart \/ LogRequestEnd PROVE Once'
  <2>1. /\ UNCHANGED <<notified_control, flooder_state, kpc, chan, fpc>>
        /\ WriteLine("START") \/ WriteLine("END")
    BY <1>1 DEF LogRequestStart, LogRequestEnd, markerVars, flooderVars
  <2>2. parse'.control = parse.control
    BY <2>1, <1>0, ControlLine DEF WriteLine, Lines
  <2> QED BY <2>1, <2>2 DEF Once
<1>2. ASSUME TakeNotification PROVE Once'
  <2>1. /\ kpc = "read" /\ chan # <<>>
        /\ chan' = Tail(chan)
        /\ kpc' = IF Head(chan) = "CONTRO" THEN "flag" ELSE "read"
        /\ UNCHANGED <<notified_control, flooder_state, fpc>>
        /\ WriteLine(Marker[Head(chan)])
    BY <1>2 DEF TakeNotification, clientVars, flooderVars
  <2>2. /\ Len(chan) \in Nat \ {0} /\ 1 \in 1..Len(chan)
        /\ Head(chan) = chan[1] /\ chan[1] \in Notification
        /\ Len(chan') = Len(chan) - 1
        /\ \A i \in 1..Len(chan') : /\ chan'[i] = chan[i + 1]
                                    /\ i + 1 \in 1..Len(chan)
                                    /\ i + 1 # 1
    BY <1>0, <2>1, QueueElements
  <2>3. ASSUME Head(chan) = "CONTRO"
        PROVE  /\ notified_control /\ flooder_state = 0
               /\ \A i \in 1..Len(chan') : chan'[i] # "CONTRO"
    BY <2>2, <2>3, <1>0 DEF Once
  <2>4. ASSUME Head(chan) # "CONTRO" PROVE parse'.control = parse.control
    <3>1. Marker[Head(chan)] \in Lines \ {"FLOODER_CONTROL"}
      BY <2>2, <2>4 DEF Marker, Lines, Notification
    <3> QED BY <3>1, <2>1, <1>0, ControlLine DEF WriteLine
  <2>5. CASE Head(chan) = "CONTRO"
    BY <2>1, <2>3, <2>5 DEF Once
  <2>6. CASE Head(chan) # "CONTRO"
    <3>1. /\ kpc' = "read" /\ kpc = "read"
          /\ parse'.control = parse.control
          /\ UNCHANGED <<notified_control, flooder_state, fpc>>
      BY <2>1, <2>4, <2>6
    <3>2. ASSUME ~notified_control
          PROVE  \A i \in 1..Len(chan') : chan'[i] # "CONTRO"
      BY <2>2, <3>2 DEF Once
    <3>3. ASSUME NEW i \in 1..Len(chan'), chan'[i] = "CONTRO"
          PROVE  /\ ~parse.control /\ flooder_state = 0
                 /\ \A j \in 1..Len(chan') : chan'[j] = "CONTRO" => j = i
      <4>1. /\ i + 1 \in 1..Len(chan) /\ chan[i + 1] = "CONTRO"
        BY <2>2, <3>3
      <4>2. \A j \in 1..Len(chan) : chan[j] = "CONTRO" => j = i + 1
        BY <4>1 DEF Once
      <4>3. ASSUME NEW j \in 1..Len(chan'), chan'[j] = "CONTRO"
            PROVE  j = i
        <5>1. j + 1 = i + 1
          BY <4>2, <4>3, <2>2
        <5> QED BY <5>1, <2>2
      <4> QED BY <4>1, <4>3 DEF Once
    <3> QED BY <3>1, <3>2, <3>3 DEF Once
  <2> QED BY <2>5, <2>6
<1>3. ASSUME SetFlooderState PROVE Once'
  <2>1. /\ kpc = "flag" /\ kpc' = "read"
        /\ UNCHANGED <<parse, chan, notified_control, fpc>>
    BY <1>3 DEF SetFlooderState, clientVars, flooderVars
  <2>2. /\ notified_control
        /\ \A i \in 1..Len(chan) : chan[i] # "CONTRO"
    BY <2>1 DEF Once
  <2> QED BY <2>1, <2>2 DEF Once
<1>4. ASSUME NEW msgs \in Seq(Notification), Notify(msgs)
      PROVE  \/ UNCHANGED chan
             \/ /\ Len(msgs) \in Nat
                /\ Len(chan') = Len(chan) + Len(msgs)
                /\ \A i \in 1..Len(chan) : chan'[i] = chan[i]
                /\ \A i \in (Len(chan) + 1)..(Len(chan) + Len(msgs)) :
                     chan'[i] = msgs[i - Len(chan)]
  BY <1>0, <1>4, QueueElements DEF Notify
<1>5. ASSUME FloodStart PROVE Once'
  <2> DEFINE msgs == IF TimeForControl THEN <<"START", "CONTRO">>
                                       ELSE <<"START">>
  <2>1. /\ Notify(msgs)
        /\ UNCHANGED <<parse, flooder_state, kpc>>
        /\ notified_control' = (notified_control \/ TimeForControl)
        /\ fpc' = IF notified_control' THEN "pause" ELSE "flood"
    BY <1>5 DEF FloodStart, clientVars, markerVars
  <2>2. msgs \in Seq(Notification)
    <3>1. /\ <<"START", "CONTRO">> \in Seq(Notification)
          /\ <<"START">> \in Seq(Notification)
      BY DEF Notification
    <3> QED BY <3>1
  <2>3. \/ UNCHANGED chan
        \/ /\ Len(chan') = Len(chan) + Len(msgs)
           /\ \A i \in 1..Len(chan) : chan'[i] = chan[i]
           /\ \A i \in (Len(chan) + 1)..(Len(chan) + Len(msgs)) :
                chan'[i] = msgs[i - Len(chan)]
    BY <2>1, <2>2, <1>4
  <2>4. CASE ~TimeForControl
    <3>1. /\ notified_control' = notified_control
          /\ Len(msgs) = 1 /\ msgs[1] = "START"
      BY <2>1, <2>4, <1>0
    <3>2. \/ UNCHANGED chan
          \/ /\ Len(chan') = Len(chan) + 1
             /\ \A i \in 1..Len(chan) : chan'[i] = chan[i]
             /\ chan'[Len(chan) + 1] = "START"
      BY <2>3, <3>1, <1>0
    <3>3. \A i \in 1..Len(chan') : chan'[i] = "CONTRO" =>
            i \in 1..Len(chan) /\ chan[i] = "CONTRO"
      BY <3>2, <1>0
    <3> QED BY <2>1, <3>1, <3>3, <1>0 DEF Once
  <2>5. CASE TimeForControl
    <3>1. /\ notified_control' /\ ~notified_control
          /\ Len(msgs) = 2 /\ msgs[1] = "START" /\ msgs[2] = "CONTRO"
      BY <2>1, <2>5, <1>0 DEF TimeForControl
    <3>2. /\ ~parse.control /\ flooder_state = 0 /\ kpc = "read"
          /\ \A i \in 1..Len(chan) : chan[i] # "CONTRO"
      BY <3>1 DEF Once
    <3>3. \/ UNCHANGED chan
          \/ /\ Len(chan') = Len(chan) + 2
             /\ \A i \in 1..Len(chan) : chan'[i] = chan[i]
             /\ chan'[Len(chan) + 1] = "START"
      <4>1. /\ Len(chan) + 1 - Len(chan) = 1
            /\ Len(chan) + 1 \in (Len(chan) + 1)..(Len(chan) + 2)
        BY <1>0
      <4> QED BY <2>3, <3>1, <4>1
    <3>4. \A i \in 1..Len(chan') : chan'[i] = "CONTRO" => i = Len(chan) + 2
      BY <3>2, <3>3, <1>0
    <3> QED BY <2>1, <3>1, <3>2, <3>4, <1>0 DEF Once
  <2> QED BY <2>4, <2>5
<1>6. ASSUME FloodEnd PROVE Once'
  <2>1. /\ Notify(<<"ENDIN">>)
        /\ UNCHANGED <<parse, flooder_state, kpc, notified_control>>
        /\ fpc' = "idle"
    BY <1>6 DEF FloodEnd, clientVars, markerVars
  <2>2. <<"ENDIN">> \in Seq(Notification)
    BY DEF Notification
  <2>3. \/ UNCHANGED chan
        \/ /\ Len(chan') = Len(chan) + 1
           /\ \A i \in 1..Len(chan) : chan'[i] = chan[i]
           /\ chan'[Len(chan) + 1] = "ENDIN"
    <3> DEFINE msgs == <<"ENDIN">>
    <3>1. /\ Len(msgs) = 1 /\ msgs[1] = "ENDIN"
          /\ msgs \in Seq(Notification) /\ Notify(msgs)
      BY <2>1, <2>2
    <3>2. /\ Len(chan) + 1 - Len(chan) = 1
          /\ Len(chan) + 1 \in (Len(chan) + 1)..(Len(chan) + 1)
      BY <1>0
    <3> HIDE DEF msgs
    <3>3. \/ UNCHANGED chan
          \/ /\ Len(chan') = Len(chan) + Len(msgs)
             /\ \A i \in 1..Len(chan) : chan'[i] = chan[i]
             /\ \A i \in (Len(chan) + 1)..(Len(chan) + Len(msgs)) :
                  chan'[i] = msgs[i - Len(chan)]
      BY <3>1, <1>4
    <3> QED BY <3>1, <3>2, <3>3
  <2>4. \A i \in 1..Len(chan') : chan'[i] = "CONTRO" =>
          i \in 1..Len(chan) /\ chan[i] = "CONTRO"
    BY <2>3, <1>0
  <2> QED BY <2>1, <2>4 DEF Once
<1>7. ASSUME FlooderExit \/ FlooderKilled PROVE Once'
  BY <1>7 DEF FlooderExit, FlooderKilled, clientVars, markerVars, Once
<1>8. ASSUME UNCHANGED <<parse, flooder_state, kpc, chan, fpc,
                         notified_control>>
      PROVE  Once'
  BY <1>8 DEF Once
<1>9. \/ Connect \/ OpenLog \/ ReadAnswer \/ UpdateRequestCounter
      \/ CloseRequest \/ Finish \/ Fail \/ Tick \/ Quiet \/ UNCHANGED vars
      => UNCHANGED <<parse, flooder_state, kpc, chan, fpc, notified_control>>
  BY DEF Connect, OpenLog, ReadAnswer, UpdateRequestCounter, CloseRequest,
         Finish, Fail, Tick, Quiet, vars, markerVars, flooderVars
<1> QED BY <1>1, <1>2, <1>3, <1>5, <1>6, <1>7, <1>8, <1>9
        DEF Next, MainStep, MarkerStep, FlooderStep

\* RTTs filed under control are measured without flooding: ControlIsQuiet,
\* whatever the delays between flooder and client.
THEOREM ControlSampleIsQuiet == Spec => []ControlIsQuiet
<1>1. Init => Once
  BY InitOnce
<1>2. TypeOK /\ Once /\ [Next]_vars => Once'
  BY StepOnce
<1>3. Once => ControlIsQuiet
  BY DEF Once, ControlIsQuiet
<1> QED BY <1>1, <1>2, <1>3, TypeCorrect, PTL DEF Spec
-----------------------------------------------------------------------------
(***************************************************************************)
(* The samples.  Until CONTRO has arrived the counter is the number of     *)
(* RTTs filed; after that every RTT filed under control takes one away.    *)
(* An END line may be written before and counted after the change, and     *)
(* control RTTs before it are counted up: the 2 allows for both.           *)
(***************************************************************************)
Normal == parse.with + parse.without
Pending == IF mpc = "count" THEN 1 ELSE 0

Balance ==
  /\ flooder_state = 0 => request_counter = Normal + parse.ctrl - Pending
  /\ flooder_state = 1 /\ parse.control =>
       Normal + Pending <= parse.ctrl + request_counter + 2
  /\ mpc \in {"finish", "done"} => request_counter < 0

\* Nothing is filed or counted at the start.
LEMMA InitBalance == ASSUME Init PROVE Balance
BY DEF Init, Balance, Normal, Pending

\* An END line files one RTT, under control or not.
LEMMA EndLine ==
  ASSUME NEW p \in [control : BOOLEAN, flooder_on : BOOLEAN,
                    with : Nat, without : Nat, ctrl : Nat]
  PROVE  /\ ParseLine(p, "END").control = p.control
         /\ p.control =>
              /\ ParseLine(p, "END").with + ParseLine(p, "END").without
                   = p.with + p.without
              /\ ParseLine(p, "END").ctrl = p.ctrl + 1
         /\ ~p.control =>
              /\ ParseLine(p, "END").with + ParseLine(p, "END").without
                   = p.with + p.without + 1
              /\ ParseLine(p, "END").ctrl = p.ctrl
BY DEF ParseLine

\* Every step keeps the counter and the samples together.
LEMMA StepBalance ==
  ASSUME TypeOK, LinesReachLog, Once, Balance, [Next]_vars
  PROVE  Balance'
<1> DEFINE P == [control : BOOLEAN, flooder_on : BOOLEAN,
                 with : Nat, without : Nat, ctrl : Nat]
<1>0. /\ parse \in P /\ request_counter \in Int
      /\ parse.with \in Nat /\ parse.without \in Nat /\ parse.ctrl \in Nat
      /\ flooder_state \in {0, 1}
  BY DEF TypeOK
<1>1. ASSUME LogRequestStart PROVE Balance'
  <2>1. /\ mpc = "start" /\ mpc' = "wait"
        /\ UNCHANGED <<request_counter, flooder_state>>
        /\ WriteLine("START")
    BY <1>1 DEF LogRequestStart, markerVars
  <2>2. /\ parse'.control = parse.control /\ parse'.with = parse.with
        /\ parse'.without = parse.without /\ parse'.ctrl = parse.ctrl
    BY <2>1, <1>0, ControlLine DEF WriteLine, Lines
  <2> QED BY <2>1, <2>2, <1>0 DEF Balance, Normal, Pending
<1>2. ASSUME LogRequestEnd PROVE Balance'
  <2>1. /\ mpc = "end" /\ mpc' = "count"
        /\ UNCHANGED <<request_counter, flooder_state>>
        /\ parse' = ParseLine(parse, "END")
    BY <1>2 DEF LogRequestEnd, WriteLine, LinesReachLog, markerVars
  <2>2. CASE parse.control
    <3>1. /\ parse'.control /\ Normal' = Normal
          /\ parse'.ctrl = parse.ctrl + 1
      BY <2>1, <2>2, <1>0, EndLine DEF Normal
    <3> QED BY <2>1, <2>2, <3>1, <1>0 DEF Balance, Pending, Normal
  <2>3. CASE ~parse.control
    <3>1. /\ ~parse'.control /\ Normal' = Normal + 1
          /\ parse'.ctrl = parse.ctrl
      BY <2>1, <2>3, <1>0, EndLine DEF Normal
    <3> QED BY <2>1, <2>3, <3>1, <1>0 DEF Balance, Pending, Normal
  <2> QED BY <2>2, <2>3
<1>3. ASSUME UpdateRequestCounter PROVE Balance'
  <2>1. /\ mpc = "count" /\ mpc' \in {"close", "start"}
        /\ request_counter' = IF flooder_state = 0 THEN request_counter + 1
                                                   ELSE request_counter - 1
        /\ UNCHANGED <<parse, flooder_state>>
    BY <1>3 DEF UpdateRequestCounter, markerVars
  <2> QED BY <2>1, <1>0 DEF Balance, Pending, Normal
<1>4. ASSUME CloseRequest PROVE Balance'
  <2>1. /\ mpc = "close"
        /\ mpc' = IF request_counter >= 0 THEN "connect" ELSE "finish"
        /\ UNCHANGED <<request_counter, parse, flooder_state>>
    BY <1>4 DEF CloseRequest, markerVars
  <2> QED BY <2>1, <1>0 DEF Balance, Pending, Normal
<1>5. ASSUME Connect \/ OpenLog \/ ReadAnswer \/ Finish \/ Fail
      PROVE  Balance'
  <2>1. /\ mpc # "count" /\ mpc' # "count"
        /\ mpc' \in {"finish", "done"} => mpc \in {"finish", "done"}
        /\ UNCHANGED <<request_counter, parse, flooder_state>>
    BY <1>5 DEF Connect, OpenLog, ReadAnswer, Finish, Fail, markerVars
  <2> QED BY <2>1, <1>0 DEF Balance, Pending, Normal
<1>6. ASSUME TakeNotification PROVE Balance'
  <2>1. /\ chan # <<>> /\ chan \in Seq(Notification)
        /\ UNCHANGED <<mpc, request_counter, flooder_state>>
        /\ WriteLine(Marker[Head(chan)])
    BY <1>6 DEF TakeNotification, clientVars, TypeOK, Notification
  <2>2. /\ Head(chan) = chan[1] /\ 1 \in 1..Len(chan)
        /\ Head(chan) \in Notification
    BY <2>1, QueueElements
  <2>3. /\ Marker[Head(chan)] \in Lines \ {"END"}
        /\ Head(chan) # "CONTRO" => Marker[Head(chan)] # "FLOODER_CONTROL"
    BY <2>2 DEF Marker, Lines, Notification
  <2>4. /\ parse'.with = parse.with /\ parse'.without = parse.without
        /\ parse'.ctrl = parse.ctrl
        /\ Head(chan) # "CONTRO" => parse'.control = parse.control
    BY <2>1, <2>3, <1>0, ControlLine DEF WriteLine
  <2>5. Head(chan) = "CONTRO" => flooder_state = 0
    BY <2>2 DEF Once
  <2> QED BY <2>1, <2>4, <2>5, <1>0 DEF Balance, Pending, Normal
<1>7. ASSUME SetFlooderState PROVE Balance'
  <2>1. /\ flooder_state = 0 /\ flooder_state' = 1
        /\ UNCHANGED <<mpc, request_counter, parse>>
    BY <1>7 DEF SetFlooderState, clientVars, Once
  <2> QED BY <2>1, <1>0 DEF Balance, Pending, Normal
<1>8. ASSUME UNCHANGED <<mpc, request_counter, parse, flooder_state>>
      PROVE  Balance'
  BY <1>8 DEF Balance, Pending, Normal
<1>9. \/ FloodStart \/ FloodEnd \/ Tick \/ FlooderExit \/ FlooderKilled
      \/ Quiet \/ UNCHANGED vars
      => UNCHANGED <<mpc, request_counter, parse, flooder_state>>
  BY DEF FloodStart, FloodEnd, Tick, FlooderExit, FlooderKilled, Quiet, vars,
         clientVars, markerVars
<1> QED BY <1>1, <1>2, <1>3, <1>4, <1>5, <1>6, <1>7, <1>8, <1>9
        DEF Next, MainStep, MarkerStep, FlooderStep

\* When the client stops at a counter below zero (client.c:46) with CONTROL
\* in its log, the normal sample is at most one RTT larger than the control
\* sample: BalancedSample for files of any size and any delays.
THEOREM SamplesBalance == Spec => []BalancedSample
<1> DEFINE Inv == TypeOK /\ Counter /\ Descriptors /\ Once /\ Balance
<1>1. Init => Inv
  BY InitType, InitDescriptors, InitOnce, InitBalance
<1>2. Inv /\ [Next]_vars => Inv'
  BY StepType, StepCounter, StepDescriptors, StepOnce, StepBalance, DescriptorsGiveLog
<1>3. Inv => BalancedSample
  <2> SUFFICES ASSUME Inv, mpc = "done", parse.control
               PROVE  parse.with + parse.without <= parse.ctrl + 1
    BY DEF BalancedSample
  <2>1. /\ parse.with \in Nat /\ parse.without \in Nat
        /\ parse.ctrl \in Nat /\ request_counter \in Int
        /\ flooder_state \in {0, 1}
    BY DEF TypeOK
  <2> QED BY <2>1 DEF Balance, Normal, Pending
<1> QED BY <1>1, <1>2, <1>3, PTL DEF Spec
-----------------------------------------------------------------------------
(***************************************************************************)
(* The labels.  While every marker so far is in the log, the last START or *)
(* ENDIN on its way tells what the flooder is doing; when none is on its   *)
(* way the parser knows it already.  Before the first marker the parser    *)
(* knows nothing, but then START is the first notification to arrive.      *)
(***************************************************************************)
OnlyControlAfter(n) == \A j \in (n + 1)..Len(chan) : chan[j] = "CONTRO"

FlooderWorks == Running /\ fpc \in {"idle", "flood", "pause"}

LastToCome ==
  \A i \in 1..Len(chan) :
    chan[i] # "CONTRO" /\ OnlyControlAfter(i)
      => ((chan[i] = "START") <=> (fpc # "idle"))

Known ==
  OnlyControlAfter(0) =>
    /\ marked = "all" => (parse.flooder_on <=> (fpc # "idle"))
    /\ marked = "none" => chan = <<>>

Labels == FlooderWorks /\ marked # "some" => LastToCome /\ Known

\* At first the queue is empty and no marker is written.
LEMMA InitLabels == ASSUME Init PROVE Labels
BY DEF Init, Labels, LastToCome, Known

\* What a line makes of the parser's label.
LEMMA LabelLine ==
  ASSUME NEW p \in [control : BOOLEAN, flooder_on : BOOLEAN,
                    with : Nat, without : Nat, ctrl : Nat],
         NEW line \in Lines
  PROVE  /\ line = "FLOODER_START" => ParseLine(p, line).flooder_on
         /\ line = "FLOODER_END" => ~ParseLine(p, line).flooder_on
         /\ line \in {"START", "END", "FLOODER_CONTROL"} =>
              ParseLine(p, line).flooder_on = p.flooder_on
<1>1. CASE line \in {"FLOODER_START", "FLOODER_END"}
  BY <1>1 DEF ParseLine
<1>2. CASE line \in {"FLOODER_CONTROL", "START"}
  BY <1>2 DEF ParseLine
<1>3. CASE line = "END"
  BY <1>3 DEF ParseLine
<1> QED BY <1>1, <1>2, <1>3 DEF Lines

\* A START or ENDIN behind the others is the last to come.
LEMMA AppendLabels ==
  ASSUME chan \in Seq(Notification), NEW m \in {"START", "ENDIN"},
         NEW n \in {1, 2},
         chan' \in Seq(Notification),
         Len(chan') = Len(chan) + n,
         chan'[Len(chan) + 1] = m,
         n = 2 => chan'[Len(chan) + 2] = "CONTRO",
         (m = "START") <=> (fpc' # "idle")
  PROVE  LastToCome' /\ Known'
<1> DEFINE k == Len(chan) + 1
<1>1. /\ Len(chan) \in Nat /\ k \in Nat /\ Len(chan') \in {k, k + 1}
      /\ Len(chan') = k + 1 => chan'[k + 1] = "CONTRO"
      /\ chan'[k] # "CONTRO"
  OBVIOUS
<1> HIDE DEF k
<1>2. \A i \in 1..Len(chan') :
        chan'[i] # "CONTRO" /\ (\A j \in (i + 1)..Len(chan') :
                                  chan'[j] = "CONTRO")
          => i = k
  <2> SUFFICES ASSUME NEW i \in 1..Len(chan'), chan'[i] # "CONTRO", i # k,
                      \A j \in (i + 1)..Len(chan') : chan'[j] = "CONTRO"
               PROVE  FALSE
    OBVIOUS
  <2>1. i < k
    BY <1>1
  <2>2. k \in (i + 1)..Len(chan')
    BY <1>1, <2>1
  <2> QED BY <1>1, <2>2
<1>3. LastToCome'
  <2> SUFFICES ASSUME NEW i \in 1..Len(chan'), chan'[i] # "CONTRO",
                      OnlyControlAfter(i)'
               PROVE  (chan'[i] = "START") <=> (fpc' # "idle")
    BY DEF LastToCome
  <2>1. i = k
    BY <1>2 DEF OnlyControlAfter
  <2> QED BY <2>1 DEF k
<1>4. ~OnlyControlAfter(0)'
  <2>1. k \in (0 + 1)..Len(chan')
    BY <1>1 DEF k
  <2> QED BY <2>1, <1>1 DEF OnlyControlAfter
<1> QED BY <1>3, <1>4 DEF Known

\* Every step keeps queue, flooder and parser together.
LEMMA StepLabels ==
  ASSUME TypeOK, Labels, [Next]_vars PROVE Labels'
<1> DEFINE P == [control : BOOLEAN, flooder_on : BOOLEAN,
                 with : Nat, without : Nat, ctrl : Nat]
<1>0. /\ chan \in Seq(Notification) /\ parse \in P
      /\ Len(chan) \in Nat
  BY DEF TypeOK, Notification
<1>1. ASSUME Running' => Running, UNCHANGED <<marked, chan, fpc>>,
             parse'.flooder_on = parse.flooder_on
      PROVE  Labels'
  <2>1. FlooderWorks' => FlooderWorks
    BY <1>1 DEF FlooderWorks
  <2> QED BY <1>1, <2>1
          DEF Labels, LastToCome, Known, OnlyControlAfter
<1>2. ASSUME LogRequestStart \/ LogRequestEnd PROVE Labels'
  <2>1. /\ UNCHANGED <<marked, chan, fpc>> /\ Running
        /\ WriteLine("START") \/ WriteLine("END")
    BY <1>2 DEF LogRequestStart, LogRequestEnd, markerVars, flooderVars,
                Running, Ended
  <2>2. parse'.flooder_on = parse.flooder_on
    BY <2>1, <1>0, LabelLine DEF WriteLine, Lines
  <2> QED BY <2>1, <2>2, <1>1
<1>3. ASSUME TakeNotification PROVE Labels'
  <2>1. /\ Running /\ chan # <<>> /\ chan' = Tail(chan)
        /\ UNCHANGED <<mpc, fpc>>
        /\ WriteLine(Marker[Head(chan)])
        /\ marked' = IF fd[timing_logfh] # "log" \/ marked = "some"
                     THEN "some" ELSE "all"
    BY <1>3 DEF TakeNotification, clientVars, flooderVars
  <2>2. /\ Len(chan) \in Nat \ {0}
        /\ Head(chan) = chan[1] /\ chan[1] \in Notification
        /\ Len(chan') = Len(chan) - 1
        /\ \A i \in 1..Len(chan') : chan'[i] = chan[i + 1]
    BY <1>0, <2>1, QueueElements
  <2>3. SUFFICES ASSUME FlooderWorks', marked' # "some"
                 PROVE  LastToCome' /\ Known'
    BY DEF Labels
  <2>4. /\ FlooderWorks /\ marked # "some" /\ marked' = "all"
        /\ parse' = ParseLine(parse, Marker[chan[1]])
    BY <2>1, <2>2, <2>3 DEF FlooderWorks, Running, WriteLine
  <2>5. LastToCome /\ Known
    BY <2>4 DEF Labels
  <2>6. ASSUME NEW i \in 0..Len(chan'), OnlyControlAfter(i)'
        PROVE  OnlyControlAfter(i + 1)
    <3> SUFFICES ASSUME NEW j \in (i + 1 + 1)..Len(chan)
                 PROVE  chan[j] = "CONTRO"
      BY DEF OnlyControlAfter
    <3>1. PICK h \in (i + 1)..Len(chan') : j = h + 1
      <4>1. j - 1 \in (i + 1)..Len(chan') /\ j = (j - 1) + 1
        BY <2>2
      <4> QED BY <4>1
    <3>2. chan'[h] = "CONTRO" /\ chan'[h] = chan[h + 1]
      BY <2>2, <2>6, <3>1 DEF OnlyControlAfter
    <3> QED BY <3>1, <3>2
  <2>7. LastToCome'
    <3> SUFFICES ASSUME NEW i \in 1..Len(chan'), chan'[i] # "CONTRO",
                        OnlyControlAfter(i)'
                 PROVE  (chan'[i] = "START") <=> (fpc' # "idle")
      BY DEF LastToCome
    <3>1. PICK h \in 1..Len(chan) : h = i + 1
      BY <2>2
    <3>2. OnlyControlAfter(h) /\ chan[h] = chan'[i]
      BY <2>2, <2>6, <3>1
    <3> QED BY <2>1, <2>5, <3>1, <3>2 DEF LastToCome
  <2>8. Known'
    <3> SUFFICES ASSUME OnlyControlAfter(0)'
                 PROVE  parse'.flooder_on <=> (fpc' # "idle")
      BY <2>4 DEF Known
    <3>1. OnlyControlAfter(1)
      <4>1. 0 \in 0..Len(chan')
        BY <2>2
      <4>2. OnlyControlAfter(0 + 1)
        BY <2>6, <4>1
      <4> QED BY <4>2
    <3>2. CASE chan[1] # "CONTRO"
      <4>1. (chan[1] = "START") <=> (fpc # "idle")
        BY <2>2, <2>5, <3>1, <3>2 DEF LastToCome
      <4>2. /\ chan[1] = "START" => Marker[chan[1]] = "FLOODER_START"
            /\ chan[1] # "START" => Marker[chan[1]] = "FLOODER_END"
        BY <2>2, <3>2 DEF Marker, Notification
      <4>3. parse'.flooder_on <=> (chan[1] = "START")
        BY <1>0, <2>4, <4>2, LabelLine DEF Lines
      <4> QED BY <2>1, <4>1, <4>3
    <3>3. CASE chan[1] = "CONTRO"
      <4>1. OnlyControlAfter(0)
        BY <2>2, <3>1, <3>3 DEF OnlyControlAfter
      <4>2. marked = "all"
        BY <2>1, <2>4, <2>5, <4>1 DEF Known, TypeOK
      <4>3. Marker[chan[1]] = "FLOODER_CONTROL"
        BY <3>3 DEF Marker
      <4>4. parse'.flooder_on = parse.flooder_on
        BY <1>0, <2>4, <4>3, LabelLine DEF Lines
      <4> QED BY <2>1, <2>5, <4>1, <4>2, <4>4 DEF Known
    <3> QED BY <3>2, <3>3
  <2> QED BY <2>7, <2>8
<1>4. ASSUME FloodStart, FlooderWorks' PROVE LastToCome' /\ Known'
  <2> DEFINE msgs == IF TimeForControl THEN <<"START", "CONTRO">>
                                       ELSE <<"START">>
  <2>1. Running /\ Notify(msgs) /\ fpc' # "idle"
    BY <1>4 DEF FloodStart, FlooderWorks, Running, clientVars
  <2>2. /\ msgs \in Seq(Notification) /\ Len(msgs) \in {1, 2}
        /\ msgs[1] = "START"
        /\ Len(msgs) = 2 => msgs[2] = "CONTRO"
    <3>1. /\ <<"START", "CONTRO">> \in Seq(Notification)
          /\ <<"START">> \in Seq(Notification)
      BY DEF Notification
    <3> QED BY <3>1
  <2> HIDE DEF msgs
  <2>3. /\ chan' \in Seq(Notification)
        /\ Len(chan') = Len(chan) + Len(msgs)
        /\ \A i \in (Len(chan) + 1)..(Len(chan) + Len(msgs)) :
             chan'[i] = msgs[i - Len(chan)]
    <3>1. chan' = chan \o msgs
      BY <2>1 DEF Notify
    <3>2. /\ chan \o msgs \in Seq(Notification)
          /\ Len(chan \o msgs) = Len(chan) + Len(msgs)
          /\ \A i \in (Len(chan) + 1)..(Len(chan) + Len(msgs)) :
               (chan \o msgs)[i] = msgs[i - Len(chan)]
      BY <1>0, <2>2, QueueElements
    <3> QED BY <3>1, <3>2
  <2>4. chan'[Len(chan) + 1] = "START"
    <3>1. /\ Len(chan) + 1 \in (Len(chan) + 1)..(Len(chan) + Len(msgs))
          /\ Len(chan) + 1 - Len(chan) = 1
      BY <1>0, <2>2
    <3> QED BY <2>2, <2>3, <3>1
  <2>5. ASSUME Len(msgs) = 2 PROVE chan'[Len(chan) + 2] = "CONTRO"
    <3>1. /\ Len(chan) + 2 \in (Len(chan) + 1)..(Len(chan) + Len(msgs))
          /\ Len(chan) + 2 - Len(chan) = 2
      BY <1>0, <2>5
    <3> QED BY <2>2, <2>3, <2>5, <3>1
  <2> QED BY <1>0, <2>1, <2>2, <2>3, <2>4, <2>5, AppendLabels
<1>5. ASSUME FloodEnd, FlooderWorks' PROVE LastToCome' /\ Known'
  <2> DEFINE msgs == <<"ENDIN">>
  <2>1. Running /\ Notify(msgs) /\ fpc' = "idle"
    BY <1>5 DEF FloodEnd, FlooderWorks, Running, clientVars
  <2>2. msgs \in Seq(Notification) /\ Len(msgs) = 1 /\ msgs[1] = "ENDIN"
    BY DEF Notification
  <2> HIDE DEF msgs
  <2>3. /\ chan' \in Seq(Notification)
        /\ Len(chan') = Len(chan) + Len(msgs)
        /\ \A i \in (Len(chan) + 1)..(Len(chan) + Len(msgs)) :
             chan'[i] = msgs[i - Len(chan)]
    <3>1. chan' = chan \o msgs
      BY <2>1 DEF Notify
    <3>2. /\ chan \o msgs \in Seq(Notification)
          /\ Len(chan \o msgs) = Len(chan) + Len(msgs)
          /\ \A i \in (Len(chan) + 1)..(Len(chan) + Len(msgs)) :
               (chan \o msgs)[i] = msgs[i - Len(chan)]
      BY <1>0, <2>2, QueueElements
    <3> QED BY <3>1, <3>2
  <2>4. chan'[Len(chan) + 1] = "ENDIN"
    <3>1. /\ Len(chan) + 1 \in (Len(chan) + 1)..(Len(chan) + Len(msgs))
          /\ Len(chan) + 1 - Len(chan) = 1
      BY <1>0, <2>2
    <3> QED BY <2>2, <2>3, <3>1
  <2>5. Len(chan') = Len(chan) + 1
    BY <2>2, <2>3
  <2> QED BY <1>0, <2>1, <2>3, <2>4, <2>5, AppendLabels
<1>6. ASSUME FlooderExit \/ FlooderKilled PROVE Labels'
  BY <1>6 DEF FlooderExit, FlooderKilled, Labels, FlooderWorks
<1>7. \/ Connect \/ OpenLog \/ ReadAnswer \/ UpdateRequestCounter
      \/ CloseRequest \/ Finish \/ Fail \/ SetFlooderState \/ Tick
      \/ Quiet \/ UNCHANGED vars
      => /\ UNCHANGED <<parse, marked, chan, fpc>>
         /\ Running' => Running
  BY DEF Connect, OpenLog, ReadAnswer, UpdateRequestCounter, CloseRequest,
         Finish, Fail, SetFlooderState, Tick, Quiet, vars, clientVars,
         markerVars, flooderVars, Running, Ended
<1> QED BY <1>1, <1>2, <1>3, <1>4, <1>5, <1>6, <1>7
        DEF Next, MainStep, MarkerStep, FlooderStep, Labels

\* With every marker in the log and none on its way, the parser's next label
\* (data_parser.py:53) is what the flooder is doing: LabelsCaughtUp for every
\* length of the socket buffer and all delays.
THEOREM LabelsAreRight == Spec => []LabelsCaughtUp
<1>1. Init => TypeOK /\ Counter /\ Labels
  BY InitType, InitLabels
<1>2. TypeOK /\ Counter /\ Labels /\ [Next]_vars => (TypeOK /\ Counter /\ Labels)'
  BY StepType, StepCounter, StepLabels
<1>3. TypeOK /\ Labels => LabelsCaughtUp
  <2> SUFFICES ASSUME TypeOK, Labels, Running, marked = "all", chan = <<>>,
                      fpc \in {"idle", "flood", "pause"}
               PROVE  parse.flooder_on = (fpc # "idle")
    BY DEF LabelsCaughtUp
  <2>1. OnlyControlAfter(0)
    BY DEF OnlyControlAfter
  <2>2. parse.flooder_on <=> (fpc # "idle")
    BY <2>1 DEF Labels, FlooderWorks, Known
  <2>3. parse.flooder_on \in BOOLEAN
    BY DEF TypeOK
  <2> QED BY <2>2, <2>3
<1> QED BY <1>1, <1>2, <1>3, PTL DEF Spec
=============================================================================
