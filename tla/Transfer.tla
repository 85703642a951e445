------------------------------ MODULE Transfer ------------------------------
(***************************************************************************)
(* The file transfer between the clients (client/client.c) and the server  *)
(* (server/server.c) over TCP (lib/cmpsc311_network.c).                    *)
(*                                                                         *)
(* A client loops: connect, send REQ_FILE, read REQ_ACK, then read blocks, *)
(* acknowledging each, until FILE_COMPLETE.  The server's main thread      *)
(* accepts connections and starts a detached thread for each.              *)
(*                                                                         *)
(* Three facts of the code shape the model.  Every caller of               *)
(* cmpsc311_read_bytes and cmpsc311_send_bytes ignores their result, so a  *)
(* failed read leaves in the marshall buffer whatever was there and the    *)
(* next assertion looks at that.  Nothing ignores SIGPIPE, so a write to a *)
(* connection the peer has reset may kill the process.  And server_func    *)
(* never closes the file it opens, so the descriptor table of the server   *)
(* only fills up.                                                          *)
(*                                                                         *)
(* A connection is a member of the pool Conns and returns to the pool when *)
(* both of its ends are closed; a message travels as one unit, except that *)
(* a process dying inside a send may leave a message cut short.            *)
(*                                                                         *)
(* Not in this module: an operator's SIGINT.  Both programs catch it       *)
(* without SA_RESTART (cmpsc311_network.c:63-65), so it makes a waiting    *)
(* read return -1 with the peer still there, and the assertion after it    *)
(* may fail; the properties are about processes nobody interrupts.         *)
(***************************************************************************)
EXTENDS Naturals, Sequences, FiniteSets

CONSTANTS
  Clients,       \* the client processes
  Conns,         \* connections that may exist at once (bound)
  NoConn,        \* "the client holds no socket"
  FileReadable,  \* the requested file exists and access() allows reading it
  FileBlocks,    \* how many fread()s of the file return data
  FdLimit,       \* descriptors the server may hold for accept() and open()
  Backlog,       \* capacity of the accept queue (bound on the kernel's queue)
  CrashLimit,    \* how many times a client process may be killed (bound)
  Supervised     \* analysis/runner.py starts a client again when it ends

ASSUME TransferAssumption ==
  /\ NoConn \notin Conns
  /\ FileReadable \in BOOLEAN
  /\ Supervised \in BOOLEAN
  /\ FileBlocks \in Nat
  /\ FdLimit \in Nat
  /\ Backlog \in Nat
  /\ CrashLimit \in Nat

VARIABLES
  cpc,      \* where each client is in client_run / client_send_request
  csock,    \* socketfh of each client
  cbuf,     \* marshallBuffer of each client, decoded
  got,      \* FILE_BLOCKs this client has read for the current request
  died,     \* clients that ever ended other than by finishing (history)
  crashes,  \* how often a client was killed (bounded by CrashLimit)
  server,   \* the server process: "up", or how it ended
  main,     \* its main thread: "loop", or "accept" when inside accept()
  leaked,   \* descriptors of files opened by server_func, never closed
  tpc,      \* the thread serving each connection
  tbuf,     \* its marshallBuffer
  tname,    \* it holds the name of the file the client asked for
  served,   \* FILE_BLOCKs it has sent
  backlog,  \* connections not accepted yet
  up, dn,   \* unread messages to the server and to the client
  copen,    \* the client's end is open
  sopen,    \* the server's end is open
  reset     \* ends the peer's kernel answers, or will answer, with RST

clientVars == <<cpc, csock, cbuf, got, died, crashes>>
threadVars == <<tpc, tbuf, tname, served>>
serverVars == <<server, main, leaked>>
netVars    == <<backlog, up, dn, copen, sopen, reset>>
vars       == <<clientVars, threadVars, serverVars, netVars>>
-----------------------------------------------------------------------------
(***************************************************************************)
(* Messages and the marshall buffer.                                       *)
(***************************************************************************)
PROTO_TYPE == {"REQ_FILE", "REQ_ACK", "FILE_BLOCK", "FILE_BLOCK_ACK",
               "FILE_COMPLETE", "FILE_COMPLETE_ACK"}

\* "whole" is FALSE for a message whose sender died inside the send.
ProtoMsg == [type : PROTO_TYPE, data : {"zeros", "name", "file"},
             whole : BOOLEAN]

Msg(t, d) == [type |-> t, data |-> d, whole |-> TRUE]

\* A buffer fresh from malloc: its bytes are whatever they were.
Garbage == [type |-> "garbage", data |-> "garbage", whole |-> FALSE]

Buffer == ProtoMsg \cup {Garbage}

\* Mutant of CanRead: a read that does not notice the peer's close.
WaitsForData(queue, peerOpen) == queue # <<>>

\* cmpsc311_read_bytes returns when a message is there or the peer closed.
CanRead(queue, peerOpen) == queue # <<>> \/ ~peerOpen

\* The buffer after it returns: nothing came, nothing is overwritten.
Filled(queue, buf) == IF queue # <<>> THEN Head(queue) ELSE buf

Rest(queue) == IF queue # <<>> THEN Tail(queue) ELSE queue

\* What a dying sender may leave behind of message m.
Cut(m) == [m EXCEPT !.whole = FALSE]
CutOff(queue, m) == {queue, Append(queue, Cut(m))}
-----------------------------------------------------------------------------
\* Mutant of ClientSends: the two acknowledgements exchanged.
SwappedAcks == [request     |-> Msg("REQ_FILE", "name"),
                ackBlock    |-> Msg("FILE_COMPLETE_ACK", "zeros"),
                ackComplete |-> Msg("FILE_BLOCK_ACK", "zeros")]

ClientSends == [request     |-> Msg("REQ_FILE", "name"),
                ackBlock    |-> Msg("FILE_BLOCK_ACK", "zeros"),
                ackComplete |-> Msg("FILE_COMPLETE_ACK", "zeros")]

\* The block's data is zeros: bzero(&msg) runs between fread and marshall.
ServerSends == [sendAck  |-> Msg("REQ_ACK", "zeros"),
                file     |-> Msg("FILE_BLOCK", "zeros"),
                complete |-> Msg("FILE_COMPLETE", "zeros")]

\* What the assertion after each read accepts.
Expected == [waitAck      |-> {"REQ_ACK"},
             waitBlock    |-> {"FILE_BLOCK", "FILE_COMPLETE"},
             readReq      |-> {"REQ_FILE"},
             readBlockAck |-> {"FILE_BLOCK_ACK"}]

Dead == {"done", "exited", "aborted", "killed", "crashed"}

ClientPC == Dead \cup {"connect", "request", "waitAck", "waitBlock",
                       "ackBlock", "ackComplete", "close", "loop"}

ThreadPC == {"none", "readReq", "sendAck", "open", "file", "readBlockAck",
             "complete", "close"}

\* The message a thread is about to send; a thread that has read the file to
\* its end leaves the loop for exit_connection.
Sending(k) == IF tpc[k] = "file" /\ served[k] = FileBlocks
              THEN ServerSends["complete"] ELSE ServerSends[tpc[k]]

\* Descriptors in use: leaked files, one socket per thread, and the one that
\* accept() reserves before it waits.
FdsUsed == leaked + Cardinality({k \in Conns : tpc[k] # "none"})
                  + (IF main = "accept" THEN 1 ELSE 0)
-----------------------------------------------------------------------------
Init ==
  /\ cpc = [c \in Clients |-> "connect"]
  /\ csock = [c \in Clients |-> NoConn]
  /\ cbuf = [c \in Clients |-> Garbage]
  /\ got = [c \in Clients |-> 0]
  /\ died = {}
  /\ crashes = 0
  /\ server = "up"
  /\ main = "loop"
  /\ leaked = 0
  /\ tpc = [k \in Conns |-> "none"]
  /\ tbuf = [k \in Conns |-> Garbage]
  /\ tname = [k \in Conns |-> FALSE]
  /\ served = [k \in Conns |-> 0]
  /\ backlog = <<>>
  /\ up = [k \in Conns |-> <<>>]
  /\ dn = [k \in Conns |-> <<>>]
  /\ copen = [k \in Conns |-> FALSE]
  /\ sopen = [k \in Conns |-> FALSE]
  /\ reset = [k \in Conns |-> {}]
-----------------------------------------------------------------------------
(***************************************************************************)
(* The ends of a connection.                                               *)
(***************************************************************************)
\* The client's end of k closes, toServer being what it had still sent.
\* Unread data makes the kernel reset the peer instead of a normal close.
CloseClientEnd(k, toServer) ==
  /\ copen' = [copen EXCEPT ![k] = FALSE]
  /\ dn' = [dn EXCEPT ![k] = <<>>]
  /\ up' = [up EXCEPT ![k] = IF sopen[k] THEN toServer ELSE <<>>]
  /\ reset' = [reset EXCEPT ![k] =
                 IF ~sopen[k] THEN {}
                 ELSE IF dn[k] # <<>> THEN @ \cup {"server"} ELSE @]
  /\ UNCHANGED <<backlog, sopen>>

\* The server's end of k closes.
CloseServerEnd(k) ==
  /\ sopen' = [sopen EXCEPT ![k] = FALSE]
  /\ up' = [up EXCEPT ![k] = <<>>]
  /\ reset' = [reset EXCEPT ![k] =
                 IF ~copen[k] THEN {}
                 ELSE IF up[k] # <<>> THEN @ \cup {"client"} ELSE @]
  /\ UNCHANGED <<backlog, dn, copen>>

\* write() of m by the client, by the server's thread.  A message to a closed
\* peer is dropped and provokes a reset.
WriteUp(k, m) ==
  /\ IF sopen[k]
     THEN up' = [up EXCEPT ![k] = Append(@, m)] /\ UNCHANGED reset
     ELSE reset' = [reset EXCEPT ![k] = @ \cup {"client"}] /\ UNCHANGED up
  /\ UNCHANGED <<backlog, dn, copen, sopen>>

WriteDn(k, m) ==
  /\ IF copen[k]
     THEN dn' = [dn EXCEPT ![k] = Append(@, m)] /\ UNCHANGED reset
     ELSE reset' = [reset EXCEPT ![k] = @ \cup {"server"}] /\ UNCHANGED dn
  /\ UNCHANGED <<backlog, up, copen, sopen>>
-----------------------------------------------------------------------------
(***************************************************************************)
(* The client.                                                             *)
(***************************************************************************)
\* Mutant of Connect: the block count of the last request is kept.
ConnectKeepsCount(c) ==
  /\ cpc[c] = "connect"
  /\ server = "up"
  /\ Len(backlog) < Backlog
  /\ \E k \in Conns :
       /\ ~copen[k] /\ ~sopen[k]
       /\ csock' = [csock EXCEPT ![c] = k]
       /\ copen' = [copen EXCEPT ![k] = TRUE]
       /\ sopen' = [sopen EXCEPT ![k] = TRUE]
       /\ backlog' = Append(backlog, k)
  /\ cpc' = [cpc EXCEPT ![c] = "request"]
  /\ cbuf' = [cbuf EXCEPT ![c] = Garbage]
  /\ UNCHANGED <<got, died, crashes, threadVars, serverVars, up, dn, reset>>

\* client_connect: the kernel completes the handshake into the accept queue.
Connect(c) ==
  /\ cpc[c] = "connect"
  /\ server = "up"
  /\ Len(backlog) < Backlog
  /\ \E k \in Conns :
       /\ ~copen[k] /\ ~sopen[k]
       /\ csock' = [csock EXCEPT ![c] = k]
       /\ copen' = [copen EXCEPT ![k] = TRUE]
       /\ sopen' = [sopen EXCEPT ![k] = TRUE]
       /\ backlog' = Append(backlog, k)
  /\ cpc' = [cpc EXCEPT ![c] = "request"]
  /\ cbuf' = [cbuf EXCEPT ![c] = Garbage]
  /\ got' = [got EXCEPT ![c] = 0]
  /\ UNCHANGED <<died, crashes, threadVars, serverVars, up, dn, reset>>

\* connect() is refused: client_run and then main return -1.
ConnectFails(c) ==
  /\ cpc[c] = "connect"
  /\ server # "up"
  /\ cpc' = [cpc EXCEPT ![c] = "exited"]
  /\ died' = died \cup {c}
  /\ UNCHANGED <<csock, cbuf, got, crashes, threadVars, serverVars, netVars>>

\* One marshall and cmpsc311_send_bytes of client_send_request.
ClientSend(c, from, to) ==
  /\ cpc[c] = from
  /\ WriteUp(csock[c], ClientSends[from])
  /\ cbuf' = [cbuf EXCEPT ![c] = ClientSends[from]]
  /\ cpc' = [cpc EXCEPT ![c] = to]
  /\ UNCHANGED <<csock, got, died, crashes, threadVars, serverVars>>

\* Mutant of SendBlockAck: no break after the FILE_BLOCK case.
BlockAckFallsThrough(c) == ClientSend(c, "ackBlock", "ackComplete")

SendRequest(c)     == ClientSend(c, "request", "waitAck")
SendBlockAck(c)    == ClientSend(c, "ackBlock", "waitBlock")
SendCompleteAck(c) == ClientSend(c, "ackComplete", "close")

\* One cmpsc311_read_bytes and unmarshall whose assertion holds.
ClientRead(c, from, type, to) ==
  LET k == csock[c] IN
  /\ cpc[c] = from
  /\ CanRead(dn[k], sopen[k])
  /\ Filled(dn[k], cbuf[c]).type = type
  /\ cbuf' = [cbuf EXCEPT ![c] = Filled(dn[k], @)]
  /\ dn' = [dn EXCEPT ![k] = Rest(@)]
  /\ cpc' = [cpc EXCEPT ![c] = to]
  /\ UNCHANGED <<csock, died, crashes, threadVars, serverVars>>
  /\ UNCHANGED <<backlog, up, copen, sopen, reset>>

ReadReqAck(c) ==
  /\ ClientRead(c, "waitAck", "REQ_ACK", "waitBlock")
  /\ UNCHANGED got

\* Mutant of ReadBlock: the block is not acknowledged.
ReadBlockNoAck(c) ==
  /\ ClientRead(c, "waitBlock", "FILE_BLOCK", "waitBlock")
  /\ got' = [got EXCEPT ![c] = @ + 1]

ReadBlock(c) ==
  /\ ClientRead(c, "waitBlock", "FILE_BLOCK", "ackBlock")
  /\ got' = [got EXCEPT ![c] = @ + 1]

ReadComplete(c) ==
  /\ ClientRead(c, "waitBlock", "FILE_COMPLETE", "ackComplete")
  /\ UNCHANGED got

\* close(socketfh) at the end of client_send_request.
ClientClose(c) ==
  /\ cpc[c] = "close"
  /\ CloseClientEnd(csock[c], up[csock[c]])
  /\ csock' = [csock EXCEPT ![c] = NoConn]
  /\ cpc' = [cpc EXCEPT ![c] = "loop"]
  /\ UNCHANGED <<cbuf, got, died, crashes, threadVars, serverVars>>

\* while (request_counter >= 0): the counter itself is not in this module.
LoopTest(c) ==
  /\ cpc[c] = "loop"
  /\ \E to \in {"connect", "done"} : cpc' = [cpc EXCEPT ![c] = to]
  /\ UNCHANGED <<csock, cbuf, got, died, crashes, threadVars, serverVars,
                 netVars>>

\* The process ends and the kernel closes its socket.
ClientDies(c, how) ==
  /\ cpc' = [cpc EXCEPT ![c] = how]
  /\ csock' = [csock EXCEPT ![c] = NoConn]
  /\ died' = died \cup {c}
  /\ UNCHANGED <<cbuf, got, threadVars, serverVars>>

\* The assertion after a read fails: abort().
ClientAssertFails(c) ==
  LET k == csock[c] IN
  /\ cpc[c] \in {"waitAck", "waitBlock"}
  /\ CanRead(dn[k], sopen[k])
  /\ Filled(dn[k], cbuf[c]).type \notin Expected[cpc[c]]
  /\ ClientDies(c, "aborted")
  /\ CloseClientEnd(k, up[k])
  /\ UNCHANGED crashes

\* A write to a connection that has been reset: SendRequest has the write that
\* only fails, for which see WriteUp, and this is the one that raises SIGPIPE.
ClientSigpipe(c) ==
  LET k == csock[c] IN
  /\ cpc[c] \in DOMAIN ClientSends
  /\ "client" \in reset[k]
  /\ ClientDies(c, "killed")
  /\ CloseClientEnd(k, up[k])
  /\ UNCHANGED crashes

\* The client process is killed, perhaps in the middle of a send.
Crash(c) ==
  LET k == csock[c] IN
  /\ cpc[c] \notin Dead
  /\ crashes < CrashLimit
  /\ crashes' = crashes + 1
  /\ ClientDies(c, "crashed")
  /\ \/ k = NoConn /\ UNCHANGED netVars
     \/ /\ k # NoConn
        /\ \E q \in IF cpc[c] \in DOMAIN ClientSends
                    THEN CutOff(up[k], ClientSends[cpc[c]]) ELSE {up[k]} :
             CloseClientEnd(k, q)

\* runner.py runs the client again.
Restart(c) ==
  /\ Supervised
  /\ cpc[c] \in Dead
  /\ cpc' = [cpc EXCEPT ![c] = "connect"]
  /\ UNCHANGED <<csock, cbuf, got, died, crashes, threadVars, serverVars,
                 netVars>>
-----------------------------------------------------------------------------
(***************************************************************************)
(* The server.                                                             *)
(***************************************************************************)
\* k is in the accept queue.
Queued(k) == \E i \in 1..Len(backlog) : backlog[i] = k

\* The process ends: every thread vanishes and every descriptor is closed, the
\* listening socket's too, which resets whatever is in the accept queue.  A
\* thread inside a send may leave its message cut short.
ServerStops(how) ==
  LET sendingTo == {k \in Conns : tpc[k] \in DOMAIN ServerSends /\ copen[k]}
  IN
  /\ server' = how
  /\ main' = "loop"
  /\ tpc' = [k \in Conns |-> "none"]
  /\ backlog' = <<>>
  /\ sopen' = [k \in Conns |-> FALSE]
  /\ up' = [k \in Conns |-> <<>>]
  /\ \E cut \in SUBSET sendingTo :
       dn' = [k \in Conns |->
                IF k \in cut THEN Append(dn[k], Cut(Sending(k))) ELSE dn[k]]
  /\ reset' = [k \in Conns |->
                 IF ~copen[k] THEN {}
                 ELSE IF up[k] # <<>> \/ Queued(k)
                   THEN reset[k] \cup {"client"}
                 ELSE reset[k]]
  /\ UNCHANGED <<clientVars, leaked, tbuf, tname, served, copen>>

\* accept() takes a descriptor first; without one it fails, and server_run
\* and main return -1.
EnterAccept ==
  /\ server = "up" /\ main = "loop"
  /\ FdsUsed < FdLimit
  /\ main' = "accept"
  /\ UNCHANGED <<server, leaked, clientVars, threadVars, netVars>>

AcceptFails ==
  /\ server = "up" /\ main = "loop"
  /\ FdsUsed >= FdLimit
  /\ ServerStops("exited")

\* accept() returns and server_run starts a thread for the connection.
Accept ==
  /\ server = "up" /\ main = "accept"
  /\ backlog # <<>>
  /\ backlog' = Tail(backlog)
  /\ tpc' = [tpc EXCEPT ![Head(backlog)] = "readReq"]
  /\ tbuf' = [tbuf EXCEPT ![Head(backlog)] = Garbage]
  /\ main' = "loop"
  /\ UNCHANGED <<server, leaked, clientVars, tname, served>>
  /\ UNCHANGED <<up, dn, copen, sopen, reset>>

\* The request is read.  An unread buffer may pass the assertion by accident
\* (REQ_FILE is 0), with no file name in it; a cut request may have kept it.
ReadRequest(k) ==
  LET m == Filled(up[k], tbuf[k]) IN
  /\ tpc[k] = "readReq"
  /\ CanRead(up[k], copen[k])
  /\ m.type \in Expected["readReq"] \cup {Garbage.type}
  /\ \E name \in IF m.whole THEN {TRUE}
                 ELSE IF m = Garbage THEN {FALSE} ELSE BOOLEAN :
       tname' = [tname EXCEPT ![k] = name]
  /\ tbuf' = [tbuf EXCEPT ![k] = m]
  /\ up' = [up EXCEPT ![k] = Rest(@)]
  /\ tpc' = [tpc EXCEPT ![k] = "sendAck"]
  /\ UNCHANGED <<served, clientVars, serverVars>>
  /\ UNCHANGED <<backlog, dn, copen, sopen, reset>>

ServerSend(k, from, m, to) ==
  /\ tpc[k] = from
  /\ WriteDn(k, m)
  /\ tbuf' = [tbuf EXCEPT ![k] = m]
  /\ tpc' = [tpc EXCEPT ![k] = to]
  /\ UNCHANGED <<tname, clientVars, serverVars>>

SendReqAck(k) ==
  /\ ServerSend(k, "sendAck", ServerSends["sendAck"], "open")
  /\ UNCHANGED served

\* Mutant of OpenFile: an absent file is answered by closing only.
OpenFileNoComplete(k) ==
  /\ tpc[k] = "open"
  /\ served' = [served EXCEPT ![k] = 0]
  /\ \/ /\ tname[k] /\ FileReadable /\ FdsUsed < FdLimit
        /\ leaked' = leaked + 1
        /\ tpc' = [tpc EXCEPT ![k] = "file"]
     \/ /\ ~(tname[k] /\ FileReadable /\ FdsUsed < FdLimit)
        /\ tpc' = [tpc EXCEPT ![k] = "close"]
        /\ UNCHANGED leaked
  /\ UNCHANGED <<tbuf, tname, server, main, clientVars, netVars>>

\* Mutant of OpenFile: a file that was never opened is closed.
OpenFileClosesAnyway(k) ==
  /\ tpc[k] = "open"
  /\ served' = [served EXCEPT ![k] = 0]
  /\ \/ /\ tname[k] /\ FileReadable /\ FdsUsed < FdLimit
        /\ leaked' = leaked + 1
        /\ tpc' = [tpc EXCEPT ![k] = "file"]
     \/ /\ ~(tname[k] /\ FileReadable /\ FdsUsed < FdLimit)
        /\ tpc' = [tpc EXCEPT ![k] = "complete"]
        /\ leaked' = leaked - 1
  /\ UNCHANGED <<tbuf, tname, server, main, clientVars, netVars>>

\* access() and open(): without a descriptor left the file counts as absent.
OpenFile(k) ==
  /\ tpc[k] = "open"
  /\ served' = [served EXCEPT ![k] = 0]
  /\ \/ /\ tname[k] /\ FileReadable /\ FdsUsed < FdLimit
        /\ leaked' = leaked + 1
        /\ tpc' = [tpc EXCEPT ![k] = "file"]
     \/ /\ ~(tname[k] /\ FileReadable /\ FdsUsed < FdLimit)
        /\ tpc' = [tpc EXCEPT ![k] = "complete"]
        /\ UNCHANGED leaked
  /\ UNCHANGED <<tbuf, tname, server, main, clientVars, netVars>>

\* Mutant of SendBlock: the result of fread is not looked at.
SendPastEnd(k) ==
  /\ ServerSend(k, "file", ServerSends["file"], "readBlockAck")
  /\ served' = [served EXCEPT ![k] = @ + 1]

\* fread, bzero, marshall and send of one block.
SendBlock(k) ==
  /\ served[k] < FileBlocks
  /\ ServerSend(k, "file", ServerSends["file"], "readBlockAck")
  /\ served' = [served EXCEPT ![k] = @ + 1]

ReadBlockAck(k) ==
  LET m == Filled(up[k], tbuf[k]) IN
  /\ tpc[k] = "readBlockAck"
  /\ CanRead(up[k], copen[k])
  /\ m.type \in Expected["readBlockAck"]
  /\ tbuf' = [tbuf EXCEPT ![k] = m]
  /\ up' = [up EXCEPT ![k] = Rest(@)]
  /\ tpc' = [tpc EXCEPT ![k] = "file"]
  /\ UNCHANGED <<tname, served, clientVars, serverVars>>
  /\ UNCHANGED <<backlog, dn, copen, sopen, reset>>

\* Mutant of SendComplete: the loop ends one block early.
SendCompleteEarly(k) ==
  /\ \/ tpc[k] = "complete"
     \/ tpc[k] = "file" /\ served[k] + 1 >= FileBlocks
  /\ ServerSend(k, tpc[k], ServerSends["complete"], "close")
  /\ UNCHANGED served

\* exit_connection, reached when the file is absent and at its end: it sends
\* FILE_COMPLETE and closes without waiting for FILE_COMPLETE_ACK.
SendComplete(k) ==
  /\ \/ tpc[k] = "complete"
     \/ tpc[k] = "file" /\ served[k] = FileBlocks
  /\ ServerSend(k, tpc[k], ServerSends["complete"], "close")
  /\ UNCHANGED served

CloseConn(k) ==
  /\ tpc[k] = "close"
  /\ CloseServerEnd(k)
  /\ tpc' = [tpc EXCEPT ![k] = "none"]
  /\ UNCHANGED <<tbuf, tname, served, clientVars, serverVars>>

\* An assertion of server_func fails: abort() takes every thread with it.
ServerAssertFails(k) ==
  /\ tpc[k] \in {"readReq", "readBlockAck"}
  /\ CanRead(up[k], copen[k])
  /\ Filled(up[k], tbuf[k]).type \notin Expected[tpc[k]]
  /\ ServerStops("aborted")

ServerSigpipe(k) ==
  /\ tpc[k] \in DOMAIN ServerSends
  /\ "server" \in reset[k]
  /\ ServerStops("killed")
-----------------------------------------------------------------------------
ClientStep(c) ==
  \/ Connect(c) \/ ConnectFails(c)
  \/ SendRequest(c) \/ SendBlockAck(c) \/ SendCompleteAck(c)
  \/ ReadReqAck(c) \/ ReadBlock(c) \/ ReadComplete(c)
  \/ ClientClose(c) \/ LoopTest(c)
  \/ ClientAssertFails(c) \/ ClientSigpipe(c)

MainStep == EnterAccept \/ AcceptFails \/ Accept

ThreadStep(k) ==
  \/ ReadRequest(k) \/ SendReqAck(k) \/ OpenFile(k)
  \/ SendBlock(k) \/ ReadBlockAck(k) \/ SendComplete(k) \/ CloseConn(k)
  \/ ServerAssertFails(k) \/ ServerSigpipe(k)

\* Every client has ended; the server waits in accept() for ever.
AllQuiet ==
  /\ \A c \in Clients : cpc[c] \in Dead
  /\ server = "up" => main = "accept" /\ backlog = <<>>
  /\ \A k \in Conns : tpc[k] = "none"
  /\ UNCHANGED vars

Next ==
  \/ \E c \in Clients : ClientStep(c) \/ Crash(c) \/ Restart(c)
  \/ MainStep
  \/ \E k \in Conns : ThreadStep(k)
  \/ AllQuiet

Spec == Init /\ [][Next]_vars

\* The scheduler runs every process and thread that can run; nothing obliges
\* a client to be killed or started again.
Fairness ==
  /\ \A c \in Clients : WF_vars(ClientStep(c))
  /\ WF_vars(MainStep)
  /\ \A k \in Conns : WF_vars(ThreadStep(k))

FairSpec == Spec /\ Fairness
-----------------------------------------------------------------------------
(***************************************************************************)
(* Properties.                                                             *)
(***************************************************************************)
\* Every variable stays in its range (crashes within its bound).
TypeOK ==
  /\ cpc \in [Clients -> ClientPC]
  /\ csock \in [Clients -> Conns \cup {NoConn}]
  /\ cbuf \in [Clients -> Buffer]
  /\ got \in [Clients -> Nat]
  /\ died \in SUBSET Clients
  /\ crashes \in 0..CrashLimit
  /\ server \in {"up", "exited", "aborted", "killed"}
  /\ main \in {"loop", "accept"}
  /\ leaked \in Nat
  /\ tpc \in [Conns -> ThreadPC]
  /\ tbuf \in [Conns -> Buffer]
  /\ tname \in [Conns -> BOOLEAN]
  /\ served \in [Conns -> Nat]
  /\ backlog \in Seq(Conns)
  /\ up \in [Conns -> Seq(ProtoMsg)]
  /\ dn \in [Conns -> Seq(ProtoMsg)]
  /\ copen \in [Conns -> BOOLEAN]
  /\ sopen \in [Conns -> BOOLEAN]
  /\ reset \in [Conns -> SUBSET {"client", "server"}]

\* A client fails an assertion of client_send_request (client.c:97, 110) or dies
\* of SIGPIPE only when the server process has ended: no interleaving with its
\* thread, no late thread of an earlier request and nothing another client
\* does makes it misread the stream or lose its connection.
ClientBlame ==
  \A c \in Clients : cpc[c] \in {"aborted", "killed"} => server # "up"

\* The server fails an assertion of server_func (server.c:65, 99) or dies of
\* SIGPIPE only if some client process ended other than by finishing: clients
\* that follow client_send_request never bring it down, although it closes
\* each connection without reading FILE_COMPLETE_ACK.
ServerBlame ==
  server \in {"aborted", "killed"} => died # {}

\* A client writes to a connection that has been reset, which may raise SIGPIPE
\* (cmpsc311_network.c:305), only with its REQ_FILE, and only when the server
\* process ended with the connection still in its accept queue.  It never
\* acknowledges into a reset connection: between two of its messages it reads,
\* and whatever ends the server is seen by that read.
NoBrokenPipe ==
  \A c \in Clients :
    cpc[c] \in DOMAIN ClientSends /\ "client" \in reset[csock[c]]
      => cpc[c] = "request" /\ server # "up"

\* A client that has read FILE_COMPLETE has read every block of the file or
\* none at all, none being the answer for a file that cannot be opened.
WholeFileOrNothing ==
  \A c \in Clients :
    cpc[c] \in {"ackComplete", "close"} => got[c] \in {0, FileBlocks}

\* Sender and receiver never disagree about a block: a block counted by
\* server_func has been counted by the client or is still on its way to it.
BlocksAccounted ==
  \A c \in Clients :
    csock[c] # NoConn /\ tpc[csock[c]] \in {"file", "readBlockAck"}
      => served[csock[c]] =
           got[c] + Cardinality({i \in DOMAIN dn[csock[c]] :
                                   dn[csock[c]][i].type = "FILE_BLOCK"})

\* A request once made is answered to the end, unless the server process ends
\* or this client is killed: client and server thread are never both reading.
RequestAnswered ==
  \A c \in Clients :
    cpc[c] = "request" ~> \/ cpc[c] \in {"loop", "crashed"}
                          \/ server # "up"

\* Every thread of the server ends, whatever happens to its client.
ThreadsEnd ==
  \A k \in Conns : tpc[k] # "none" ~> tpc[k] = "none"

\* What each client sees of the server is the file service of FileService.
PhaseOf(pc) ==
  IF pc \in {"connect", "ackComplete", "close", "loop", "done"} THEN "idle"
  ELSE IF pc \in {"request", "waitAck", "waitBlock", "ackBlock"} THEN "busy"
  ELSE "failed"

phase == [c \in Clients |-> PhaseOf(cpc[c])]

Service == INSTANCE FileService WITH broken <- server # "up"

ServiceSpec == Service!Spec
=============================================================================
