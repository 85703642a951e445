--------------------------- MODULE TransferProofs ---------------------------
(***************************************************************************)
(* Proofs about Transfer, for any number of clients, connections, blocks   *)
(* and descriptors.                                                        *)
(*                                                                         *)
(* The argument.  As long as the server process lives, a client that holds *)
(* a socket and the thread at its other end are in step: their program     *)
(* counters and the two message queues between them can only be in the     *)
(* combinations that InStep lists.  In none of them does either read a     *)
(* message it does not expect or write to a peer that has gone.            *)
(***************************************************************************)
EXTENDS Transfer, FiniteSetTheorems, TLAPS

\* Queues hold at most two messages; these three say which.
Is0(s)       == Len(s) = 0
Is1(s, m)    == Len(s) = 1 /\ s[1] = m
Is2(s, m, n) == Len(s) = 2 /\ s[1] = m /\ s[2] = n

ReqFile     == ClientSends["request"]
BlockAck    == ClientSends["ackBlock"]
CompleteAck == ClientSends["ackComplete"]
ReqAck      == ServerSends["sendAck"]
Block       == ServerSends["file"]
Complete    == ServerSends["complete"]

Connected == {"request", "waitAck", "waitBlock", "ackBlock", "ackComplete",
              "close"}

\* A client holds a socket exactly while it is connected.
HoldsSocket ==
  \A c \in Clients : csock[c] # NoConn <=> cpc[c] \in Connected

\* The socket it holds is open, no two clients hold the same one, and none is
\* open that nobody holds.
Sockets ==
  /\ \A c \in Clients : csock[c] # NoConn => copen[csock[c]]
  /\ \A c, d \in Clients : csock[c] = csock[d] /\ csock[c] # NoConn => c = d
  /\ \A k \in Conns : copen[k] => \E c \in Clients : csock[c] = k

\* The server side: queued connections wait for a thread, each once; a thread
\* has its socket; nothing is left of a server that has ended.
Threads ==
  /\ \A i \in 1..Len(backlog) :
       sopen[backlog[i]] /\ tpc[backlog[i]] = "none"
  /\ \A i, j \in 1..Len(backlog) : backlog[i] = backlog[j] => i = j
  /\ \A k \in Conns : tpc[k] # "none" => sopen[k]
  /\ server # "up" => /\ Len(backlog) = 0
                      /\ \A k \in Conns : ~sopen[k] /\ tpc[k] = "none"

\* A closed end has nothing to read, and a connection closed at both ends is
\* as good as new.
Ends ==
  \A k \in Conns :
    /\ ~copen[k] => Is0(dn[k])
    /\ ~sopen[k] => Is0(up[k])
    /\ ~copen[k] /\ ~sopen[k] => reset[k] = {}
    /\ copen[k] => "server" \notin reset[k]

\* The states a client and the thread of its connection can be in together:
\* cp and tp are their program counters, so whether the thread's socket is
\* open, u and d the unread messages, g and s the blocks read and sent.
InStep(cp, tp, so, u, d, g, s) ==
  \/ /\ cp = "request" /\ Is0(u) /\ Is0(d) /\ g = 0
     /\ so /\ tp \in {"none", "readReq"}
  \/ /\ cp = "waitAck" /\ g = 0
     /\ \/ Is1(u, ReqFile) /\ Is0(d) /\ so /\ tp \in {"none", "readReq"}
        \/ Is0(u) /\ Is0(d) /\ so /\ tp = "sendAck"
        \/ Is0(u) /\ Is1(d, ReqAck) /\ so /\ tp \in {"open", "complete"}
        \/ Is0(u) /\ Is1(d, ReqAck) /\ so /\ tp = "file" /\ s = 0
        \/ /\ Is0(u) /\ Is2(d, ReqAck, Block) /\ so /\ tp = "readBlockAck"
           /\ s = 1 /\ 1 <= FileBlocks
        \/ Is0(u) /\ Is2(d, ReqAck, Complete) /\ (so => tp = "close")
  \/ /\ cp = "waitBlock" /\ Is0(d) /\ so
     /\ \/ Is0(u) /\ tp \in {"open", "complete"} /\ g = 0
        \/ Is0(u) /\ tp = "file" /\ s = g /\ s <= FileBlocks
        \/ Is1(u, BlockAck) /\ tp = "readBlockAck" /\ s = g /\ s <= FileBlocks
  \/ /\ cp = "waitBlock" /\ Is0(u)
     /\ \/ /\ Is1(d, Block) /\ so /\ tp = "readBlockAck"
           /\ s = g + 1 /\ s <= FileBlocks
        \/ Is1(d, Complete) /\ (so => tp = "close") /\ g \in {0, FileBlocks}
  \/ /\ cp = "ackBlock" /\ Is0(u) /\ Is0(d) /\ so /\ tp = "readBlockAck"
     /\ s = g /\ s <= FileBlocks
  \/ /\ cp = "ackComplete" /\ Is0(u) /\ Is0(d) /\ (so => tp = "close")
     /\ g \in {0, FileBlocks}
  \/ /\ cp = "close" /\ Is0(d) /\ (so => tp = "close")
     /\ Is0(u) \/ Is1(u, CompleteAck)
     /\ g \in {0, FileBlocks}

Pair(c, k) ==
  /\ InStep(cpc[c], tpc[k], sopen[k], up[k], dn[k], got[c], served[k])
  /\ "client" \in reset[k] => cpc[c] = "close"

Lockstep ==
  server = "up" =>
    \A c \in Clients : \A k \in Conns : csock[c] = k => Pair(c, k)

\* While every client has followed the protocol, a thread whose client is
\* gone has nothing left to do but close its socket.
NoOrphan ==
  server = "up" /\ died = {} =>
    \A k \in Conns : sopen[k] /\ ~copen[k] => tpc[k] = "close"

-----------------------------------------------------------------------------
(***************************************************************************)
(* Facts about the operators of the model.                                 *)
(***************************************************************************)
\* The messages that are sent, and their types.
LEMMA Messages ==
  /\ \A x \in {"request", "ackBlock", "ackComplete"} : ClientSends[x] \in ProtoMsg
  /\ \A x \in {"sendAck", "file", "complete"} : ServerSends[x] \in ProtoMsg
  /\ ReqFile.type = "REQ_FILE" /\ BlockAck.type = "FILE_BLOCK_ACK"
  /\ CompleteAck.type = "FILE_COMPLETE_ACK"
  /\ ReqAck.type = "REQ_ACK" /\ Block.type = "FILE_BLOCK"
  /\ Complete.type = "FILE_COMPLETE"
  /\ DOMAIN ClientSends = {"request", "ackBlock", "ackComplete"}
  /\ DOMAIN ServerSends = {"sendAck", "file", "complete"}
BY DEF ClientSends, ServerSends, ProtoMsg, PROTO_TYPE, Msg, ReqFile, BlockAck,
       CompleteAck, ReqAck, Block, Complete

\* A cut message is still a message, of the same type.
LEMMA CutType ==
  ASSUME NEW m \in ProtoMsg
  PROVE  Cut(m) \in ProtoMsg /\ Cut(m).type = m.type
BY DEF ProtoMsg, Cut

\* Reading takes a buffer to a buffer and a queue to a queue.
LEMMA ReadType ==
  ASSUME NEW q \in Seq(ProtoMsg), NEW b \in Buffer
  PROVE  Filled(q, b) \in Buffer /\ Rest(q) \in Seq(ProtoMsg)
BY DEF Filled, Rest, Buffer

\* The message a thread sends is a message.
LEMMA SendingType ==
  ASSUME NEW k \in Conns, tpc[k] \in DOMAIN ServerSends
  PROVE  Sending(k) \in ProtoMsg
BY Messages DEF Sending
-----------------------------------------------------------------------------
(***************************************************************************)
(* The type invariant.                                                     *)
(***************************************************************************)
\* The part of TypeOK about the network.
NetType ==
  /\ backlog \in Seq(Conns)
  /\ up \in [Conns -> Seq(ProtoMsg)]
  /\ dn \in [Conns -> Seq(ProtoMsg)]
  /\ copen \in [Conns -> BOOLEAN]
  /\ sopen \in [Conns -> BOOLEAN]
  /\ reset \in [Conns -> SUBSET {"client", "server"}]

\* Updating a function where its values belong, or outside its domain.
LEMMA ExceptType ==
  ASSUME NEW D, NEW R, NEW f \in [D -> R], NEW k, NEW v, k \in D => v \in R
  PROVE  [f EXCEPT ![k] = v] \in [D -> R]
OBVIOUS

\* close(socketfh) keeps the connections in range.
LEMMA CloseClientEndType ==
  ASSUME NetType, NEW k, NEW q \in Seq(ProtoMsg), CloseClientEnd(k, q)
  PROVE  NetType'
<1>1. reset' \in [Conns -> SUBSET {"client", "server"}]
  <2> DEFINE r == IF ~sopen[k] THEN {}
                  ELSE IF dn[k] # <<>> THEN reset[k] \cup {"server"} ELSE reset[k]
  <2>1. reset' = [reset EXCEPT ![k] = r]
    BY DEF CloseClientEnd
  <2>2. k \in Conns => r \in SUBSET {"client", "server"}
    BY DEF NetType
  <2> HIDE DEF r
  <2> QED BY <2>1, <2>2 DEF NetType
<1>2. up' \in [Conns -> Seq(ProtoMsg)] /\ dn' \in [Conns -> Seq(ProtoMsg)]
  <2>1. <<>> \in Seq(ProtoMsg)
    OBVIOUS
  <2> QED BY <2>1 DEF NetType, CloseClientEnd
<1> QED BY <1>1, <1>2 DEF NetType, CloseClientEnd

\* close() by the thread keeps the connections in range.
LEMMA CloseServerEndType ==
  ASSUME NetType, NEW k, CloseServerEnd(k)
  PROVE  NetType'
<1>1. reset' \in [Conns -> SUBSET {"client", "server"}]
  <2> DEFINE r == IF ~copen[k] THEN {}
                  ELSE IF up[k] # <<>> THEN reset[k] \cup {"client"} ELSE reset[k]
  <2>1. reset' = [reset EXCEPT ![k] = r]
    BY DEF CloseServerEnd
  <2>2. k \in Conns => r \in SUBSET {"client", "server"}
    BY DEF NetType
  <2> HIDE DEF r
  <2> QED BY <2>1, <2>2 DEF NetType
<1> QED BY <1>1 DEF NetType, CloseServerEnd

\* A send of the client keeps the connections in range.
LEMMA WriteUpType ==
  ASSUME NetType, NEW k, NEW m \in ProtoMsg, WriteUp(k, m)
  PROVE  NetType'
<1>1. up' \in [Conns -> Seq(ProtoMsg)]
  <2>1. k \in Conns => Append(up[k], m) \in Seq(ProtoMsg)
    BY DEF NetType
  <2>2. up' = [up EXCEPT ![k] = Append(up[k], m)] \/ up' = up
    BY DEF WriteUp
  <2> QED BY <2>1, <2>2, ExceptType DEF NetType
<1>2. reset' \in [Conns -> SUBSET {"client", "server"}]
  <2>1. k \in Conns => reset[k] \cup {"client"} \in SUBSET {"client", "server"}
    BY DEF NetType
  <2>2. \/ reset' = [reset EXCEPT ![k] = reset[k] \cup {"client"}]
        \/ reset' = reset
    BY DEF WriteUp
  <2> QED BY <2>1, <2>2, ExceptType DEF NetType
<1> QED BY <1>1, <1>2 DEF NetType, WriteUp

\* A send of the thread keeps the connections in range.
LEMMA WriteDnType ==
  ASSUME NetType, NEW k, NEW m \in ProtoMsg, WriteDn(k, m)
  PROVE  NetType'
<1>1. dn' \in [Conns -> Seq(ProtoMsg)]
  <2>1. k \in Conns => Append(dn[k], m) \in Seq(ProtoMsg)
    BY DEF NetType
  <2>2. dn' = [dn EXCEPT ![k] = Append(dn[k], m)] \/ dn' = dn
    BY DEF WriteDn
  <2> QED BY <2>1, <2>2, ExceptType DEF NetType
<1>2. reset' \in [Conns -> SUBSET {"client", "server"}]
  <2>1. k \in Conns => reset[k] \cup {"server"} \in SUBSET {"client", "server"}
    BY DEF NetType
  <2>2. \/ reset' = [reset EXCEPT ![k] = reset[k] \cup {"server"}]
        \/ reset' = reset
    BY DEF WriteDn
  <2> QED BY <2>1, <2>2, ExceptType DEF NetType
<1> QED BY <1>1, <1>2 DEF NetType, WriteDn

\* One send of a client.
LEMMA ClientSendType ==
  ASSUME TypeOK, NEW c \in Clients, NEW from \in DOMAIN ClientSends,
         NEW to \in ClientPC, ClientSend(c, from, to)
  PROVE  TypeOK'
<1>1. ClientSends[from] \in ProtoMsg
  BY Messages
<1>2. NetType'
  BY <1>1, WriteUpType DEF ClientSend, TypeOK, NetType
<1> QED
  BY <1>1, <1>2 DEF ClientSend, TypeOK, NetType, Buffer, threadVars, serverVars

\* One read of a client that holds a socket.
LEMMA ClientReadType ==
  ASSUME TypeOK, NEW c \in Clients, NEW from, NEW type, NEW to \in ClientPC,
         ClientRead(c, from, type, to), csock[c] \in Conns
  PROVE  /\ cpc' \in [Clients -> ClientPC] /\ cbuf' \in [Clients -> Buffer]
         /\ dn' \in [Conns -> Seq(ProtoMsg)]
<1>1. cpc' \in [Clients -> ClientPC]
  BY DEF ClientRead, TypeOK
<1>2. dn' \in [Conns -> Seq(ProtoMsg)]
  <2>1. csock[c] \in Conns => Rest(dn[csock[c]]) \in Seq(ProtoMsg)
    BY ReadType DEF TypeOK, Buffer
  <2>2. dn' = [dn EXCEPT ![csock[c]] = Rest(dn[csock[c]])]
    BY DEF ClientRead
  <2> QED BY <2>1, <2>2, ExceptType DEF TypeOK
<1>3. cbuf' \in [Clients -> Buffer]
  <2>1. Filled(dn[csock[c]], cbuf[c]) \in Buffer
    BY ReadType DEF TypeOK
  <2>2. cbuf' = [cbuf EXCEPT ![c] = Filled(dn[csock[c]], cbuf[c])]
    BY DEF ClientRead
  <2> QED BY <2>1, <2>2, ExceptType DEF TypeOK
<1> QED BY <1>1, <1>2, <1>3

\* One send of a thread.
LEMMA ServerSendType ==
  ASSUME TypeOK, NEW k \in Conns, NEW from, NEW m \in ProtoMsg,
         NEW to \in ThreadPC, ServerSend(k, from, m, to), served' \in [Conns -> Nat]
  PROVE  TypeOK'
<1>1. NetType'
  BY WriteDnType DEF ServerSend, TypeOK, NetType
<1> QED
  BY <1>1 DEF ServerSend, TypeOK, NetType, Buffer, clientVars, serverVars

\* The end of the server leaves every variable in its range.
LEMMA ServerStopsType ==
  ASSUME TypeOK, NEW how \in {"exited", "aborted", "killed"}, ServerStops(how)
  PROVE  TypeOK'
<1>1. dn' \in [Conns -> Seq(ProtoMsg)]
  BY SendingType, CutType DEF ServerStops, TypeOK
<1>2. reset' \in [Conns -> SUBSET {"client", "server"}]
  BY DEF ServerStops, TypeOK
<1> QED
  BY <1>1, <1>2 DEF ServerStops, TypeOK, ThreadPC, clientVars

\* A step takes and gives back sockets as the client connects and closes.
LEMMA HoldsSocketStep ==
  ASSUME TypeOK, HoldsSocket, [Next]_vars
  PROVE  HoldsSocket'
<1> USE TransferAssumption DEF HoldsSocket, TypeOK, Connected
<1>1. ASSUME NEW c \in Clients, Connect(c) PROVE HoldsSocket'
  BY <1>1 DEF Connect
<1>2. ASSUME NEW c \in Clients, \/ ConnectFails(c) \/ LoopTest(c) \/ Restart(c)
      PROVE  HoldsSocket'
  BY <1>2 DEF ConnectFails, LoopTest, Restart, Dead
<1>3. ASSUME NEW c \in Clients,
             \/ SendRequest(c) \/ SendBlockAck(c) \/ SendCompleteAck(c)
      PROVE  HoldsSocket'
  BY <1>3 DEF SendRequest, SendBlockAck, SendCompleteAck, ClientSend
<1>4. ASSUME NEW c \in Clients, ReadReqAck(c) \/ ReadBlock(c) \/ ReadComplete(c)
      PROVE  HoldsSocket'
  BY <1>4 DEF ReadReqAck, ReadBlock, ReadComplete, ClientRead
<1>5. ASSUME NEW c \in Clients, ClientClose(c) PROVE HoldsSocket'
  BY <1>5 DEF ClientClose
<1>6. ASSUME NEW c \in Clients, NEW how \in Dead, ClientDies(c, how)
      PROVE  HoldsSocket'
  BY <1>6 DEF ClientDies, Dead
<1>7. ASSUME NEW c \in Clients,
             ClientAssertFails(c) \/ ClientSigpipe(c) \/ Crash(c)
      PROVE  HoldsSocket'
  BY <1>6, <1>7 DEF ClientAssertFails, ClientSigpipe, Crash, Dead
<1>8. CASE UNCHANGED clientVars
  BY <1>8 DEF clientVars
<1>9. CASE MainStep
  BY <1>8, <1>9 DEF MainStep, EnterAccept, AcceptFails, Accept, ServerStops
<1>10. ASSUME NEW k \in Conns, ThreadStep(k) PROVE HoldsSocket'
  BY <1>8, <1>10 DEF ThreadStep, ReadRequest, SendReqAck, OpenFile, SendBlock,
     ReadBlockAck, SendComplete, CloseConn, ServerSend, ServerAssertFails,
     ServerSigpipe, ServerStops
<1>11. CASE UNCHANGED vars
  BY <1>8, <1>11 DEF vars
<1> QED
  BY <1>1, <1>2, <1>3, <1>4, <1>5, <1>7, <1>9, <1>10, <1>11
  DEF Next, ClientStep, AllQuiet

\* Every step keeps every variable in its range.
LEMMA TypeStep ==
  ASSUME TypeOK, HoldsSocket, [Next]_vars
  PROVE  TypeOK'
<1> USE DEF clientVars, threadVars, serverVars, netVars
<1>a. TypeOK => NetType
  BY DEF TypeOK, NetType
<1>b. ASSUME NEW c \in Clients, cpc[c] \in Connected PROVE csock[c] \in Conns
  BY <1>b DEF TypeOK, HoldsSocket
<1>1. ASSUME NEW c \in Clients, Connect(c) PROVE TypeOK'
  BY <1>1 DEF Connect, Buffer, TypeOK, ClientPC
<1>2. ASSUME NEW c \in Clients, ConnectFails(c) PROVE TypeOK'
  BY <1>2 DEF ConnectFails, TypeOK, ClientPC, Dead
<1>3. ASSUME NEW c \in Clients, SendRequest(c) PROVE TypeOK'
  BY <1>3, ClientSendType, Messages DEF SendRequest, ClientPC
<1>4. ASSUME NEW c \in Clients, SendBlockAck(c) PROVE TypeOK'
  BY <1>4, ClientSendType, Messages DEF SendBlockAck, ClientPC
<1>5. ASSUME NEW c \in Clients, SendCompleteAck(c) PROVE TypeOK'
  BY <1>5, ClientSendType, Messages DEF SendCompleteAck, ClientPC
<1>6. ASSUME NEW c \in Clients, ReadReqAck(c) PROVE TypeOK'
  <2>1. "waitBlock" \in ClientPC /\ csock[c] \in Conns
    BY <1>6, <1>b DEF ClientPC, ReadReqAck, ClientRead, Connected
  <2> QED BY <1>6, <2>1, ClientReadType DEF ReadReqAck, ClientRead, TypeOK
<1>7. ASSUME NEW c \in Clients, ReadBlock(c) PROVE TypeOK'
  <2>1. "ackBlock" \in ClientPC /\ csock[c] \in Conns
    BY <1>7, <1>b DEF ClientPC, ReadBlock, ClientRead, Connected
  <2>2. /\ cpc' \in [Clients -> ClientPC] /\ cbuf' \in [Clients -> Buffer]
        /\ dn' \in [Conns -> Seq(ProtoMsg)]
    BY <1>7, <2>1, ClientReadType DEF ReadBlock
  <2>3. got' \in [Clients -> Nat]
    BY <1>7 DEF ReadBlock, TypeOK
  <2> QED BY <1>7, <2>2, <2>3 DEF ReadBlock, ClientRead, TypeOK
<1>8. ASSUME NEW c \in Clients, ReadComplete(c) PROVE TypeOK'
  <2>1. "ackComplete" \in ClientPC /\ csock[c] \in Conns
    BY <1>8, <1>b DEF ClientPC, ReadComplete, ClientRead, Connected
  <2> QED BY <1>8, <2>1, ClientReadType DEF ReadComplete, ClientRead, TypeOK
<1>9. ASSUME NEW c \in Clients, ClientClose(c) PROVE TypeOK'
  <2>1. NetType'
    BY <1>9, <1>a, <1>b, CloseClientEndType DEF ClientClose, NetType, Connected
  <2> QED BY <1>9, <2>1 DEF ClientClose, TypeOK, NetType, ClientPC
<1>10. ASSUME NEW c \in Clients, LoopTest(c) PROVE TypeOK'
  BY <1>10 DEF LoopTest, TypeOK, ClientPC, Dead
<1>11. ASSUME NEW c \in Clients, ClientAssertFails(c) PROVE TypeOK'
  <2>1. NetType'
    BY <1>11, <1>a, <1>b, CloseClientEndType DEF ClientAssertFails, NetType, Connected
  <2> QED BY <1>11, <2>1
          DEF ClientAssertFails, ClientDies, TypeOK, NetType, ClientPC, Dead
<1>12. ASSUME NEW c \in Clients, ClientSigpipe(c) PROVE TypeOK'
  <2>1. csock[c] \in Conns
    BY <1>12, <1>b, Messages DEF ClientSigpipe, Connected
  <2>2. NetType'
    BY <1>12, <1>a, <2>1, CloseClientEndType DEF ClientSigpipe, NetType
  <2> QED BY <1>12, <2>2
          DEF ClientSigpipe, ClientDies, TypeOK, NetType, ClientPC, Dead
<1>13. ASSUME NEW c \in Clients, Crash(c) PROVE TypeOK'
  <2>1. cpc' \in [Clients -> ClientPC] /\ csock' \in [Clients -> Conns \cup {NoConn}]
    BY <1>13 DEF Crash, ClientDies, TypeOK, ClientPC, Dead
  <2>2. crashes' \in 0..CrashLimit /\ died' \in SUBSET Clients
    BY <1>13, TransferAssumption DEF Crash, ClientDies, TypeOK
  <2>3. NetType'
    <3>1. CASE csock[c] = NoConn
      BY <1>13, <3>1, <1>a DEF Crash, NetType
    <3>2. CASE csock[c] # NoConn
      <4>1. PICK q \in IF cpc[c] \in DOMAIN ClientSends
                       THEN CutOff(up[csock[c]], ClientSends[cpc[c]])
                       ELSE {up[csock[c]]} :
                CloseClientEnd(csock[c], q)
        BY <1>13, <3>2 DEF Crash
      <4>2. csock[c] \in Conns /\ up[csock[c]] \in Seq(ProtoMsg)
        BY <3>2 DEF TypeOK
      <4>3. q \in Seq(ProtoMsg)
        <5>1. CASE cpc[c] \in DOMAIN ClientSends
          <6> DEFINE m == Cut(ClientSends[cpc[c]])
          <6>1. m \in ProtoMsg
            BY <5>1, CutType, Messages
          <6>2. q = up[csock[c]] \/ q = Append(up[csock[c]], m)
            BY <4>1, <5>1 DEF CutOff
          <6> HIDE DEF m
          <6> QED BY <4>2, <6>1, <6>2
        <5>2. CASE cpc[c] \notin DOMAIN ClientSends
          BY <4>1, <4>2, <5>2
        <5> QED BY <5>1, <5>2
      <4> QED BY <4>1, <4>3, <1>a, CloseClientEndType
    <3> QED BY <3>1, <3>2
  <2> QED
    BY <1>13, <2>1, <2>2, <2>3 DEF Crash, ClientDies, TypeOK, NetType
<1>14. ASSUME NEW c \in Clients, Restart(c) PROVE TypeOK'
  BY <1>14 DEF Restart, TypeOK, ClientPC
<1>15. CASE EnterAccept
  BY <1>15 DEF EnterAccept, TypeOK
<1>16. CASE AcceptFails
  BY <1>16, ServerStopsType DEF AcceptFails
<1>17. CASE Accept
  BY <1>17 DEF Accept, Buffer, TypeOK, ThreadPC
<1>18. ASSUME NEW k \in Conns, ReadRequest(k) PROVE TypeOK'
  <2>1. Filled(up[k], tbuf[k]) \in Buffer /\ Rest(up[k]) \in Seq(ProtoMsg)
    BY ReadType DEF TypeOK
  <2>2. tname' \in [Conns -> BOOLEAN]
    BY <1>18 DEF ReadRequest, TypeOK
  <2> QED BY <1>18, <2>1, <2>2 DEF ReadRequest, TypeOK, ThreadPC
<1>19. ASSUME NEW k \in Conns, SendReqAck(k) PROVE TypeOK'
  BY <1>19, ServerSendType, Messages DEF SendReqAck, TypeOK, ThreadPC
<1>20. ASSUME NEW k \in Conns, OpenFile(k) PROVE TypeOK'
  <2>1. served' \in [Conns -> Nat]
    BY <1>20 DEF OpenFile, TypeOK
  <2>2. leaked' = leaked + 1 \/ leaked' = leaked
    BY <1>20 DEF OpenFile
  <2>3. tpc' = [tpc EXCEPT ![k] = "file"] \/ tpc' = [tpc EXCEPT ![k] = "complete"]
    BY <1>20 DEF OpenFile
  <2>4. leaked' \in Nat
    BY <2>2 DEF TypeOK
  <2>5. tpc' \in [Conns -> ThreadPC]
    BY <2>3, ExceptType DEF TypeOK, ThreadPC
  <2> QED BY <1>20, <2>1, <2>4, <2>5 DEF OpenFile, TypeOK
<1>21. ASSUME NEW k \in Conns, SendBlock(k) PROVE TypeOK'
  <2>1. served' \in [Conns -> Nat]
    BY <1>21 DEF SendBlock, TypeOK
  <2> QED BY <1>21, <2>1, ServerSendType, Messages DEF SendBlock, ThreadPC
<1>22. ASSUME NEW k \in Conns, ReadBlockAck(k) PROVE TypeOK'
  <2>1. Filled(up[k], tbuf[k]) \in Buffer /\ Rest(up[k]) \in Seq(ProtoMsg)
    BY ReadType DEF TypeOK
  <2> QED BY <1>22, <2>1 DEF ReadBlockAck, TypeOK, ThreadPC
<1>23. ASSUME NEW k \in Conns, SendComplete(k) PROVE TypeOK'
  BY <1>23, ServerSendType, Messages DEF SendComplete, TypeOK, ThreadPC
<1>24. ASSUME NEW k \in Conns, CloseConn(k) PROVE TypeOK'
  BY <1>24, <1>a, CloseServerEndType DEF CloseConn, TypeOK, ThreadPC, NetType
<1>25. ASSUME NEW k \in Conns, ServerAssertFails(k) PROVE TypeOK'
  BY <1>25, ServerStopsType DEF ServerAssertFails
<1>26. ASSUME NEW k \in Conns, ServerSigpipe(k) PROVE TypeOK'
  BY <1>26, ServerStopsType DEF ServerSigpipe
<1>27. CASE UNCHANGED vars
  BY <1>27 DEF vars, TypeOK
<1> QED
  BY <1>1, <1>2, <1>3, <1>4, <1>5, <1>6, <1>7, <1>8, <1>9, <1>10, <1>11,
     <1>12, <1>13, <1>14, <1>15, <1>16, <1>17, <1>18, <1>19, <1>20, <1>21, <1>22,
     <1>23, <1>24, <1>25, <1>26, <1>27
  DEF Next, ClientStep, MainStep, ThreadStep, AllQuiet

\* Every variable stays in its range in every behaviour.
THEOREM TypeCorrect == Spec => []TypeOK
<1>1. Init => TypeOK /\ HoldsSocket
  BY TransferAssumption DEF Init, TypeOK, ClientPC, ThreadPC, Buffer,
     HoldsSocket, Connected
<1>2. TypeOK /\ HoldsSocket /\ [Next]_vars => (TypeOK /\ HoldsSocket)'
  BY TypeStep, HoldsSocketStep
<1> QED
  BY <1>1, <1>2, PTL DEF Spec
-----------------------------------------------------------------------------
(***************************************************************************)
(* Sockets, threads and the two ends of a connection.                      *)
(***************************************************************************)
\* Short queues under Append and Rest.
LEMMA AppendIs ==
  ASSUME NEW s \in Seq(ProtoMsg), NEW m \in ProtoMsg
  PROVE  /\ Is0(s) => Is1(Append(s, m), m)
         /\ \A n : Is1(s, n) => Is2(Append(s, m), n, m)
<1>1. Len(Append(s, m)) = Len(s) + 1 /\ Append(s, m)[Len(s) + 1] = m
  OBVIOUS
<1>2. ASSUME NEW n, Is1(s, n) PROVE Is2(Append(s, m), n, m)
  <2>1. Append(s, m)[1] = n
    BY <1>2 DEF Is1
  <2> QED BY <1>1, <1>2, <2>1 DEF Is1, Is2
<1> QED BY <1>1, <1>2 DEF Is0, Is1

\* Taking one message leaves the queue one shorter.
LEMMA RestIs ==
  ASSUME NEW s \in Seq(ProtoMsg)
  PROVE  /\ Is0(s) <=> s = <<>>
         /\ Is0(s) => Rest(s) = s
         /\ \A m : Is1(s, m) => s # <<>> /\ Head(s) = m /\ Is0(Rest(s))
         /\ \A m, n : Is2(s, m, n) => s # <<>> /\ Head(s) = m /\ Is1(Rest(s), n)
BY DEF Is0, Is1, Is2, Rest

\* Connections start with empty queues.
LEMMA EmptyIs == Is0(<<>>)
BY DEF Is0

\* Which variables the actions of the server, and which the sends and reads of
\* a client, leave alone.
LEMMA ServerFrame ==
  ASSUME MainStep \/ \E k \in Conns : ThreadStep(k)
  PROVE  UNCHANGED <<clientVars, copen>>
BY DEF MainStep, EnterAccept, AcceptFails, Accept, ThreadStep, ReadRequest,
   SendReqAck, OpenFile, SendBlock, ReadBlockAck, SendComplete, CloseConn,
   ServerSend, ServerAssertFails, ServerSigpipe, ServerStops, WriteDn,
   CloseServerEnd, netVars

\* A step of a client touches nothing of the server and at most one socket.
LEMMA ClientFrame ==
  ASSUME NEW c \in Clients, ClientStep(c) \/ Crash(c) \/ Restart(c)
  PROVE  /\ UNCHANGED <<tpc, tbuf, tname, served, server, main, leaked>>
         /\ ~Connect(c) => UNCHANGED <<backlog, sopen>>
BY DEF ClientStep, Connect, ConnectFails, SendRequest, SendBlockAck,
   SendCompleteAck, ClientSend, ReadReqAck, ReadBlock, ReadComplete,
   ClientRead, ClientClose, LoopTest, ClientAssertFails, ClientSigpipe,
   Crash, Restart, ClientDies, CloseClientEnd, WriteUp, threadVars, serverVars,
   netVars

\* The four ways a client's end is closed.
Closes(c) ==
  ClientClose(c) \/ ClientAssertFails(c) \/ ClientSigpipe(c) \/ Crash(c)

\* A client that ends closes its own socket and no other.
LEMMA ClosesFrame ==
  ASSUME TypeOK, HoldsSocket, NEW c \in Clients, Closes(c), csock[c] # NoConn
  PROVE  /\ \E q : CloseClientEnd(csock[c], q)
         /\ csock' = [csock EXCEPT ![c] = NoConn]
BY DEF Closes, ClientClose, ClientAssertFails, ClientSigpipe, Crash, ClientDies,
   HoldsSocket, Connected

\* Sockets is kept by every step: descriptors are never shared or lost.
LEMMA SocketsStep ==
  ASSUME TypeOK, HoldsSocket, Sockets, [Next]_vars
  PROVE  Sockets'
<1>1. CASE UNCHANGED <<csock, copen>>
  BY <1>1 DEF Sockets
<1>2. ASSUME NEW c \in Clients, Connect(c) PROVE Sockets'
  <2>1. PICK k \in Conns :
          /\ ~copen[k]
          /\ csock' = [csock EXCEPT ![c] = k]
          /\ copen' = [copen EXCEPT ![k] = TRUE]
    BY <1>2 DEF Connect
  <2>2. csock[c] = NoConn /\ NoConn \notin Conns
    BY <1>2, TransferAssumption DEF Connect, HoldsSocket, Connected
  <2>3. \A d \in Clients : csock[d] # k
    BY <2>1, <2>2 DEF Sockets
  <2>4. \A d \in Clients : csock'[d] = IF d = c THEN k ELSE csock[d]
    BY <2>1 DEF TypeOK
  <2>5. \A j \in Conns : copen'[j] = IF j = k THEN TRUE ELSE copen[j]
    BY <2>1 DEF TypeOK
  <2>a. \A d \in Clients : csock[d] \in Conns \cup {NoConn}
    BY DEF TypeOK
  <2>6. ASSUME NEW d \in Clients, csock'[d] # NoConn PROVE copen'[csock'[d]]
    <3>1. CASE d = c
      BY <2>4, <2>5, <3>1
    <3>2. CASE d # c
      <4>1. csock'[d] = csock[d] /\ csock[d] \in Conns /\ copen[csock[d]]
        BY <2>4, <2>6, <2>a, <3>2 DEF Sockets
      <4> QED BY <4>1, <2>5
    <3> QED BY <3>1, <3>2
  <2>7. ASSUME NEW j \in Conns, copen'[j] PROVE \E d \in Clients : csock'[d] = j
    <3>1. CASE j = k
      BY <2>4, <3>1
    <3>2. CASE j # k
      <4>1. PICK d \in Clients : csock[d] = j
        BY <2>5, <2>7, <3>2 DEF Sockets
      <4> QED BY <4>1, <2>2, <2>4
    <3> QED BY <3>1, <3>2
  <2> QED BY <2>3, <2>4, <2>6, <2>7 DEF Sockets
<1>3. ASSUME NEW c \in Clients, Closes(c), csock[c] # NoConn PROVE Sockets'
  <2>1. /\ copen' = [copen EXCEPT ![csock[c]] = FALSE]
        /\ csock' = [csock EXCEPT ![c] = NoConn]
    BY <1>3, ClosesFrame DEF CloseClientEnd
  <2>2. \A d \in Clients : csock'[d] = IF d = c THEN NoConn ELSE csock[d]
    BY <2>1 DEF TypeOK
  <2>3. \A j \in Conns : copen'[j] = IF j = csock[c] THEN FALSE ELSE copen[j]
    BY <2>1 DEF TypeOK
  <2>a. \A d \in Clients : csock[d] \in Conns \cup {NoConn}
    BY DEF TypeOK
  <2>4. ASSUME NEW d \in Clients, csock'[d] # NoConn PROVE copen'[csock'[d]]
    <3>1. d # c /\ csock'[d] = csock[d] /\ csock[d] \in Conns
      BY <2>2, <2>4, <2>a
    <3>2. csock[d] # csock[c] /\ copen[csock[d]]
      BY <1>3, <2>4, <3>1 DEF Sockets
    <3> QED BY <2>3, <3>1, <3>2
  <2>5. \A j \in Conns : copen'[j] => \E d \in Clients : csock'[d] = j
    BY <2>2, <2>3 DEF Sockets
  <2> QED BY <2>2, <2>4, <2>5 DEF Sockets
<1>4. ASSUME NEW c \in Clients, Closes(c), csock[c] = NoConn
      PROVE  UNCHANGED <<csock, copen>>
  BY <1>4, Messages DEF Closes, ClientClose, ClientAssertFails, ClientSigpipe,
     Crash, ClientDies, HoldsSocket, Connected, TypeOK, netVars
<1>5. ASSUME NEW c \in Clients, ClientStep(c) \/ Crash(c) \/ Restart(c),
             ~Connect(c), ~Closes(c)
      PROVE  UNCHANGED <<csock, copen>>
  BY <1>5 DEF ClientStep, Closes, ConnectFails, SendRequest, SendBlockAck,
     SendCompleteAck, ClientSend, WriteUp, ReadReqAck, ReadBlock, ReadComplete,
     ClientRead, LoopTest, Restart, netVars
<1>6. MainStep \/ (\E k \in Conns : ThreadStep(k)) => UNCHANGED <<csock, copen>>
  BY ServerFrame DEF clientVars
<1>7. AllQuiet \/ UNCHANGED vars => UNCHANGED <<csock, copen>>
  BY DEF AllQuiet, vars, clientVars, netVars
<1> QED BY <1>1, <1>2, <1>3, <1>4, <1>5, <1>6, <1>7 DEF Next

\* What a server that stops leaves behind.
LEMMA StopFrame ==
  ASSUME NEW how, ServerStops(how)
  PROVE  /\ server' = how
         /\ tpc' = [k \in Conns |-> "none"]
         /\ sopen' = [k \in Conns |-> FALSE]
         /\ Len(backlog') = 0
BY DEF ServerStops

\* Threads is kept by every step: accept() hands each connection to one
\* thread, and the end of the process takes them all.
LEMMA ThreadsStep ==
  ASSUME TypeOK, HoldsSocket, Threads, [Next]_vars
  PROVE  Threads'
<1>1. CASE UNCHANGED <<backlog, sopen, tpc, server>>
  BY <1>1 DEF Threads
<1>2. ASSUME NEW c \in Clients, Connect(c) PROVE Threads'
  <2>1. PICK k \in Conns :
          /\ ~sopen[k]
          /\ sopen' = [sopen EXCEPT ![k] = TRUE]
          /\ backlog' = Append(backlog, k)
          /\ server = "up" /\ UNCHANGED <<tpc, server>>
    BY <1>2 DEF Connect, threadVars, serverVars
  <2>2. /\ Len(backlog') = Len(backlog) + 1
        /\ backlog'[Len(backlog) + 1] = k
        /\ \A i \in 1..Len(backlog) : backlog'[i] = backlog[i]
        /\ \A i \in 1..Len(backlog) : backlog[i] \in Conns
    BY <2>1 DEF TypeOK
  <2>3. \A i \in 1..Len(backlog) : backlog[i] # k
    BY <2>1 DEF Threads
  <2>4. tpc[k] = "none"
    BY <2>1 DEF Threads
  <2>5. \A j \in Conns : sopen'[j] = IF j = k THEN TRUE ELSE sopen[j]
    BY <2>1 DEF TypeOK
  <2>a. Len(backlog) \in Nat
    BY DEF TypeOK
  <2>6. ASSUME NEW i \in 1..Len(backlog')
        PROVE  sopen'[backlog'[i]] /\ tpc'[backlog'[i]] = "none"
    <3>1. CASE i = Len(backlog) + 1
      BY <2>1, <2>2, <2>4, <2>5, <3>1
    <3>2. CASE i # Len(backlog) + 1
      <4>1. i \in 1..Len(backlog) /\ backlog'[i] = backlog[i] /\ backlog[i] \in Conns
        BY <2>2, <2>6, <2>a, <3>2
      <4>2. sopen[backlog[i]] /\ tpc[backlog[i]] = "none"
        BY <4>1 DEF Threads
      <4> QED BY <2>1, <2>5, <4>1, <4>2
    <3> QED BY <3>1, <3>2
  <2>7. ASSUME NEW i \in 1..Len(backlog'), NEW j \in 1..Len(backlog'),
               backlog'[i] = backlog'[j]
        PROVE  i = j
    <3>1. CASE i = Len(backlog) + 1 \/ j = Len(backlog) + 1
      BY <2>2, <2>3, <2>7, <2>a, <3>1
    <3>2. CASE i # Len(backlog) + 1 /\ j # Len(backlog) + 1
      <4>1. i \in 1..Len(backlog) /\ j \in 1..Len(backlog)
        BY <2>2, <2>a, <3>2
      <4> QED BY <2>2, <2>7, <4>1 DEF Threads
    <3> QED BY <3>1, <3>2
  <2>8. \A j \in Conns : tpc'[j] # "none" => sopen'[j]
    BY <2>1, <2>5 DEF Threads
  <2> QED BY <2>1, <2>6, <2>7, <2>8 DEF Threads
<1>3. ASSUME NEW c \in Clients, ClientStep(c) \/ Crash(c) \/ Restart(c), ~Connect(c)
      PROVE  Threads'
  BY <1>1, <1>3, ClientFrame
<1>4. CASE Accept
  <2> DEFINE k == Head(backlog)
  <2>1. /\ Len(backlog) > 0 /\ k = backlog[1] /\ k \in Conns
        /\ Len(backlog') = Len(backlog) - 1
        /\ \A i \in 1..Len(backlog') : i + 1 \in 1..Len(backlog) /\ backlog'[i] = backlog[i + 1]
        /\ \A i \in 1..Len(backlog) : backlog[i] \in Conns
    BY <1>4 DEF Accept, TypeOK
  <2>2. tpc' = [tpc EXCEPT ![k] = "readReq"] /\ UNCHANGED <<sopen, server>> /\ server = "up"
    BY <1>4 DEF Accept
  <2>3. \A j \in Conns : tpc'[j] = IF j = k THEN "readReq" ELSE tpc[j]
    BY <2>2 DEF TypeOK
  <2> HIDE DEF k
  <2>a. Len(backlog) \in Nat /\ 1 \in 1..Len(backlog)
    BY <2>1 DEF TypeOK
  <2>4. ASSUME NEW i \in 1..Len(backlog') PROVE backlog'[i] # k
    <3>1. i + 1 \in 1..Len(backlog) /\ backlog'[i] = backlog[i + 1] /\ i + 1 # 1
      BY <2>1, <2>a
    <3> QED BY <2>1, <2>a, <3>1 DEF Threads
  <2>5. \A i \in 1..Len(backlog') : sopen'[backlog'[i]] /\ tpc'[backlog'[i]] = "none"
    BY SMTT(30), <2>1, <2>2, <2>3, <2>4 DEF Threads
  <2>6. ASSUME NEW i \in 1..Len(backlog'), NEW j \in 1..Len(backlog'),
               backlog'[i] = backlog'[j]
        PROVE  i = j
    <3>1. i + 1 = j + 1
      BY SMTT(30), <2>1, <2>6 DEF Threads
    <3> QED BY <2>a, <3>1
  <2>7. \A j \in Conns : tpc'[j] # "none" => sopen'[j]
    BY <2>1, <2>2, <2>3 DEF Threads
  <2> QED BY <2>2, <2>5, <2>6, <2>7 DEF Threads
<1>5. ASSUME NEW how, ServerStops(how) PROVE Threads'
  BY <1>5, StopFrame DEF Threads
<1>6. ASSUME NEW k \in Conns, tpc[k] # "none", tpc'[k] # "none", NEW t,
             tpc' = [tpc EXCEPT ![k] = t], UNCHANGED <<backlog, sopen, server>>
      PROVE  Threads'
  <2>1. \A j \in Conns : (tpc'[j] = "none") <=> (tpc[j] = "none")
    BY <1>6 DEF TypeOK
  <2>2. \A i \in 1..Len(backlog) : backlog[i] \in Conns
    BY DEF TypeOK
  <2> QED BY <1>6, <2>1, <2>2 DEF Threads
<1>7. ASSUME NEW k \in Conns,
             \/ ReadRequest(k) \/ SendReqAck(k) \/ OpenFile(k) \/ SendBlock(k)
             \/ ReadBlockAck(k) \/ SendComplete(k)
      PROVE  Threads'
  <2>1. /\ tpc[k] # "none" /\ tpc'[k] # "none"
        /\ \E t : tpc' = [tpc EXCEPT ![k] = t]
        /\ UNCHANGED <<backlog, sopen, server>>
    BY <1>7 DEF ReadRequest, SendReqAck, OpenFile, SendBlock, ReadBlockAck,
       SendComplete, ServerSend, WriteDn, serverVars, netVars, TypeOK
  <2> QED BY <1>6, <2>1
<1>8. ASSUME NEW k \in Conns, CloseConn(k) PROVE Threads'
  <2>1. /\ tpc[k] # "none" /\ UNCHANGED <<backlog, server>>
        /\ tpc' = [tpc EXCEPT ![k] = "none"]
        /\ sopen' = [sopen EXCEPT ![k] = FALSE]
    BY <1>8 DEF CloseConn, CloseServerEnd, serverVars
  <2>2. \A j \in Conns : /\ tpc'[j] = IF j = k THEN "none" ELSE tpc[j]
                         /\ sopen'[j] = IF j = k THEN FALSE ELSE sopen[j]
    BY <2>1 DEF TypeOK
  <2>a. \A i \in 1..Len(backlog) : backlog[i] \in Conns
    BY DEF TypeOK
  <2>b. \A i \in 1..Len(backlog) : tpc[backlog[i]] = "none"
    BY DEF Threads
  <2>3. \A i \in 1..Len(backlog) : backlog[i] \in Conns /\ backlog[i] # k
    BY <2>1, <2>a, <2>b
  <2>4. \A i \in 1..Len(backlog') :
          sopen'[backlog'[i]] /\ tpc'[backlog'[i]] = "none"
    BY <2>1, <2>2, <2>3 DEF Threads
  <2>5. \A j \in Conns : tpc'[j] # "none" => sopen'[j]
    BY <2>2 DEF Threads
  <2>6. server' # "up" => /\ Len(backlog') = 0
                          /\ \A j \in Conns : ~sopen'[j] /\ tpc'[j] = "none"
    BY <2>1, <2>2 DEF Threads
  <2> QED BY <2>1, <2>4, <2>5, <2>6 DEF Threads
<1>9. CASE EnterAccept
  BY <1>1, <1>9 DEF EnterAccept, threadVars, netVars
<1>10. AllQuiet \/ UNCHANGED vars => Threads'
  BY <1>1 DEF AllQuiet, vars, threadVars, serverVars, netVars
<1> QED
  BY <1>2, <1>3, <1>4, <1>5, <1>7, <1>8, <1>9, <1>10
  DEF Next, MainStep, AcceptFails, ThreadStep, ServerAssertFails, ServerSigpipe

\* What one step on the network does to the ends of a connection.
LEMMA EndsCloseClient ==
  ASSUME NetType, Ends, NEW k \in Conns, NEW q, CloseClientEnd(k, q)
  PROVE  Ends'
<1>1. \A j \in Conns :
        /\ copen'[j] = IF j = k THEN FALSE ELSE copen[j]
        /\ dn'[j] = IF j = k THEN <<>> ELSE dn[j]
        /\ up'[j] = IF j = k THEN IF sopen[k] THEN q ELSE <<>> ELSE up[j]
        /\ sopen'[j] = sopen[j]
        /\ j # k => reset'[j] = reset[j]
  BY DEF NetType, CloseClientEnd
<1>2. ~sopen[k] => reset'[k] = {}
  BY DEF NetType, CloseClientEnd
<1> QED BY <1>1, <1>2, EmptyIs DEF Ends

\* The same when the server's end closes.
LEMMA EndsCloseServer ==
  ASSUME NetType, Ends, NEW k \in Conns, CloseServerEnd(k)
  PROVE  Ends'
<1>1. \A j \in Conns :
        /\ sopen'[j] = IF j = k THEN FALSE ELSE sopen[j]
        /\ up'[j] = IF j = k THEN <<>> ELSE up[j]
        /\ dn'[j] = dn[j] /\ copen'[j] = copen[j]
        /\ j # k => reset'[j] = reset[j]
  BY DEF NetType, CloseServerEnd
<1>2. ~copen[k] => reset'[k] = {}
  BY DEF NetType, CloseServerEnd
<1>3. copen[k] => reset'[k] = reset[k] \cup {"client"} \/ reset'[k] = reset[k]
  BY DEF NetType, CloseServerEnd
<1>4. copen[k] => "server" \notin reset'[k]
  BY <1>3 DEF Ends
<1>5. ASSUME NEW j \in Conns
      PROVE  /\ ~copen'[j] => Is0(dn'[j])
             /\ ~sopen'[j] => Is0(up'[j])
             /\ ~copen'[j] /\ ~sopen'[j] => reset'[j] = {}
             /\ copen'[j] => "server" \notin reset'[j]
  <2>1. CASE j = k
    BY <1>1, <1>2, <1>4, <2>1, EmptyIs DEF Ends
  <2>2. CASE j # k
    BY <1>1, <2>2 DEF Ends
  <2> QED BY <2>1, <2>2
<1> QED BY <1>5 DEF Ends

\* A send of the client keeps Ends.
LEMMA EndsWriteUp ==
  ASSUME NetType, Ends, NEW k \in Conns, NEW m, copen[k], WriteUp(k, m)
  PROVE  Ends'
<1>1. UNCHANGED <<dn, copen, sopen>> /\ \A j \in Conns : j # k => up'[j] = up[j] /\ reset'[j] = reset[j]
  BY DEF NetType, WriteUp
<1>2. sopen[k] => reset' = reset
  BY DEF WriteUp
<1>3. ~sopen[k] => up' = up /\ reset'[k] = reset[k] \cup {"client"}
  BY DEF NetType, WriteUp
<1> QED BY <1>1, <1>2, <1>3 DEF Ends

\* A send of the thread keeps Ends.
LEMMA EndsWriteDn ==
  ASSUME NetType, Ends, NEW k \in Conns, NEW m, sopen[k], WriteDn(k, m)
  PROVE  Ends'
<1>1. UNCHANGED <<up, copen, sopen>> /\ \A j \in Conns : j # k => dn'[j] = dn[j] /\ reset'[j] = reset[j]
  BY DEF NetType, WriteDn
<1>2. copen[k] => reset' = reset
  BY DEF WriteDn
<1>3. ~copen[k] => dn' = dn
  BY DEF NetType, WriteDn
<1> QED BY <1>1, <1>2, <1>3 DEF Ends

\* A read at either end keeps Ends.
LEMMA EndsRead ==
  ASSUME NetType, Ends, NEW k \in Conns, UNCHANGED <<copen, sopen, reset>>,
         \/ dn' = [dn EXCEPT ![k] = Rest(@)] /\ UNCHANGED up
         \/ up' = [up EXCEPT ![k] = Rest(@)] /\ UNCHANGED dn
  PROVE  Ends'
<1>1. /\ Is0(dn[k]) => Rest(dn[k]) = dn[k]
      /\ Is0(up[k]) => Rest(up[k]) = up[k]
  BY RestIs DEF NetType
<1>2. CASE dn' = [dn EXCEPT ![k] = Rest(@)] /\ UNCHANGED up
  <2>1. \A j \in Conns : dn'[j] = IF j = k THEN Rest(dn[k]) ELSE dn[j]
    BY <1>2 DEF NetType
  <2> QED BY <1>1, <1>2, <2>1 DEF Ends
<1>3. CASE up' = [up EXCEPT ![k] = Rest(@)] /\ UNCHANGED dn
  <2>1. \A j \in Conns : up'[j] = IF j = k THEN Rest(up[k]) ELSE up[j]
    BY <1>3 DEF NetType
  <2> QED BY <1>1, <1>3, <2>1 DEF Ends
<1> QED BY <1>2, <1>3

\* The end of the server process keeps Ends.
LEMMA EndsStop ==
  ASSUME NetType, Ends, NEW how, ServerStops(how)
  PROVE  Ends'
<1>1. /\ UNCHANGED copen
      /\ sopen' = [k \in Conns |-> FALSE]
      /\ up' = [k \in Conns |-> <<>>]
      /\ \A k \in Conns : ~copen[k] => reset'[k] = {} /\ dn'[k] = dn[k]
      /\ \A k \in Conns : copen[k] => reset'[k] \in {reset[k] \cup {"client"}, reset[k]}
  BY DEF ServerStops
<1> QED BY <1>1, EmptyIs DEF Ends

\* Ends is kept by every step.
LEMMA EndsStep ==
  ASSUME TypeOK, HoldsSocket, Sockets, Threads, Ends, [Next]_vars
  PROVE  Ends'
<1>a. NetType
  BY DEF TypeOK, NetType
<1>b. \A c \in Clients : cpc[c] \in Connected => csock[c] \in Conns /\ copen[csock[c]]
  BY DEF TypeOK, HoldsSocket, Sockets
<1>1. CASE UNCHANGED <<up, dn, copen, sopen, reset>>
  BY <1>1 DEF Ends
<1>2. ASSUME NEW c \in Clients, Connect(c) PROVE Ends'
  <2>1. PICK k \in Conns :
          /\ ~copen[k] /\ ~sopen[k]
          /\ copen' = [copen EXCEPT ![k] = TRUE]
          /\ sopen' = [sopen EXCEPT ![k] = TRUE]
          /\ UNCHANGED <<up, dn, reset>>
    BY <1>2 DEF Connect
  <2>2. \A j \in Conns : /\ copen'[j] = IF j = k THEN TRUE ELSE copen[j]
                         /\ sopen'[j] = IF j = k THEN TRUE ELSE sopen[j]
    BY <2>1 DEF TypeOK
  <2>3. reset[k] = {}
    BY <2>1 DEF Ends
  <2> QED BY <2>1, <2>2, <2>3 DEF Ends
<1>3. ASSUME NEW c \in Clients, Closes(c), csock[c] # NoConn PROVE Ends'
  BY <1>3, <1>a, ClosesFrame, EndsCloseClient DEF TypeOK
<1>4. ASSUME NEW c \in Clients, Closes(c), csock[c] = NoConn
      PROVE  UNCHANGED netVars
  BY <1>4, Messages DEF Closes, ClientClose, ClientAssertFails, ClientSigpipe,
     Crash, ClientDies, HoldsSocket, Connected, TypeOK, netVars
<1>5. ASSUME NEW c \in Clients, SendRequest(c) \/ SendBlockAck(c) \/ SendCompleteAck(c)
      PROVE  Ends'
  <2>1. cpc[c] \in Connected /\ \E m : WriteUp(csock[c], m)
    BY <1>5 DEF SendRequest, SendBlockAck, SendCompleteAck, ClientSend, Connected
  <2> QED BY <2>1, <1>a, <1>b, EndsWriteUp
<1>6. ASSUME NEW c \in Clients, ReadReqAck(c) \/ ReadBlock(c) \/ ReadComplete(c)
      PROVE  Ends'
  <2>1. /\ cpc[c] \in Connected /\ dn' = [dn EXCEPT ![csock[c]] = Rest(@)]
        /\ UNCHANGED <<up, copen, sopen, reset>>
    BY <1>6 DEF ReadReqAck, ReadBlock, ReadComplete, ClientRead, Connected
  <2> QED BY <2>1, <1>a, <1>b, EndsRead
<1>7. ASSUME NEW c \in Clients, ConnectFails(c) \/ LoopTest(c) \/ Restart(c)
      PROVE  UNCHANGED netVars
  BY <1>7 DEF ConnectFails, LoopTest, Restart
<1>8. ASSUME NEW how, ServerStops(how) PROVE Ends'
  BY <1>8, <1>a, EndsStop
<1>9. EnterAccept \/ Accept => UNCHANGED <<up, dn, copen, sopen, reset>>
  BY DEF EnterAccept, Accept, netVars
<1>10. ASSUME NEW k \in Conns, ReadRequest(k) \/ ReadBlockAck(k) PROVE Ends'
  <2>1. up' = [up EXCEPT ![k] = Rest(@)] /\ UNCHANGED <<dn, copen, sopen, reset>>
    BY <1>10 DEF ReadRequest, ReadBlockAck
  <2> QED BY <2>1, <1>a, EndsRead
<1>11. ASSUME NEW k \in Conns, SendReqAck(k) \/ SendBlock(k) \/ SendComplete(k)
       PROVE  Ends'
  <2>1. sopen[k] /\ \E m : WriteDn(k, m)
    BY <1>11 DEF SendReqAck, SendBlock, SendComplete, ServerSend, Threads
  <2> QED BY <2>1, <1>a, EndsWriteDn
<1>12. ASSUME NEW k \in Conns, CloseConn(k) PROVE Ends'
  BY <1>12, <1>a, EndsCloseServer DEF CloseConn
<1>13. ASSUME NEW k \in Conns, OpenFile(k) PROVE UNCHANGED netVars
  BY <1>13 DEF OpenFile
<1>14. AllQuiet \/ UNCHANGED vars => UNCHANGED netVars
  BY DEF AllQuiet, vars
<1>15. UNCHANGED netVars => Ends'
  BY <1>1 DEF netVars
<1> QED
  BY <1>1, <1>2, <1>3, <1>4, <1>5, <1>6, <1>7, <1>8, <1>9, <1>10, <1>11, <1>12,
     <1>13, <1>14, <1>15
  DEF Next, ClientStep, Closes, MainStep, AcceptFails, ThreadStep,
      ServerAssertFails, ServerSigpipe
-----------------------------------------------------------------------------
(***************************************************************************)
(* A client and its thread stay in step.                                   *)
(***************************************************************************)
\* The part of the invariant that says how sockets and queues are kept.
Plumbing == TypeOK /\ HoldsSocket /\ Sockets /\ Threads /\ Ends

\* Nothing of connection k changes but, perhaps, at the connection itself.
Others(k) ==
  \A j \in Conns \ {k} :
    /\ tpc'[j] = tpc[j] /\ sopen'[j] = sopen[j] /\ served'[j] = served[j]
    /\ up'[j] = up[j] /\ dn'[j] = dn[j] /\ reset'[j] = reset[j]

\* A step that concerns one connection has to be looked at there only.
LEMMA LockstepLocal ==
  ASSUME Lockstep, NEW k \in Conns, Others(k), server' = "up" => server = "up",
         \A d \in Clients : \A j \in Conns \ {k} :
           csock'[d] = j => /\ csock[d] = j
                            /\ cpc'[d] = cpc[d] /\ got'[d] = got[d],
         server' = "up" => \A d \in Clients : csock'[d] = k => Pair(d, k)'
  PROVE  Lockstep'
<1> SUFFICES ASSUME server' = "up", NEW d \in Clients, NEW j \in Conns, csock'[d] = j
             PROVE  Pair(d, j)'
  BY DEF Lockstep
<1>1. CASE j = k
  BY <1>1
<1>2. CASE j # k
  <2>1. Pair(d, j) /\ cpc'[d] = cpc[d] /\ got'[d] = got[d]
    BY <1>2 DEF Lockstep
  <2>2. /\ tpc'[j] = tpc[j] /\ sopen'[j] = sopen[j] /\ served'[j] = served[j]
        /\ up'[j] = up[j] /\ dn'[j] = dn[j] /\ reset'[j] = reset[j]
    BY <1>2 DEF Others
  <2> QED BY <2>1, <2>2 DEF Pair
<1> QED BY <1>1, <1>2

\* The same for a step of a client that keeps its socket, or of a thread.
LEMMA LockstepClient ==
  ASSUME Plumbing, Lockstep, NEW c \in Clients, cpc[c] \in Connected,
         Others(csock[c]), UNCHANGED <<csock, server>>,
         \A d \in Clients \ {c} : cpc'[d] = cpc[d] /\ got'[d] = got[d],
         server = "up" /\ Pair(c, csock[c]) => Pair(c, csock[c])'
  PROVE  Lockstep'
<1>1. csock[c] \in Conns
  BY DEF Plumbing, TypeOK, HoldsSocket
<1>2. \A d \in Clients : csock[d] = csock[c] => d = c
  BY <1>1, TransferAssumption DEF Plumbing, Sockets
<1>3. server = "up" => Pair(c, csock[c])
  BY <1>1 DEF Lockstep
<1> QED BY <1>1, <1>2, <1>3, LockstepLocal

\* A step of the thread of k keeps Lockstep if it keeps the pair of k in step.
LEMMA LockstepThread ==
  ASSUME Plumbing, Lockstep, NEW k \in Conns, Others(k), UNCHANGED <<clientVars, server>>,
         \A c \in Clients : server = "up" /\ csock[c] = k /\ copen[k] /\ Pair(c, k) => Pair(c, k)'
  PROVE  Lockstep'
<1>1. \A c \in Clients : csock[c] = k => copen[k]
  BY TransferAssumption DEF Plumbing, Sockets
<1>2. server = "up" => \A c \in Clients : csock[c] = k => Pair(c, k)
  BY DEF Lockstep
<1> QED BY <1>1, <1>2, LockstepLocal DEF clientVars

\* A new connection starts in step with nobody at its other end yet.
LEMMA LockstepConnect ==
  ASSUME Plumbing, Lockstep, NEW c \in Clients, Connect(c)
  PROVE  Lockstep'
<1>1. PICK k \in Conns :
        /\ ~copen[k] /\ ~sopen[k]
        /\ csock' = [csock EXCEPT ![c] = k]
        /\ sopen' = [sopen EXCEPT ![k] = TRUE]
        /\ UNCHANGED <<up, dn, reset, tpc, served, server>>
  BY DEF Connect, threadVars, serverVars
<1>2. /\ Is0(up[k]) /\ Is0(dn[k]) /\ reset[k] = {} /\ tpc[k] = "none"
  BY <1>1 DEF Plumbing, Ends, Threads
<1>3. /\ sopen'[k] /\ cpc'[c] = "request" /\ got'[c] = 0 /\ csock'[c] = k
      /\ \A j \in Conns \ {k} : sopen'[j] = sopen[j]
      /\ \A d \in Clients \ {c} : csock'[d] = csock[d] /\ cpc'[d] = cpc[d] /\ got'[d] = got[d]
  BY <1>1 DEF Plumbing, TypeOK, Connect
<1>4. \A d \in Clients : csock[d] # k
  BY <1>1, TransferAssumption DEF Plumbing, Sockets
<1>5. Pair(c, k)'
  BY <1>1, <1>2, <1>3 DEF Pair, InStep
<1>6. Others(k)
  BY <1>1, <1>3 DEF Others
<1>7. ASSUME NEW d \in Clients, NEW j \in Conns \ {k}, csock'[d] = j
      PROVE  csock[d] = j /\ cpc'[d] = cpc[d] /\ got'[d] = got[d]
  BY <1>3, <1>7
<1>8. ASSUME NEW d \in Clients, csock'[d] = k PROVE Pair(d, k)'
  BY <1>3, <1>4, <1>5, <1>8
<1> QED
  BY <1>1, <1>6, <1>7, <1>8, LockstepLocal

\* What a send and a read of a client change.
LEMMA ClientSendStep ==
  ASSUME TypeOK, HoldsSocket, NEW c \in Clients, NEW from \in Connected, NEW to,
         from \in DOMAIN ClientSends, ClientSend(c, from, to)
  PROVE  LET k == csock[c] IN
         /\ k \in Conns /\ cpc[c] = from /\ cpc'[c] = to /\ Others(k)
         /\ \A d \in Clients \ {c} : cpc'[d] = cpc[d]
         /\ UNCHANGED <<csock, got, server, dn, tpc, sopen, served>>
         /\ sopen[k] => up'[k] = Append(up[k], ClientSends[from]) /\ reset'[k] = reset[k]
         /\ ~sopen[k] => up'[k] = up[k]
<1>1. csock[c] \in Conns
  BY DEF TypeOK, HoldsSocket, ClientSend
<1>2. /\ cpc[c] = from /\ cpc'[c] = to
      /\ \A d \in Clients \ {c} : cpc'[d] = cpc[d]
      /\ UNCHANGED <<csock, got, server, dn, tpc, sopen, served>>
  BY DEF ClientSend, WriteUp, TypeOK, threadVars, serverVars
<1>3. \A j \in Conns \ {csock[c]} : up'[j] = up[j] /\ reset'[j] = reset[j]
  BY <1>1 DEF ClientSend, WriteUp, TypeOK
<1>4. /\ sopen[csock[c]] => /\ up'[csock[c]] = Append(up[csock[c]], ClientSends[from])
                            /\ reset'[csock[c]] = reset[csock[c]]
      /\ ~sopen[csock[c]] => up'[csock[c]] = up[csock[c]]
  BY <1>1 DEF ClientSend, WriteUp, TypeOK
<1> QED BY <1>1, <1>2, <1>3, <1>4 DEF Others

\* What a read of the client leaves of its connection.
LEMMA ClientReadStep ==
  ASSUME TypeOK, HoldsSocket, NEW c \in Clients, NEW from \in Connected, NEW type, NEW to,
         ClientRead(c, from, type, to)
  PROVE  LET k == csock[c] IN
         /\ k \in Conns /\ cpc[c] = from /\ cpc'[c] = to /\ Others(k)
         /\ \A d \in Clients \ {c} : cpc'[d] = cpc[d]
         /\ UNCHANGED <<csock, server, up, tpc, sopen, served, reset>>
         /\ dn'[k] = Rest(dn[k])
         /\ sopen[k] => dn[k] # <<>>
         /\ dn[k] # <<>> => Head(dn[k]).type = type
<1>1. csock[c] \in Conns
  BY DEF TypeOK, HoldsSocket, ClientRead
<1>2. /\ cpc[c] = from /\ cpc'[c] = to
      /\ \A d \in Clients \ {c} : cpc'[d] = cpc[d]
      /\ UNCHANGED <<csock, server, up, tpc, sopen, served, reset>>
  BY DEF ClientRead, TypeOK, threadVars, serverVars
<1>3. /\ dn'[csock[c]] = Rest(dn[csock[c]])
      /\ \A j \in Conns \ {csock[c]} : dn'[j] = dn[j]
  BY <1>1 DEF ClientRead, TypeOK
<1>4. /\ sopen[csock[c]] => dn[csock[c]] # <<>>
      /\ dn[csock[c]] # <<>> => Head(dn[csock[c]]).type = type
  BY DEF ClientRead, CanRead, Filled
<1> QED BY <1>1, <1>2, <1>3, <1>4 DEF Others

\* The three sends of the client keep it in step with its thread.
LEMMA LockstepSends ==
  ASSUME Plumbing, Lockstep, NEW c \in Clients,
         SendRequest(c) \/ SendBlockAck(c) \/ SendCompleteAck(c)
  PROVE  Lockstep'
<1> DEFINE k == csock[c]
<1>a. TypeOK /\ HoldsSocket
  BY DEF Plumbing
<1>b. ASSUME k \in Conns
      PROVE  /\ up[k] \in Seq(ProtoMsg) /\ got[c] \in Nat
  BY <1>a, <1>b DEF TypeOK
<1>c. ReqFile \in ProtoMsg /\ BlockAck \in ProtoMsg /\ CompleteAck \in ProtoMsg
  BY Messages DEF ReqFile, BlockAck, CompleteAck
<1>1. CASE SendRequest(c)
  <2>1. ClientSend(c, "request", "waitAck")
    BY <1>1 DEF SendRequest
  <2>2. ASSUME Pair(c, k) PROVE Pair(c, k)'
    <3>1. /\ k \in Conns /\ cpc[c] = "request" /\ cpc'[c] = "waitAck"
          /\ UNCHANGED <<got, dn, tpc, sopen, served, csock>>
          /\ sopen[k] => up'[k] = Append(up[k], ReqFile) /\ reset'[k] = reset[k]
          /\ ~sopen[k] => up'[k] = up[k]
      BY <2>1, <1>a, ClientSendStep, Messages DEF Connected, ReqFile
    <3>2. Is0(up[k]) => Is1(Append(up[k], ReqFile), ReqFile)
      BY <3>1, <1>b, <1>c, AppendIs
    <3> QED BY <2>2, <3>1, <3>2 DEF Pair, InStep
  <2> QED BY <2>1, <2>2, <1>a, ClientSendStep, LockstepClient, Messages DEF Connected
<1>2. CASE SendBlockAck(c)
  <2>1. ClientSend(c, "ackBlock", "waitBlock")
    BY <1>2 DEF SendBlockAck
  <2>2. ASSUME Pair(c, k) PROVE Pair(c, k)'
    <3>1. /\ k \in Conns /\ cpc[c] = "ackBlock" /\ cpc'[c] = "waitBlock"
          /\ UNCHANGED <<got, dn, tpc, sopen, served, csock>>
          /\ sopen[k] => up'[k] = Append(up[k], BlockAck) /\ reset'[k] = reset[k]
          /\ ~sopen[k] => up'[k] = up[k]
      BY <2>1, <1>a, ClientSendStep, Messages DEF Connected, BlockAck
    <3>2. Is0(up[k]) => Is1(Append(up[k], BlockAck), BlockAck)
      BY <3>1, <1>b, <1>c, AppendIs
    <3> QED BY <2>2, <3>1, <3>2 DEF Pair, InStep
  <2> QED BY <2>1, <2>2, <1>a, ClientSendStep, LockstepClient, Messages DEF Connected
<1>3. CASE SendCompleteAck(c)
  <2>1. ClientSend(c, "ackComplete", "close")
    BY <1>3 DEF SendCompleteAck
  <2>2. ASSUME Pair(c, k) PROVE Pair(c, k)'
    <3>1. /\ k \in Conns /\ cpc[c] = "ackComplete" /\ cpc'[c] = "close"
          /\ UNCHANGED <<got, dn, tpc, sopen, served, csock>>
          /\ sopen[k] => up'[k] = Append(up[k], CompleteAck) /\ reset'[k] = reset[k]
          /\ ~sopen[k] => up'[k] = up[k]
      BY <2>1, <1>a, ClientSendStep, Messages DEF Connected, CompleteAck
    <3>2. Is0(up[k]) => Is1(Append(up[k], CompleteAck), CompleteAck)
      BY <3>1, <1>b, <1>c, AppendIs
    <3> QED BY <2>2, <3>1, <3>2 DEF Pair, InStep
  <2> QED BY <2>1, <2>2, <1>a, ClientSendStep, LockstepClient, Messages DEF Connected
<1> QED BY <1>1, <1>2, <1>3

\* A queue that is not empty begins with a message of the type.
Brings(d, type) == d # <<>> => Head(d).type = type

\* What the client reads next is what the thread has sent first: after the
\* read both are in step again.
LEMMA ReadInStep ==
  ASSUME NEW tp, NEW so \in BOOLEAN, NEW u, NEW d \in Seq(ProtoMsg),
         NEW g \in Nat, NEW s, so => d # <<>>
  PROVE  /\ InStep("waitAck", tp, so, u, d, g, s) /\ Brings(d, "REQ_ACK")
              => InStep("waitBlock", tp, so, u, Rest(d), g, s)
         /\ InStep("waitBlock", tp, so, u, d, g, s) /\ Brings(d, "FILE_BLOCK")
              => InStep("ackBlock", tp, so, u, Rest(d), g + 1, s)
         /\ InStep("waitBlock", tp, so, u, d, g, s)
              /\ Brings(d, "FILE_COMPLETE")
              => InStep("ackComplete", tp, so, u, Rest(d), g, s)
<1> DEFINE r == Rest(d)
<1>1. /\ Is0(d) => ~so
      /\ \A m : Is1(d, m) => d # <<>> /\ Head(d) = m /\ Is0(r)
      /\ \A m, n : Is2(d, m, n) => d # <<>> /\ Head(d) = m /\ Is1(r, n)
  BY RestIs
<1> HIDE DEF r
<1>2. ASSUME InStep("waitAck", tp, so, u, d, g, s)
      PROVE  InStep("waitBlock", tp, so, u, r, g, s)
  <2>1. /\ Is0(u) /\ g = 0
        /\ \/ Is1(d, ReqAck) /\ so /\ tp \in {"open", "complete"}
           \/ Is1(d, ReqAck) /\ so /\ tp = "file" /\ s = 0
           \/ /\ Is2(d, ReqAck, Block) /\ so /\ tp = "readBlockAck"
              /\ s = 1 /\ 1 <= FileBlocks
           \/ Is2(d, ReqAck, Complete) /\ (so => tp = "close")
    BY <1>1, <1>2 DEF InStep
  <2>2. 0 <= FileBlocks
    BY TransferAssumption
  <2> QED BY <1>1, <2>1, <2>2 DEF InStep
<1>3. ASSUME InStep("waitBlock", tp, so, u, d, g, s)
      PROVE  \/ /\ Is0(u) /\ Is1(d, Block) /\ so /\ tp = "readBlockAck"
                /\ s = g + 1 /\ s <= FileBlocks
             \/ /\ Is0(u) /\ Is1(d, Complete) /\ (so => tp = "close")
                /\ g \in {0, FileBlocks}
  BY <1>1, <1>3 DEF InStep
<1>4. ASSUME InStep("waitBlock", tp, so, u, d, g, s),
             Brings(d, "FILE_BLOCK")
      PROVE  InStep("ackBlock", tp, so, u, r, g + 1, s)
  <2>1. ~ Is1(d, Complete)
    BY <1>1, <1>4, Messages DEF Brings
  <2>2. /\ Is0(u) /\ Is1(d, Block) /\ so /\ tp = "readBlockAck"
        /\ s = g + 1 /\ s <= FileBlocks
    BY <1>3, <1>4, <2>1
  <2>3. Is0(r)
    BY <1>1, <2>2
  <2> QED BY <2>2, <2>3 DEF InStep
<1>5. ASSUME InStep("waitBlock", tp, so, u, d, g, s),
             Brings(d, "FILE_COMPLETE")
      PROVE  InStep("ackComplete", tp, so, u, r, g, s)
  <2>1. ~ Is1(d, Block)
    BY <1>1, <1>5, Messages DEF Brings
  <2>2. /\ Is0(u) /\ Is1(d, Complete) /\ (so => tp = "close")
        /\ g \in {0, FileBlocks}
    BY <1>3, <1>5, <2>1
  <2>3. Is0(r)
    BY <1>1, <2>2
  <2> QED BY <2>2, <2>3 DEF InStep
<1> QED BY <1>2, <1>4, <1>5 DEF r

\* The three reads of the client keep it in step with its thread.
LEMMA LockstepReads ==
  ASSUME Plumbing, Lockstep, NEW c \in Clients,
         ReadReqAck(c) \/ ReadBlock(c) \/ ReadComplete(c)
  PROVE  Lockstep'
<1> DEFINE k == csock[c]
<1>a. TypeOK /\ HoldsSocket
  BY DEF Plumbing
<1>b. ASSUME k \in Conns PROVE dn[k] \in Seq(ProtoMsg) /\ got[c] \in Nat
  BY <1>a, <1>b DEF TypeOK
<1>1. CASE ReadReqAck(c)
  <2>1. ClientRead(c, "waitAck", "REQ_ACK", "waitBlock") /\ UNCHANGED got
    BY <1>1 DEF ReadReqAck
  <2>2. ASSUME Pair(c, k) PROVE Pair(c, k)'
    <3>1. /\ k \in Conns /\ cpc[c] = "waitAck" /\ cpc'[c] = "waitBlock"
          /\ UNCHANGED <<csock, up, tpc, sopen, served, reset>>
          /\ dn'[k] = Rest(dn[k]) /\ (sopen[k] => dn[k] # <<>>)
          /\ Brings(dn[k], "REQ_ACK")
      BY <2>1, <1>a, ClientReadStep DEF Connected, Brings
    <3>2. got'[c] = got[c] /\ dn[k] \in Seq(ProtoMsg)
          /\ got[c] \in Nat /\ sopen[k] \in BOOLEAN
      BY <2>1, <3>1, <1>a, <1>b DEF TypeOK
    <3>3. /\ InStep(cpc[c], tpc[k], sopen[k], up[k], dn[k], got[c], served[k])
          /\ "client" \notin reset[k]
      BY <2>2, <3>1 DEF Pair
    <3>4. InStep(cpc'[c], tpc[k], sopen[k], up[k], Rest(dn[k]), got'[c],
                 served[k])
      BY <3>1, <3>2, <3>3, ReadInStep
    <3> QED BY <3>1, <3>3, <3>4 DEF Pair
  <2> QED BY <2>1, <2>2, <1>a, ClientReadStep, LockstepClient DEF Connected
<1>2. CASE ReadBlock(c)
  <2>1. ClientRead(c, "waitBlock", "FILE_BLOCK", "ackBlock")
    BY <1>2 DEF ReadBlock
  <2>2. got'[c] = got[c] + 1 /\ \A d \in Clients \ {c} : got'[d] = got[d]
    BY <1>2, <1>a DEF ReadBlock, TypeOK
  <2>3. ASSUME Pair(c, k) PROVE Pair(c, k)'
    <3>1. /\ k \in Conns /\ cpc[c] = "waitBlock" /\ cpc'[c] = "ackBlock"
          /\ UNCHANGED <<csock, up, tpc, sopen, served, reset>>
          /\ dn'[k] = Rest(dn[k]) /\ (sopen[k] => dn[k] # <<>>)
          /\ Brings(dn[k], "FILE_BLOCK")
      BY <2>1, <1>a, ClientReadStep DEF Connected, Brings
    <3>2. got'[c] = got[c] + 1 /\ dn[k] \in Seq(ProtoMsg)
          /\ got[c] \in Nat /\ sopen[k] \in BOOLEAN
      BY <2>2, <3>1, <1>a, <1>b DEF TypeOK
    <3>3. /\ InStep(cpc[c], tpc[k], sopen[k], up[k], dn[k], got[c], served[k])
          /\ "client" \notin reset[k]
      BY <2>3, <3>1 DEF Pair
    <3>4. InStep(cpc'[c], tpc[k], sopen[k], up[k], Rest(dn[k]), got'[c],
                 served[k])
      BY <3>1, <3>2, <3>3, ReadInStep
    <3> QED BY <3>1, <3>3, <3>4 DEF Pair
  <2> QED BY <2>1, <2>2, <2>3, <1>a, ClientReadStep, LockstepClient DEF Connected
<1>3. CASE ReadComplete(c)
  <2>1. ClientRead(c, "waitBlock", "FILE_COMPLETE", "ackComplete") /\ UNCHANGED got
    BY <1>3 DEF ReadComplete
  <2>2. ASSUME Pair(c, k) PROVE Pair(c, k)'
    <3>1. /\ k \in Conns /\ cpc[c] = "waitBlock" /\ cpc'[c] = "ackComplete"
          /\ UNCHANGED <<csock, up, tpc, sopen, served, reset>>
          /\ dn'[k] = Rest(dn[k]) /\ (sopen[k] => dn[k] # <<>>)
          /\ Brings(dn[k], "FILE_COMPLETE")
      BY <2>1, <1>a, ClientReadStep DEF Connected, Brings
    <3>2. got'[c] = got[c] /\ dn[k] \in Seq(ProtoMsg)
          /\ got[c] \in Nat /\ sopen[k] \in BOOLEAN
      BY <2>1, <3>1, <1>a, <1>b DEF TypeOK
    <3>3. /\ InStep(cpc[c], tpc[k], sopen[k], up[k], dn[k], got[c], served[k])
          /\ "client" \notin reset[k]
      BY <2>2, <3>1 DEF Pair
    <3>4. InStep(cpc'[c], tpc[k], sopen[k], up[k], Rest(dn[k]), got'[c],
                 served[k])
      BY <3>1, <3>2, <3>3, ReadInStep
    <3> QED BY <3>1, <3>3, <3>4 DEF Pair
  <2> QED BY <2>1, <2>2, <1>a, ClientReadStep, LockstepClient DEF Connected
<1> QED BY <1>1, <1>2, <1>3

\* What an action of a thread changes.
LEMMA ThreadReadStep ==
  ASSUME TypeOK, NEW k \in Conns, ReadRequest(k) \/ ReadBlockAck(k)
  PROVE  /\ Others(k) /\ UNCHANGED <<clientVars, server, dn, sopen, served, reset>>
         /\ up'[k] = Rest(up[k])
         /\ copen[k] => up[k] # <<>>
         /\ ReadRequest(k) => tpc[k] = "readReq" /\ tpc'[k] = "sendAck"
         /\ ReadBlockAck(k) => tpc[k] = "readBlockAck" /\ tpc'[k] = "file"
<1>1. /\ UNCHANGED <<clientVars, server, dn, sopen, served, reset>>
      /\ up' = [up EXCEPT ![k] = Rest(@)]
      /\ copen[k] => up[k] # <<>>
      /\ \E t : tpc' = [tpc EXCEPT ![k] = t]
  BY DEF ReadRequest, ReadBlockAck, CanRead, serverVars
<1>2. /\ ReadRequest(k) => tpc[k] = "readReq" /\ tpc'[k] = "sendAck"
      /\ ReadBlockAck(k) => tpc[k] = "readBlockAck" /\ tpc'[k] = "file"
  BY DEF ReadRequest, ReadBlockAck, TypeOK
<1> QED BY <1>1, <1>2 DEF Others, TypeOK

\* What a send of the thread leaves of its connection.
LEMMA ServerSendStep ==
  ASSUME TypeOK, NEW k \in Conns, NEW from, NEW m, NEW to, ServerSend(k, from, m, to),
         \A j \in Conns \ {k} : served'[j] = served[j]
  PROVE  /\ Others(k) /\ UNCHANGED <<clientVars, server, up, sopen>>
         /\ tpc[k] = from /\ tpc'[k] = to
         /\ copen[k] => dn'[k] = Append(dn[k], m) /\ reset'[k] = reset[k]
<1>1. /\ UNCHANGED <<clientVars, server, up, sopen>>
      /\ tpc[k] = from /\ tpc'[k] = to
      /\ \A j \in Conns \ {k} : tpc'[j] = tpc[j]
  BY DEF ServerSend, WriteDn, TypeOK, serverVars
<1>2. /\ \A j \in Conns \ {k} : dn'[j] = dn[j] /\ reset'[j] = reset[j]
      /\ copen[k] => dn'[k] = Append(dn[k], m) /\ reset'[k] = reset[k]
  BY DEF ServerSend, WriteDn, TypeOK
<1> QED BY <1>1, <1>2 DEF Others

\* The two reads of the thread keep it in step with its client.
LEMMA LockstepThreadReads ==
  ASSUME Plumbing, Lockstep, NEW k \in Conns, ReadRequest(k) \/ ReadBlockAck(k)
  PROVE  Lockstep'
<1>1. up[k] \in Seq(ProtoMsg) /\ TypeOK
  BY DEF Plumbing, TypeOK
<1>2. ASSUME NEW c \in Clients, copen[k], Pair(c, k) PROVE Pair(c, k)'
  <2>1. up[k] # <<>> /\ up'[k] = Rest(up[k])
    BY <1>1, <1>2, ThreadReadStep
  <2>2. ~Is0(up[k]) /\ \A m : Is1(up[k], m) => Is0(up'[k])
    BY <1>1, <2>1, RestIs
  <2>3. CASE ReadRequest(k)
    <3>1. tpc[k] = "readReq" /\ tpc'[k] = "sendAck" /\ UNCHANGED <<clientVars, dn, sopen, served, reset>>
      BY <1>1, <2>3, ThreadReadStep
    <3> QED BY <1>2, <2>2, <3>1 DEF Pair, InStep, clientVars
  <2>4. CASE ReadBlockAck(k)
    <3>1. tpc[k] = "readBlockAck" /\ tpc'[k] = "file" /\ UNCHANGED <<clientVars, dn, sopen, served, reset>>
      BY <1>1, <2>4, ThreadReadStep
    <3> QED BY <1>2, <2>2, <3>1 DEF Pair, InStep, clientVars
  <2> QED BY <2>3, <2>4
<1> QED BY <1>1, <1>2, ThreadReadStep, LockstepThread

\* The sends of the thread keep it in step with its client.
LEMMA LockstepThreadSends ==
  ASSUME Plumbing, Lockstep, NEW k \in Conns,
         SendReqAck(k) \/ SendBlock(k) \/ SendComplete(k)
  PROVE  Lockstep'
<1>a. dn[k] \in Seq(ProtoMsg) /\ served[k] \in Nat /\ TypeOK /\ FileBlocks \in Nat
  BY TransferAssumption DEF Plumbing, TypeOK
<1>b. /\ ReqAck \in ProtoMsg /\ Block \in ProtoMsg /\ Complete \in ProtoMsg
      /\ \A c \in Clients : got[c] \in Nat
  BY <1>a, Messages DEF ReqAck, Block, Complete, TypeOK
<1>c. sopen[k]
  BY DEF Plumbing, Threads, SendReqAck, SendBlock, SendComplete, ServerSend
<1>1. CASE SendReqAck(k)
  <2>1. ServerSend(k, "sendAck", ReqAck, "open") /\ UNCHANGED served
    BY <1>1 DEF SendReqAck, ReqAck
  <2>2. /\ Others(k) /\ UNCHANGED <<clientVars, server, up, sopen>>
        /\ tpc[k] = "sendAck" /\ tpc'[k] = "open"
        /\ copen[k] => dn'[k] = Append(dn[k], ReqAck) /\ reset'[k] = reset[k]
    BY <1>a, <2>1, ServerSendStep
  <2>3. ASSUME NEW c \in Clients, copen[k], Pair(c, k) PROVE Pair(c, k)'
    <3>1. Is0(dn[k]) => Is1(dn'[k], ReqAck)
      BY <1>a, <1>b, <2>2, <2>3, AppendIs
    <3>2. UNCHANGED <<cpc, got, served, up, sopen>>
      BY <2>1, <2>2 DEF clientVars
    <3> QED BY <1>c, <2>2, <2>3, <3>1, <3>2 DEF Pair, InStep
  <2> QED BY <2>2, <2>3, LockstepThread
<1>2. CASE SendBlock(k)
  <2>1. ServerSend(k, "file", Block, "readBlockAck") /\ served[k] < FileBlocks
    BY <1>2 DEF SendBlock, Block
  <2>2. served'[k] = served[k] + 1 /\ \A j \in Conns \ {k} : served'[j] = served[j]
    BY <1>2, <1>a DEF SendBlock, TypeOK
  <2>3. /\ Others(k) /\ UNCHANGED <<clientVars, server, up, sopen>>
        /\ tpc[k] = "file" /\ tpc'[k] = "readBlockAck"
        /\ copen[k] => dn'[k] = Append(dn[k], Block) /\ reset'[k] = reset[k]
    BY <1>a, <2>1, <2>2, ServerSendStep
  <2>4. ASSUME NEW c \in Clients, copen[k], Pair(c, k) PROVE Pair(c, k)'
    <3>1. /\ Is0(dn[k]) => Is1(dn'[k], Block)
          /\ Is1(dn[k], ReqAck) => Is2(dn'[k], ReqAck, Block)
      BY <1>a, <1>b, <2>3, <2>4, AppendIs
    <3>2. UNCHANGED <<cpc, got, up, sopen>>
      BY <2>3 DEF clientVars
    <3>3. /\ got[c] \in Nat /\ served[k] \in Nat /\ FileBlocks \in Nat
          /\ served[k] < FileBlocks
      BY <1>a, <1>b, <2>1
    <3> QED BY <1>c, <2>2, <2>3, <2>4, <3>1, <3>2, <3>3 DEF Pair, InStep
  <2> QED BY <2>3, <2>4, LockstepThread
<1>3. CASE SendComplete(k)
  <2>1. ServerSend(k, tpc[k], Complete, "close") /\ UNCHANGED served
    BY <1>3 DEF SendComplete, Complete
  <2>a. tpc[k] = "complete" \/ (tpc[k] = "file" /\ served[k] = FileBlocks)
    BY <1>3 DEF SendComplete
  <2>2. /\ Others(k) /\ UNCHANGED <<clientVars, server, up, sopen>>
        /\ tpc'[k] = "close"
        /\ copen[k] => dn'[k] = Append(dn[k], Complete) /\ reset'[k] = reset[k]
    BY <1>a, <2>1, ServerSendStep
  <2>3. ASSUME NEW c \in Clients, copen[k], Pair(c, k) PROVE Pair(c, k)'
    <3>1. /\ Is0(dn[k]) => Is1(dn'[k], Complete)
          /\ Is1(dn[k], ReqAck) => Is2(dn'[k], ReqAck, Complete)
      BY <1>a, <1>b, <2>2, <2>3, AppendIs
    <3>2. UNCHANGED <<cpc, got, served, up, sopen>>
      BY <2>1, <2>2 DEF clientVars
    <3> QED BY <1>c, <2>2, <2>3, <2>a, <3>1, <3>2 DEF Pair, InStep
  <2> QED BY <2>2, <2>3, LockstepThread
<1> QED BY <1>1, <1>2, <1>3

\* Lockstep is kept by every step of every process.
LEMMA LockstepStep ==
  ASSUME Plumbing, Lockstep, [Next]_vars
  PROVE  Lockstep'
<1>a. TypeOK /\ HoldsSocket /\ Sockets
  BY DEF Plumbing
<1>1. CASE UNCHANGED <<cpc, csock, got, server, tpc, served, up, dn, sopen, reset>>
  BY <1>1 DEF Lockstep, Pair
<1>2. CASE server' # "up"
  BY <1>2 DEF Lockstep
<1>3. ASSUME NEW c \in Clients, Closes(c), csock[c] # NoConn PROVE Lockstep'
  <2> DEFINE k == csock[c]
  <2>1. k \in Conns /\ NoConn \notin Conns
    BY <1>3, <1>a, TransferAssumption DEF TypeOK
  <2>2. (\E q : CloseClientEnd(k, q)) /\ csock' = [csock EXCEPT ![c] = NoConn]
    BY <1>3, <1>a, ClosesFrame
  <2>3. UNCHANGED <<tpc, served, server, got>>
    BY <1>3, <1>a, ClientFrame DEF Closes, ClientStep, ClientClose, ClientAssertFails,
       ClientSigpipe, Crash, ClientDies
  <2>4. \A d \in Clients \ {c} : cpc'[d] = cpc[d]
    BY <1>3, <1>a DEF Closes, ClientClose, ClientAssertFails, ClientSigpipe, Crash,
       ClientDies, TypeOK
  <2>5. \A d \in Clients : csock'[d] = IF d = c THEN NoConn ELSE csock[d]
    BY <2>2, <1>a DEF TypeOK
  <2>6. \A j \in Conns \ {k} : /\ up'[j] = up[j] /\ dn'[j] = dn[j]
                               /\ sopen'[j] = sopen[j] /\ reset'[j] = reset[j]
    BY <2>1, <2>2, <1>a DEF CloseClientEnd, TypeOK
  <2>7. Others(k)
    BY <2>3, <2>6 DEF Others
  <2>8. \A d \in Clients : csock'[d] # k
    BY <1>3, <2>1, <2>5, <1>a DEF Sockets
  <2>9. ASSUME NEW d \in Clients, NEW j \in Conns \ {k}, csock'[d] = j
        PROVE  csock[d] = j /\ cpc'[d] = cpc[d] /\ got'[d] = got[d]
    BY <2>1, <2>3, <2>4, <2>5, <2>9
  <2> HIDE DEF k
  <2> QED BY <2>1, <2>3, <2>7, <2>8, <2>9, LockstepLocal
<1>4. ASSUME NEW c \in Clients,
             \/ Closes(c) /\ csock[c] = NoConn
             \/ ConnectFails(c) \/ LoopTest(c) \/ Restart(c)
      PROVE  Lockstep'
  <2>1. /\ UNCHANGED <<csock, got, server, tpc, served, up, dn, sopen, reset>>
        /\ \A d \in Clients \ {c} : cpc'[d] = cpc[d]
        /\ csock[c] = NoConn
    BY SMTT(30),
       <1>4, <1>a, Messages DEF Closes, ClientClose, ClientAssertFails,
       ClientSigpipe, Crash, ClientDies, ConnectFails, LoopTest, Restart,
       HoldsSocket, Connected, Dead, TypeOK, netVars, serverVars, threadVars
  <2>2. ASSUME NEW d \in Clients, NEW k \in Conns, csock[d] = k, Pair(d, k)
        PROVE  Pair(d, k)'
    BY <2>1, <2>2, TransferAssumption DEF Pair
  <2> QED BY <2>1, <2>2 DEF Lockstep
<1>5. CASE EnterAccept
  BY <1>1, <1>5 DEF EnterAccept, clientVars, threadVars, netVars
<1>6. CASE Accept
  <2>a. PICK k : k = Head(backlog)
    OBVIOUS
  <2>1. k \in Conns /\ tpc[k] = "none" /\ sopen[k]
    BY <1>6, <2>a DEF Accept, Plumbing, TypeOK, Threads
  <2>2. /\ UNCHANGED <<clientVars, server, served, up, dn, sopen, reset>>
        /\ tpc' = [tpc EXCEPT ![k] = "readReq"]
    BY <1>6, <2>a DEF Accept
  <2>3. tpc'[k] = "readReq" /\ \A j \in Conns \ {k} : tpc'[j] = tpc[j]
    BY <2>1, <2>2, <1>a DEF TypeOK
  <2>4. ASSUME NEW c \in Clients, Pair(c, k) PROVE Pair(c, k)'
    <3>1. UNCHANGED <<cpc, got, served, up, dn, sopen, reset>>
      BY <2>2 DEF clientVars
    <3> QED BY <2>1, <2>3, <2>4, <3>1 DEF Pair, InStep
  <2>5. Others(k)
    BY <2>2, <2>3 DEF Others
  <2>6. UNCHANGED <<clientVars, server>>
    BY <2>2
  <2> QED BY <2>1, <2>4, <2>5, <2>6, LockstepThread
<1>7. ASSUME NEW k \in Conns, OpenFile(k) PROVE Lockstep'
  <2>1. /\ UNCHANGED <<clientVars, server, up, dn, sopen, reset>>
        /\ tpc[k] = "open" /\ tpc'[k] \in {"file", "complete"}
        /\ served'[k] = 0
        /\ \A j \in Conns \ {k} : tpc'[j] = tpc[j] /\ served'[j] = served[j]
    BY <1>7, <1>a DEF OpenFile, TypeOK, netVars
  <2>2. ASSUME NEW c \in Clients, Pair(c, k) PROVE Pair(c, k)'
    BY <2>1, <2>2, TransferAssumption DEF Pair, InStep, clientVars
  <2>3. Others(k)
    BY <2>1 DEF Others
  <2> QED BY <2>1, <2>2, <2>3, LockstepThread
<1>8. ASSUME NEW k \in Conns, CloseConn(k) PROVE Lockstep'
  <2>1. /\ UNCHANGED <<clientVars, server, served, dn>>
        /\ tpc[k] = "close" /\ ~sopen'[k] /\ up'[k] = <<>>
        /\ \A j \in Conns \ {k} : /\ tpc'[j] = tpc[j] /\ sopen'[j] = sopen[j]
                                  /\ up'[j] = up[j] /\ reset'[j] = reset[j]
    BY <1>8, <1>a DEF CloseConn, CloseServerEnd, TypeOK, serverVars
  <2>2. copen[k] /\ up[k] = <<>> => reset'[k] = reset[k]
    BY <1>8, <1>a DEF CloseConn, CloseServerEnd, TypeOK
  <2>3. Is0(up[k]) <=> up[k] = <<>>
    BY <1>a, RestIs DEF TypeOK
  <2>4. ASSUME NEW c \in Clients, copen[k], Pair(c, k) PROVE Pair(c, k)'
    BY <2>1, <2>2, <2>3, <2>4, EmptyIs DEF Pair, InStep, clientVars
  <2>5. Others(k)
    BY <2>1 DEF Others
  <2> QED BY <2>1, <2>4, <2>5, LockstepThread
<1>9. ASSUME NEW how \in {"exited", "aborted", "killed"}, ServerStops(how)
      PROVE  Lockstep'
  BY <1>2, <1>9 DEF ServerStops
<1>10. AllQuiet \/ UNCHANGED vars => Lockstep'
  BY <1>1 DEF AllQuiet, vars, clientVars, threadVars, serverVars, netVars
<1> QED
  BY <1>3, <1>4, <1>5, <1>6, <1>7, <1>8, <1>9, <1>10, LockstepConnect,
     LockstepSends, LockstepReads, LockstepThreadReads, LockstepThreadSends
  DEF Next, ClientStep, Closes, MainStep, AcceptFails, ThreadStep,
      ServerAssertFails, ServerSigpipe
-----------------------------------------------------------------------------
(***************************************************************************)
(* Who can bring whom down.                                                *)
(***************************************************************************)
\* A process that has ended stays so, and the history of deaths only grows.
LEMMA Monotone ==
  ASSUME [Next]_vars
  PROVE  (server' = "up" => server = "up") /\ died \subseteq died'
<1>1. ASSUME NEW how \in {"exited", "aborted", "killed"}, ServerStops(how)
      PROVE  server' # "up" /\ UNCHANGED clientVars
  BY <1>1 DEF ServerStops
<1>2. ASSUME NEW c \in Clients, ClientStep(c) \/ Crash(c) \/ Restart(c)
      PROVE  UNCHANGED server /\ died \subseteq died'
  BY <1>2, ClientFrame DEF ClientStep, Connect, ConnectFails, SendRequest,
     SendBlockAck, SendCompleteAck, ClientSend, ReadReqAck, ReadBlock,
     ReadComplete, ClientRead, ClientClose, LoopTest, ClientAssertFails,
     ClientSigpipe, Crash, Restart, ClientDies
<1>3. ASSUME NEW k \in Conns,
             \/ ReadRequest(k) \/ SendReqAck(k) \/ OpenFile(k) \/ SendBlock(k)
             \/ ReadBlockAck(k) \/ SendComplete(k) \/ CloseConn(k)
      PROVE  UNCHANGED server
  BY <1>3 DEF ReadRequest, SendReqAck, OpenFile, SendBlock, ReadBlockAck,
     SendComplete, ServerSend, CloseConn, serverVars
<1>4. EnterAccept \/ Accept => UNCHANGED server
  BY DEF EnterAccept, Accept
<1>5. AllQuiet \/ UNCHANGED vars => UNCHANGED <<server, died>>
  BY DEF AllQuiet, vars, clientVars, serverVars
<1>6. MainStep \/ (\E k \in Conns : ThreadStep(k)) => UNCHANGED died
  BY ServerFrame DEF clientVars
<1> QED
  BY <1>1, <1>2, <1>3, <1>4, <1>5, <1>6
  DEF Next, MainStep, AcceptFails, ThreadStep, ServerAssertFails, ServerSigpipe

\* In step with its thread, a client is not reset before it has sent
\* everything, and reads what it expects.
LEMMA ClientSafe ==
  ASSUME Plumbing, Lockstep, server = "up", NEW c \in Clients
  PROVE  ~ClientAssertFails(c) /\ ~ClientSigpipe(c)
<1> SUFFICES ASSUME ClientAssertFails(c) \/ ClientSigpipe(c) PROVE FALSE
  OBVIOUS
<1> DEFINE k == csock[c]
<1>1. cpc[c] \in Connected
  BY Messages DEF ClientAssertFails, ClientSigpipe, Connected
<1>2. k \in Conns /\ dn[k] \in Seq(ProtoMsg) /\ Pair(c, k)
  BY <1>1 DEF Plumbing, TypeOK, HoldsSocket, Lockstep
<1>a. ClientAssertFails(c)
  BY <1>2, Messages DEF ClientSigpipe, Pair
<1>3. /\ cpc[c] \in {"waitAck", "waitBlock"}
      /\ sopen[k] => dn[k] # <<>>
      /\ dn[k] # <<>> => Head(dn[k]).type \notin Expected[cpc[c]]
  BY <1>a DEF ClientAssertFails, CanRead, Filled
<1>4. /\ cpc[c] = "waitAck" => Expected[cpc[c]] = {"REQ_ACK"}
      /\ cpc[c] = "waitBlock" => Expected[cpc[c]] = {"FILE_BLOCK", "FILE_COMPLETE"}
  BY DEF Expected
<1>5. \/ Is0(dn[k]) /\ sopen[k]
      \/ \E m \in {ReqAck, Block, Complete} :
           /\ Is1(dn[k], m) \/ \E n : Is2(dn[k], m, n)
           /\ cpc[c] = "waitAck" => m = ReqAck
           /\ cpc[c] = "waitBlock" => m \in {Block, Complete}
  BY <1>2, <1>3 DEF Pair, InStep
<1> QED BY <1>2, <1>3, <1>4, <1>5, RestIs, Messages

\* Neither does a thread, as long as no client has gone away.
LEMMA ServerSafe ==
  ASSUME Plumbing, Lockstep, NoOrphan, died = {}, NEW k \in Conns
  PROVE  ~ServerAssertFails(k) /\ ~ServerSigpipe(k)
<1> SUFFICES ASSUME ServerAssertFails(k) \/ ServerSigpipe(k) PROVE FALSE
  OBVIOUS
<1>1. tpc[k] \notin {"none", "close"}
  BY Messages DEF ServerAssertFails, ServerSigpipe
<1>2. sopen[k] /\ server = "up" /\ copen[k]
  BY <1>1 DEF Plumbing, Threads, NoOrphan
<1>3. "server" \notin reset[k]
  BY <1>2 DEF Plumbing, Ends
<1>4. PICK c \in Clients : csock[c] = k
  BY <1>2 DEF Plumbing, Sockets
<1>5. Pair(c, k) /\ up[k] \in Seq(ProtoMsg)
  BY <1>2, <1>4 DEF Lockstep, Plumbing, TypeOK
<1>6. ServerAssertFails(k)
  BY <1>3 DEF ServerSigpipe
<1>7. /\ tpc[k] \in {"readReq", "readBlockAck"} /\ up[k] # <<>>
      /\ Head(up[k]).type \notin Expected[tpc[k]]
  BY <1>2, <1>6 DEF ServerAssertFails, CanRead, Filled
<1>8. ~Is0(up[k]) /\ \A m : Is1(up[k], m) => Head(up[k]) = m
  BY <1>5, <1>7, RestIs
<1>9. /\ tpc[k] = "readReq" => Is1(up[k], ReqFile)
      /\ tpc[k] = "readBlockAck" => Is1(up[k], BlockAck)
  BY <1>1, <1>2, <1>5, <1>7, <1>8 DEF Pair, InStep
<1> QED BY <1>7, <1>8, <1>9, Messages DEF Expected

\* NoOrphan is kept by every step: without a death no thread is left with
\* a client that has gone, except one about to close.
LEMMA NoOrphanStep ==
  ASSUME Plumbing, Lockstep, NoOrphan, [Next]_vars
  PROVE  NoOrphan'
<1> SUFFICES ASSUME server' = "up", died' = {}
             PROVE  \A k \in Conns : sopen'[k] /\ ~copen'[k] => tpc'[k] = "close"
  BY DEF NoOrphan
<1>a. TypeOK /\ HoldsSocket
  BY DEF Plumbing
<1>b. \A k \in Conns : sopen[k] /\ ~copen[k] => tpc[k] = "close"
  BY Monotone DEF NoOrphan
<1>c. server = "up"
  BY Monotone
<1>1. CASE UNCHANGED <<sopen, copen, tpc>>
  BY <1>1, <1>b
<1>2. ASSUME NEW c \in Clients, ClientStep(c) \/ Crash(c) \/ Restart(c)
      PROVE  \A k \in Conns : sopen'[k] /\ ~copen'[k] => tpc'[k] = "close"
  <2>1. CASE Connect(c)
    <3>1. PICK k \in Conns : /\ copen' = [copen EXCEPT ![k] = TRUE]
                             /\ sopen' = [sopen EXCEPT ![k] = TRUE]
                             /\ UNCHANGED tpc
      BY <2>1 DEF Connect, threadVars
    <3>2. \A j \in Conns \ {k} : copen'[j] = copen[j] /\ sopen'[j] = sopen[j]
      BY <3>1, <1>a DEF TypeOK
    <3>3. copen'[k]
      BY <3>1, <1>a DEF TypeOK
    <3> QED BY <1>b, <3>1, <3>2, <3>3
  <2>2. CASE ClientClose(c)
    <3>1. csock[c] \in Conns /\ Pair(c, csock[c]) /\ cpc[c] = "close"
      BY <2>2, <1>a, <1>c DEF ClientClose, HoldsSocket, Connected, TypeOK, Lockstep
    <3>2. sopen[csock[c]] => tpc[csock[c]] = "close"
      BY <3>1 DEF Pair, InStep
    <3>3. UNCHANGED <<tpc, sopen>> /\ \A j \in Conns \ {csock[c]} : copen'[j] = copen[j]
      BY <2>2, <1>a DEF ClientClose, CloseClientEnd, threadVars, TypeOK
    <3> QED BY <1>b, <3>2, <3>3
  <2>3. CASE \/ ConnectFails(c) \/ ClientAssertFails(c) \/ ClientSigpipe(c)
             \/ Crash(c)
    BY <2>3, <1>a DEF ConnectFails, ClientAssertFails, ClientSigpipe, Crash,
       ClientDies, TypeOK
  <2>4. CASE \/ SendRequest(c) \/ SendBlockAck(c) \/ SendCompleteAck(c)
             \/ ReadReqAck(c) \/ ReadBlock(c) \/ ReadComplete(c)
             \/ LoopTest(c) \/ Restart(c)
    <3>1. UNCHANGED <<sopen, copen, tpc>>
      BY <2>4 DEF SendRequest, SendBlockAck, SendCompleteAck, ClientSend,
         WriteUp, ReadReqAck, ReadBlock, ReadComplete, ClientRead, LoopTest,
         Restart, threadVars, netVars
    <3> QED BY <1>1, <3>1
  <2> QED BY <1>2, <2>1, <2>2, <2>3, <2>4 DEF ClientStep
<1>3. ASSUME NEW k \in Conns,
             \/ ReadRequest(k) \/ SendReqAck(k) \/ OpenFile(k) \/ SendBlock(k)
             \/ ReadBlockAck(k) \/ SendComplete(k)
      PROVE  \A j \in Conns : sopen'[j] /\ ~copen'[j] => tpc'[j] = "close"
  <2>1. tpc[k] \notin {"none", "close"}
    BY <1>3 DEF ReadRequest, SendReqAck, OpenFile, SendBlock, ReadBlockAck,
       SendComplete, ServerSend
  <2>2. copen[k]
    BY <2>1, <1>b DEF Plumbing, Threads
  <2>3. UNCHANGED <<sopen, copen>> /\ \A j \in Conns \ {k} : tpc'[j] = tpc[j]
    BY <1>3, <1>a DEF ReadRequest, SendReqAck, OpenFile, SendBlock,
       ReadBlockAck, SendComplete, ServerSend, WriteDn, netVars, TypeOK
  <2> QED BY <1>b, <2>2, <2>3
<1>4. ASSUME NEW k \in Conns, CloseConn(k)
      PROVE  \A j \in Conns : sopen'[j] /\ ~copen'[j] => tpc'[j] = "close"
  <2>1. ~sopen'[k] /\ UNCHANGED copen
    BY <1>4, <1>a DEF CloseConn, CloseServerEnd, TypeOK
  <2>2. \A j \in Conns \ {k} : tpc'[j] = tpc[j] /\ sopen'[j] = sopen[j]
    BY <1>4, <1>a DEF CloseConn, CloseServerEnd, TypeOK
  <2> QED BY <1>b, <2>1, <2>2
<1>5. CASE Accept
  <2>1. PICK k : k = Head(backlog)
    OBVIOUS
  <2>2. k \in Conns /\ tpc[k] = "none" /\ sopen[k]
    BY <1>5, <2>1 DEF Accept, Plumbing, TypeOK, Threads
  <2>3. copen[k]
    BY <1>b, <2>2
  <2>4. UNCHANGED <<copen, sopen>> /\ \A j \in Conns \ {k} : tpc'[j] = tpc[j]
    BY <1>5, <2>1, <1>a DEF Accept, TypeOK
  <2> QED BY <1>b, <2>3, <2>4
<1>6. CASE EnterAccept \/ AllQuiet \/ UNCHANGED vars
  <2>1. UNCHANGED <<sopen, copen, tpc>>
    BY <1>6 DEF EnterAccept, AllQuiet, vars, threadVars, netVars
  <2> QED BY <1>1, <2>1
<1>7. ~(\E how \in {"exited", "aborted", "killed"} : ServerStops(how))
  BY DEF ServerStops
<1> QED
  BY <1>2, <1>3, <1>4, <1>5, <1>6, <1>7
  DEF Next, MainStep, AcceptFails, ThreadStep, ServerAssertFails, ServerSigpipe

\* No step blames a client while the server is up, or the server while no
\* client has died.
LEMMA BlameStep ==
  ASSUME Plumbing, Lockstep, NoOrphan, ClientBlame, ServerBlame, [Next]_vars
  PROVE  ClientBlame' /\ ServerBlame'
<1>a. TypeOK
  BY DEF Plumbing
<1>1. ASSUME NEW c \in Clients, cpc'[c] \in {"aborted", "killed"}, server' = "up"
      PROVE  FALSE
  <2>1. server = "up" /\ cpc[c] \notin {"aborted", "killed"}
    BY <1>1, Monotone DEF ClientBlame
  <2>2. ASSUME NEW d \in Clients, ClientStep(d) \/ Crash(d) \/ Restart(d) PROVE FALSE
    <3>1. ~ClientAssertFails(d) /\ ~ClientSigpipe(d)
      BY <2>1, ClientSafe
    <3>2. \E pc \in ClientPC \ {"aborted", "killed"} :
            cpc' = [cpc EXCEPT ![d] = pc]
      BY <2>2, <3>1 DEF ClientStep, Connect, ConnectFails, SendRequest,
         SendBlockAck, SendCompleteAck, ClientSend, ReadReqAck, ReadBlock,
         ReadComplete, ClientRead, ClientClose, LoopTest, Crash, Restart,
         ClientDies, ClientPC, Dead
    <3> QED BY <1>1, <2>1, <3>2, <1>a DEF TypeOK
  <2>3. UNCHANGED cpc \/ \E d \in Clients : ClientStep(d) \/ Crash(d) \/ Restart(d)
    BY ServerFrame DEF Next, AllQuiet, vars, clientVars
  <2> QED BY <1>1, <2>1, <2>2, <2>3
<1>2. ASSUME server' \in {"aborted", "killed"} PROVE died' # {}
  <2>1. CASE \E k \in Conns : ServerAssertFails(k) \/ ServerSigpipe(k)
    BY <2>1, Monotone, ServerSafe
  <2>2. CASE ~\E k \in Conns : ServerAssertFails(k) \/ ServerSigpipe(k)
    <3>1. UNCHANGED server \/ server' = "exited"
      BY <2>2, ClientFrame DEF Next, MainStep, EnterAccept, AcceptFails, Accept,
         ServerStops, ThreadStep, ReadRequest, SendReqAck, OpenFile, SendBlock,
         ReadBlockAck, SendComplete, ServerSend, CloseConn, AllQuiet, vars,
         serverVars
    <3> QED BY <1>2, <3>1, Monotone DEF ServerBlame
  <2> QED BY <2>1, <2>2
<1> QED BY <1>1, <1>2 DEF ClientBlame, ServerBlame
-----------------------------------------------------------------------------
(***************************************************************************)
(* What the client is sent.                                                *)
(***************************************************************************)
\* A queue of messages to a client that has read g blocks never holds a block
\* too many, nor FILE_COMPLETE in the middle of the file.
Delivered(q, g) ==
  /\ \A i \in 1..Len(q) : q[i].type = "FILE_COMPLETE" =>
       /\ g \in {0, FileBlocks}
       /\ \A j \in 1..Len(q) : q[j].type # "FILE_BLOCK"
  /\ \A i \in 1..Len(q) : q[i].type = "FILE_BLOCK" =>
       /\ g < FileBlocks
       /\ \A j \in 1..Len(q) : q[j].type = "FILE_BLOCK" => i = j

\* It holds also when the server process has ended in the middle of a file,
\* and then the buffer of a client cannot be taken for a message unread.
Ledger ==
  \A c \in Clients :
    /\ cpc[c] \in {"ackComplete", "close"} => got[c] \in {0, FileBlocks}
    /\ cpc[c] = "waitAck" => cbuf[c].type = "REQ_FILE"
    /\ cpc[c] = "waitBlock" => cbuf[c].type \in {"REQ_ACK", "FILE_BLOCK_ACK"}
    /\ \A k \in Conns : csock[c] = k => Delivered(dn[k], got[c])

\* Short queues.
LEMMA DeliveredShort ==
  ASSUME NEW q, NEW g \in Nat
  PROVE  /\ Is0(q) => Delivered(q, g)
         /\ \A m : Is1(q, m) /\ m.type = "REQ_ACK" => Delivered(q, g)
         /\ \A m : Is1(q, m) /\ m.type = "FILE_BLOCK" /\ g < FileBlocks
              => Delivered(q, g)
         /\ \A m : Is1(q, m) /\ m.type = "FILE_COMPLETE" /\ g \in {0, FileBlocks}
              => Delivered(q, g)
         /\ \A m, n : /\ Is2(q, m, n) /\ m.type = "REQ_ACK"
                      /\ n.type = "FILE_BLOCK" /\ g < FileBlocks
              => Delivered(q, g)
         /\ \A m, n : /\ Is2(q, m, n) /\ m.type = "REQ_ACK"
                      /\ n.type = "FILE_COMPLETE" /\ g \in {0, FileBlocks}
              => Delivered(q, g)
<1>1. ASSUME NEW m, Is1(q, m) PROVE \A i \in 1..Len(q) : q[i] = m
  BY <1>1 DEF Is1
<1>2. ASSUME NEW m, NEW n, Is2(q, m, n)
      PROVE  \A i \in 1..Len(q) : (i = 1 /\ q[i] = m) \/ (i = 2 /\ q[i] = n)
  BY <1>2 DEF Is2
<1>3. Is0(q) => Delivered(q, g)
  BY DEF Is0, Delivered
<1>4. ASSUME NEW m, Is1(q, m) PROVE \A i, j \in 1..Len(q) : i = j
  BY <1>4 DEF Is1
<1>5. ASSUME NEW m, Is1(q, m), m.type = "REQ_ACK" PROVE Delivered(q, g)
  BY <1>1, <1>5 DEF Delivered
<1>6. ASSUME NEW m, Is1(q, m), m.type = "FILE_BLOCK", g < FileBlocks
      PROVE  Delivered(q, g)
  BY <1>1, <1>4, <1>6 DEF Delivered
<1>7. ASSUME NEW m, Is1(q, m), m.type = "FILE_COMPLETE", g \in {0, FileBlocks}
      PROVE  Delivered(q, g)
  BY <1>1, <1>7 DEF Delivered
<1>8. ASSUME NEW m, NEW n, Is2(q, m, n), m.type = "REQ_ACK",
             n.type = "FILE_BLOCK", g < FileBlocks
      PROVE  Delivered(q, g)
  BY <1>2, <1>8 DEF Delivered
<1>9. ASSUME NEW m, NEW n, Is2(q, m, n), m.type = "REQ_ACK",
             n.type = "FILE_COMPLETE", g \in {0, FileBlocks}
      PROVE  Delivered(q, g)
  BY <1>2, <1>9 DEF Delivered
<1> QED BY <1>3, <1>5, <1>6, <1>7, <1>8, <1>9

\* Reading the head of a queue.
LEMMA DeliveredRest ==
  ASSUME NEW q \in Seq(ProtoMsg), NEW g \in Nat, Delivered(q, g), q # <<>>
  PROVE  /\ Delivered(Rest(q), g)
         /\ Head(q).type = "FILE_BLOCK" => g < FileBlocks /\ Delivered(Rest(q), g + 1)
         /\ Head(q).type = "FILE_COMPLETE" => g \in {0, FileBlocks}
<1>1. /\ Len(q) \in Nat /\ Len(q) >= 1 /\ q[1] = Head(q)
      /\ Rest(q) = Tail(q) /\ Len(Tail(q)) = Len(q) - 1
      /\ \A i \in 1..(Len(q) - 1) : i + 1 \in 1..Len(q) /\ Tail(q)[i] = q[i + 1]
  BY DEF Rest
<1>2. Delivered(Rest(q), g)
  BY <1>1 DEF Delivered
<1>3. ASSUME Head(q).type = "FILE_BLOCK"
      PROVE  g < FileBlocks /\ Delivered(Rest(q), g + 1)
  <2>1. g < FileBlocks /\ \A j \in 1..Len(q) : q[j].type = "FILE_BLOCK" => j = 1
    BY <1>1, <1>3 DEF Delivered
  <2>2. \A j \in 1..Len(q) : q[j].type # "FILE_COMPLETE"
    BY <1>1, <1>3 DEF Delivered
  <2>3. \A i \in 1..Len(Rest(q)) : /\ Rest(q)[i].type # "FILE_BLOCK"
                                   /\ Rest(q)[i].type # "FILE_COMPLETE"
    BY <1>1, <2>1, <2>2
  <2> QED BY <2>1, <2>3 DEF Delivered
<1>4. Head(q).type = "FILE_COMPLETE" => g \in {0, FileBlocks}
  BY <1>1 DEF Delivered
<1> QED BY <1>2, <1>3, <1>4

\* A client and a thread in step agree on what has been sent.
LEMMA InStepLedger ==
  ASSUME NEW cp, NEW tp, NEW so, NEW u, NEW d, NEW g \in Nat, NEW s \in Nat,
         InStep(cp, tp, so, u, d, g, s)
  PROVE  Delivered(d, g)
<1>1. FileBlocks \in Nat
  BY TransferAssumption
<1>2. \/ Is0(d)
      \/ Is1(d, ReqAck)
      \/ Is1(d, Block) /\ g < FileBlocks
      \/ Is1(d, Complete) /\ g \in {0, FileBlocks}
      \/ Is2(d, ReqAck, Block) /\ g < FileBlocks
      \/ Is2(d, ReqAck, Complete) /\ g \in {0, FileBlocks}
  BY <1>1 DEF InStep
<1> QED BY <1>2, DeliveredShort, Messages

\* What the step of one client leaves of the others.
LEMMA OtherClients ==
  ASSUME Plumbing, NEW c \in Clients, ClientStep(c) \/ Crash(c) \/ Restart(c),
         NEW d \in Clients \ {c}
  PROVE  /\ cpc'[d] = cpc[d] /\ got'[d] = got[d] /\ cbuf'[d] = cbuf[d]
         /\ csock'[d] = csock[d]
         /\ csock[d] # NoConn => dn'[csock[d]] = dn[csock[d]]
<1>a. TypeOK /\ HoldsSocket /\ Sockets
  BY DEF Plumbing
<1>1. cpc'[d] = cpc[d] /\ csock'[d] = csock[d]
  BY <1>a DEF ClientStep, Connect, ConnectFails, SendRequest, SendBlockAck,
     SendCompleteAck, ClientSend, ReadReqAck, ReadBlock, ReadComplete,
     ClientRead, ClientClose, LoopTest, ClientAssertFails, ClientSigpipe, Crash,
     Restart, ClientDies, TypeOK
<1>2. got'[d] = got[d] /\ cbuf'[d] = cbuf[d]
  BY <1>a DEF ClientStep, Connect, ConnectFails, SendRequest, SendBlockAck,
     SendCompleteAck, ClientSend, ReadReqAck, ReadBlock, ReadComplete,
     ClientRead, ClientClose, LoopTest, ClientAssertFails, ClientSigpipe, Crash,
     Restart, ClientDies, TypeOK
<1>3. ASSUME csock[d] # NoConn PROVE dn'[csock[d]] = dn[csock[d]]
  <2>1. csock[d] \in Conns /\ csock[d] # csock[c]
    BY <1>3, <1>a DEF TypeOK, Sockets
  <2>2. UNCHANGED dn \/ \E q : dn' = [dn EXCEPT ![csock[c]] = q]
    BY DEF ClientStep, Connect, ConnectFails, SendRequest, SendBlockAck,
       SendCompleteAck, ClientSend, WriteUp, ReadReqAck, ReadBlock,
       ReadComplete, ClientRead, ClientClose, LoopTest, ClientAssertFails,
       ClientSigpipe, Crash, Restart, CloseClientEnd, netVars
  <2> QED BY <2>1, <2>2, <1>a DEF TypeOK
<1> QED BY <1>1, <1>2, <1>3

\* Steps of the clients keep the count of blocks.
LEMMA LedgerClientStep ==
  ASSUME Plumbing, Ledger, NEW c \in Clients, ClientStep(c) \/ Crash(c) \/ Restart(c)
  PROVE  Ledger'
<1> DEFINE Led(d) ==
      /\ cpc[d] \in {"ackComplete", "close"} => got[d] \in {0, FileBlocks}
      /\ cpc[d] = "waitAck" => cbuf[d].type = "REQ_FILE"
      /\ cpc[d] = "waitBlock" => cbuf[d].type \in {"REQ_ACK", "FILE_BLOCK_ACK"}
      /\ \A k \in Conns : csock[d] = k => Delivered(dn[k], got[d])
<1>a. TypeOK /\ HoldsSocket
  BY DEF Plumbing
<1>b. Led(c)
  BY DEF Ledger
<1>1. ASSUME NEW d \in Clients \ {c} PROVE Led(d)'
  <2>1. Led(d)
    BY DEF Ledger
  <2> QED BY <2>1, OtherClients, TransferAssumption
<1>2. ASSUME Connect(c) PROVE Led(c)'
  <2>1. PICK k \in Conns : ~copen[k] /\ csock' = [csock EXCEPT ![c] = k] /\ UNCHANGED dn
    BY <1>2 DEF Connect
  <2>2. csock'[c] = k /\ cpc'[c] = "request" /\ got'[c] = 0
    BY <1>2, <2>1, <1>a DEF Connect, TypeOK
  <2>3. Delivered(dn'[k], 0)
    BY <2>1, DeliveredShort DEF Plumbing, Ends
  <2> QED BY <2>2, <2>3
<1>3. ASSUME SendRequest(c) \/ SendBlockAck(c) \/ SendCompleteAck(c)
      PROVE  Led(c)'
  <2>1. /\ UNCHANGED <<got, csock, dn>>
        /\ \/ cpc[c] = "request" /\ cpc'[c] = "waitAck" /\ cbuf'[c] = ReqFile
           \/ cpc[c] = "ackBlock" /\ cpc'[c] = "waitBlock" /\ cbuf'[c] = BlockAck
           \/ cpc[c] = "ackComplete" /\ cpc'[c] = "close"
    BY <1>3, <1>a DEF SendRequest, SendBlockAck, SendCompleteAck, ClientSend,
       WriteUp, TypeOK, ReqFile, BlockAck
  <2> QED BY <2>1, <1>b, Messages
<1>4. ASSUME ReadReqAck(c) \/ ReadBlock(c) \/ ReadComplete(c) PROVE Led(c)'
  <2> DEFINE k == csock[c]
  <2>1. /\ k \in Conns /\ dn[k] \in Seq(ProtoMsg) /\ got[c] \in Nat
        /\ Delivered(dn[k], got[c])
    BY <1>4, <1>a, <1>b DEF ReadReqAck, ReadBlock, ReadComplete, ClientRead,
       HoldsSocket, Connected, TypeOK
  <2>2. /\ UNCHANGED csock /\ dn'[k] = Rest(dn[k])
        /\ cbuf'[c] = Filled(dn[k], cbuf[c])
    BY <1>4, <2>1, <1>a DEF ReadReqAck, ReadBlock, ReadComplete, ClientRead, TypeOK
  <2>3. \/ /\ cpc[c] = "waitAck" /\ cpc'[c] = "waitBlock" /\ got'[c] = got[c]
           /\ Filled(dn[k], cbuf[c]).type = "REQ_ACK"
        \/ /\ cpc[c] = "waitBlock" /\ cpc'[c] = "ackBlock" /\ got'[c] = got[c] + 1
           /\ Filled(dn[k], cbuf[c]).type = "FILE_BLOCK"
        \/ /\ cpc[c] = "waitBlock" /\ cpc'[c] = "ackComplete" /\ got'[c] = got[c]
           /\ Filled(dn[k], cbuf[c]).type = "FILE_COMPLETE"
    BY <1>4, <1>a DEF ReadReqAck, ReadBlock, ReadComplete, ClientRead, TypeOK
  <2>4. dn[k] # <<>> /\ Filled(dn[k], cbuf[c]) = Head(dn[k])
    BY <2>3, <1>b DEF Filled
  <2>5. \A j \in Conns : csock'[c] = j => j = k
    BY <2>2
  <2> HIDE DEF k
  <2>6. Delivered(dn'[k], got'[c])
    BY <2>1, <2>2, <2>3, <2>4, DeliveredRest
  <2>7. cpc'[c] = "ackComplete" => got'[c] \in {0, FileBlocks}
    BY <2>1, <2>3, <2>4, DeliveredRest
  <2>8. cpc'[c] = "waitBlock" => cbuf'[c].type = "REQ_ACK"
    BY <2>2, <2>3
  <2> QED BY <2>3, <2>5, <2>6, <2>7, <2>8
<1>5. ASSUME Closes(c) \/ ConnectFails(c) \/ LoopTest(c) \/ Restart(c)
      PROVE  Led(c)'
  <2>1. /\ csock'[c] = NoConn
        /\ cpc'[c] \in Dead \cup {"loop", "connect"}
    BY <1>5, <1>a DEF Closes, ClientClose, ClientAssertFails, ClientSigpipe, Crash,
       ClientDies, ConnectFails, LoopTest, Restart, HoldsSocket, Connected,
       Dead, TypeOK
  <2> QED BY <2>1, TransferAssumption DEF Dead
<1>6. Led(c)'
  BY <1>2, <1>3, <1>4, <1>5 DEF ClientStep, Closes
<1> QED BY <1>1, <1>6 DEF Ledger

\* Every step keeps the count of blocks.
LEMMA LedgerStep ==
  ASSUME Plumbing, Lockstep, Ledger, [Next]_vars, TypeOK', Lockstep'
  PROVE  Ledger'
<1>a. TypeOK
  BY DEF Plumbing
<1>1. ASSUME NEW c \in Clients, ClientStep(c) \/ Crash(c) \/ Restart(c) PROVE Ledger'
  BY <1>1, LedgerClientStep
<1>2. ASSUME UNCHANGED clientVars, server' = "up" PROVE Ledger'
  <2>1. ASSUME NEW c \in Clients, NEW k \in Conns, csock'[c] = k
        PROVE  Delivered(dn'[k], got'[c])
    <3>1. InStep(cpc[c]', tpc[k]', sopen[k]', up[k]', dn[k]', got[c]', served[k]')
      BY <1>2, <2>1 DEF Lockstep, Pair
    <3>2. got[c]' \in Nat /\ served[k]' \in Nat
      BY DEF TypeOK
    <3> QED BY <3>1, <3>2, InStepLedger
  <2> QED BY <1>2, <2>1 DEF Ledger, clientVars
<1>3. ASSUME NEW how, ServerStops(how), server = "up" PROVE Ledger'
  <2>1. ASSUME NEW c \in Clients, NEW k \in Conns, csock[c] = k
        PROVE  Delivered(dn'[k], got[c])
    <3>1. CASE dn'[k] = dn[k]
      BY <2>1, <3>1 DEF Ledger
    <3>2. CASE dn'[k] # dn[k]
      <4>1. tpc[k] \in DOMAIN ServerSends /\ dn'[k] = Append(dn[k], Cut(Sending(k)))
        BY <1>3, <3>2 DEF ServerStops
      <4>2. Pair(c, k) /\ sopen[k]
        BY <1>3, <2>1, <4>1, Messages DEF Lockstep, Plumbing, Threads
      <4>3. Sending(k) \in ProtoMsg /\ Cut(Sending(k)) \in ProtoMsg
            /\ Cut(Sending(k)).type = Sending(k).type
        BY <4>1, SendingType, CutType
      <4>4. /\ tpc[k] = "sendAck" => Sending(k) = ReqAck
            /\ tpc[k] = "file" => Sending(k) = IF served[k] = FileBlocks THEN Complete ELSE Block
            /\ tpc[k] = "complete" => Sending(k) = Complete
        BY DEF Sending, ReqAck, Complete, Block
      <4>5. /\ got[c] \in Nat /\ served[k] \in Nat /\ FileBlocks \in Nat
            /\ dn[k] \in Seq(ProtoMsg)
        BY <1>a, TransferAssumption DEF TypeOK
      <4>6. \/ tpc[k] = "sendAck" /\ Is0(dn[k])
            \/ /\ tpc[k] = "complete" /\ got[c] = 0
               /\ Is0(dn[k]) \/ Is1(dn[k], ReqAck)
            \/ /\ tpc[k] = "file" /\ got[c] = served[k] /\ served[k] <= FileBlocks
               /\ Is0(dn[k]) \/ Is1(dn[k], ReqAck)
        BY <4>1, <4>2, <4>5, Messages DEF Pair, InStep
      <4>7. \/ Is1(dn'[k], Cut(Sending(k)))
            \/ Is2(dn'[k], ReqAck, Cut(Sending(k)))
        BY <4>1, <4>3, <4>5, <4>6, AppendIs
      <4>8. \/ tpc[k] = "sendAck" /\ Cut(Sending(k)).type = "REQ_ACK"
               /\ Is1(dn'[k], Cut(Sending(k)))
            \/ Cut(Sending(k)).type = "FILE_COMPLETE" /\ got[c] \in {0, FileBlocks}
            \/ Cut(Sending(k)).type = "FILE_BLOCK" /\ got[c] < FileBlocks
        BY <4>1, <4>3, <4>4, <4>5, <4>6, AppendIs, Messages
      <4> QED BY <4>5, <4>7, <4>8, DeliveredShort, Messages
    <3> QED BY <3>1, <3>2
  <2> QED BY <1>3, <2>1 DEF ServerStops, Ledger, clientVars
<1>4. CASE UNCHANGED <<clientVars, dn>>
  BY <1>4 DEF Ledger, clientVars
<1>5. ASSUME NEW k \in Conns, ThreadStep(k) PROVE Ledger'
  <2>1. server = "up"
    BY <1>5, Messages DEF Plumbing, Threads, ThreadStep, ReadRequest, SendReqAck,
       OpenFile, SendBlock, ReadBlockAck, SendComplete, ServerSend, CloseConn,
       ServerAssertFails, ServerSigpipe
  <2>2. server' = "up" \/ \E how : ServerStops(how)
    BY <1>5, <2>1 DEF ThreadStep, ReadRequest, SendReqAck, OpenFile, SendBlock,
       ReadBlockAck, SendComplete, ServerSend, CloseConn, ServerAssertFails,
       ServerSigpipe, serverVars
  <2>3. UNCHANGED clientVars
    BY <1>5, ServerFrame
  <2> QED BY <1>2, <1>3, <2>1, <2>2, <2>3
<1>6. CASE MainStep
  BY <1>3, <1>4, <1>6 DEF MainStep, EnterAccept, AcceptFails, Accept, netVars
<1>7. CASE AllQuiet \/ UNCHANGED vars
  BY <1>4, <1>7 DEF AllQuiet, vars, netVars
<1> QED BY <1>1, <1>5, <1>6, <1>7 DEF Next
-----------------------------------------------------------------------------
(***************************************************************************)
(* The theorems.                                                           *)
(***************************************************************************)
\* The inductive invariant.
IInv == Plumbing /\ Lockstep /\ NoOrphan /\ Ledger /\ ClientBlame /\ ServerBlame

\* The inductive invariant holds before the first connect.
LEMMA InitIInv ==
  ASSUME Init
  PROVE  IInv
<1> USE TransferAssumption
<1>1. TypeOK /\ HoldsSocket
  BY DEF Init, TypeOK, ClientPC, ThreadPC, Buffer, HoldsSocket, Connected
<1>2. Sockets /\ Threads /\ Ends
  BY EmptyIs DEF Init, Sockets, Threads, Ends
<1>3. Lockstep /\ NoOrphan /\ Ledger
  BY DEF Init, Lockstep, NoOrphan, Ledger
<1>4. ClientBlame /\ ServerBlame
  BY DEF Init, ClientBlame, ServerBlame
<1> QED BY <1>1, <1>2, <1>3, <1>4 DEF IInv, Plumbing

\* The inductive invariant is inductive.
LEMMA StepIInv ==
  ASSUME IInv, [Next]_vars
  PROVE  IInv'
<1>1. Plumbing /\ Lockstep /\ NoOrphan /\ Ledger /\ ClientBlame /\ ServerBlame
  BY DEF IInv
<1>2. TypeOK /\ HoldsSocket /\ Sockets /\ Threads /\ Ends
  BY <1>1 DEF Plumbing
<1>3. Plumbing'
  BY <1>2, TypeStep, HoldsSocketStep, SocketsStep, ThreadsStep, EndsStep DEF Plumbing
<1>4. Lockstep' /\ NoOrphan'
  BY <1>1, LockstepStep, NoOrphanStep
<1>5. Ledger'
  BY <1>1, <1>3, <1>4, LedgerStep DEF Plumbing
<1>6. ClientBlame' /\ ServerBlame'
  BY <1>1, BlameStep
<1> QED BY <1>3, <1>4, <1>5, <1>6 DEF IInv

\* IInv holds in every reachable state: a client and its thread are always
\* in step, whatever the other clients do and whoever is killed.
THEOREM Invariance == Spec => []IInv
BY InitIInv, StepIInv, PTL DEF Spec

\* For any number of clients, connections, descriptors and file blocks, a
\* client is brought down only by the end of the server (client.c:97, 110).
THEOREM ClientsNotToBlame == Spec => []ClientBlame
<1>1. IInv => ClientBlame
  BY DEF IInv
<1> QED BY <1>1, Invariance, PTL

\* And the server's assertions (server.c:65, 99) and SIGPIPE need a client
\* that ended before its request did.
THEOREM ServerNotToBlame == Spec => []ServerBlame
<1>1. IInv => ServerBlame
  BY DEF IInv
<1> QED BY <1>1, Invariance, PTL

\* A client never takes part of a file for the whole, even when the server
\* process ends in the middle of it.
THEOREM WholeFile == Spec => []WholeFileOrNothing
<1>1. IInv => WholeFileOrNothing
  BY DEF IInv, Ledger, WholeFileOrNothing
<1> QED BY <1>1, Invariance, PTL

\* No block is lost or counted twice between server_func and the client.
THEOREM BlocksAreAccounted == Spec => []BlocksAccounted
<1>1. ASSUME IInv PROVE BlocksAccounted
  <2> SUFFICES ASSUME NEW c \in Clients, csock[c] # NoConn,
                      tpc[csock[c]] \in {"file", "readBlockAck"}
               PROVE  served[csock[c]] =
                        got[c] + Cardinality({i \in DOMAIN dn[csock[c]] :
                                                dn[csock[c]][i].type = "FILE_BLOCK"})
    BY DEF BlocksAccounted
  <2> DEFINE k == csock[c]
             Blocks == {i \in DOMAIN dn[k] : dn[k][i].type = "FILE_BLOCK"}
  <2>1. k \in Conns /\ sopen[k] /\ server = "up"
    BY <1>1 DEF IInv, Plumbing, TypeOK, Threads
  <2>2. Pair(c, k)
    BY <1>1, <2>1 DEF IInv, Lockstep
  <2>3. DOMAIN dn[k] = 1..Len(dn[k]) /\ got[c] \in Nat /\ served[k] \in Nat
    BY <1>1, <2>1 DEF IInv, Plumbing, TypeOK
  <2>4. \/ Is0(dn[k]) /\ served[k] = got[c]
        \/ Is1(dn[k], ReqAck) /\ served[k] = got[c]
        \/ Is1(dn[k], Block) /\ served[k] = got[c] + 1
        \/ Is2(dn[k], ReqAck, Block) /\ served[k] = got[c] + 1
    BY <2>1, <2>2, <2>3 DEF Pair, InStep
  <2>5. \/ Blocks = {} /\ served[k] = got[c]
        \/ (\E i : Blocks = {i}) /\ served[k] = got[c] + 1
    <3>1. CASE Is0(dn[k]) /\ served[k] = got[c]
      BY <2>3, <3>1 DEF Is0
    <3>2. CASE Is1(dn[k], ReqAck) /\ served[k] = got[c]
      BY <2>3, <3>2, Messages DEF Is1
    <3>3. CASE Is1(dn[k], Block) /\ served[k] = got[c] + 1
      <4>1. Blocks = {1}
        BY <2>3, <3>3, Messages DEF Is1
      <4> QED BY <3>3, <4>1
    <3>4. CASE Is2(dn[k], ReqAck, Block) /\ served[k] = got[c] + 1
      <4>1. Blocks = {2}
        BY <2>3, <3>4, Messages DEF Is2
      <4> QED BY <3>4, <4>1
    <3> QED BY <2>4, <3>1, <3>2, <3>3, <3>4
  <2> HIDE DEF Blocks
  <2>6. served[k] = got[c] + Cardinality(Blocks)
    <3>1. CASE Blocks = {} /\ served[k] = got[c]
      BY <2>3, <3>1, FS_EmptySet
    <3>2. ASSUME NEW i, Blocks = {i}, served[k] = got[c] + 1
          PROVE  served[k] = got[c] + Cardinality(Blocks)
      <4>1. Cardinality({i}) = 1
        BY FS_Singleton
      <4> QED BY <3>2, <4>1
    <3> QED BY <2>5, <3>1, <3>2
  <2> QED BY <2>6 DEF Blocks
<1> QED BY <1>1, Invariance, PTL
-----------------------------------------------------------------------------
(***************************************************************************)
(* What a client may write to a connection that has been reset.            *)
(***************************************************************************)
\* A client that waits has its own last message in the buffer.
OwnMessage ==
  \A c \in Clients :
    /\ cpc[c] = "waitAck" => cbuf[c].type = "REQ_FILE"
    /\ cpc[c] = "waitBlock" => cbuf[c].type \in {"REQ_ACK", "FILE_BLOCK_ACK"}

\* A reset is on its way only to a client that closes next, that reads next and
\* finds nothing, or that has yet to ask for the file.  cp is its program
\* counter, d what it has not read.
Resettable(cp, d) ==
  \/ cp = "close"
  \/ cp \in {"request", "waitAck", "waitBlock"} /\ Is0(d)

\* What a client can still hear from its connection, r being its resets.
Unheard(cp, d, r) ==
  /\ cp = "waitAck" => Len(d) \in 0..2
  /\ cp = "waitBlock" => Len(d) \in 0..1
  /\ cp \in {"request", "ackBlock", "ackComplete"} => Is0(d)
  /\ "client" \in r => Resettable(cp, d)

Quiet ==
  /\ OwnMessage
  /\ \A c \in Clients : csock[c] # NoConn =>
       Unheard(cpc[c], dn[csock[c]], reset[csock[c]])

\* A client in step with its thread is quiet.
LEMMA InStepQuiet ==
  ASSUME NEW cp, NEW tp, NEW so, NEW u, NEW d \in Seq(ProtoMsg), NEW g, NEW s,
         NEW r, InStep(cp, tp, so, u, d, g, s), "client" \in r => cp = "close"
  PROVE  Unheard(cp, d, r)
<1>1. cp = "waitAck" => Len(d) = 0 \/ Len(d) = 1 \/ Len(d) = 2
  BY DEF InStep, Is0, Is1, Is2
<1>2. cp = "waitBlock" => Len(d) = 0 \/ Len(d) = 1
  BY DEF InStep, Is0, Is1, Is2
<1>3. cp \in {"request", "ackBlock", "ackComplete"} => Len(d) = 0
  BY DEF InStep, Is0
<1>4. /\ cp = "waitAck" => Len(d) \in 0..2
      /\ cp = "waitBlock" => Len(d) \in 0..1
  BY <1>1, <1>2
<1>5. "client" \in r => Resettable(cp, d)
  BY DEF Resettable
<1>6. cp \in {"request", "ackBlock", "ackComplete"} => Is0(d)
  BY <1>3 DEF Is0
<1> QED BY <1>4, <1>5, <1>6 DEF Unheard

\* Sends and reads keep OwnMessage.
LEMMA OwnMessageStep ==
  ASSUME TypeOK, OwnMessage, [Next]_vars
  PROVE  OwnMessage'
<1>1. CASE UNCHANGED <<cpc, cbuf>>
  BY <1>1 DEF OwnMessage
<1>2. ASSUME NEW c \in Clients, ClientStep(c) \/ Crash(c) \/ Restart(c)
      PROVE  OwnMessage'
  <2>1. CASE \/ Connect(c) \/ ConnectFails(c) \/ ClientClose(c) \/ LoopTest(c)
             \/ ClientAssertFails(c) \/ ClientSigpipe(c) \/ Crash(c) \/ Restart(c)
    <3>1. \E pc : /\ cpc' = [cpc EXCEPT ![c] = pc]
                  /\ pc \notin {"waitAck", "waitBlock"}
      <4>1. CASE Connect(c) \/ ConnectFails(c)
        <5>1. \/ cpc' = [cpc EXCEPT ![c] = "request"]
              \/ cpc' = [cpc EXCEPT ![c] = "exited"]
          BY <4>1 DEF Connect, ConnectFails
        <5> QED BY <5>1
      <4>2. CASE LoopTest(c) \/ Restart(c)
        <5>1. \E pc \in {"connect", "done"} : cpc' = [cpc EXCEPT ![c] = pc]
          BY <4>2 DEF LoopTest, Restart
        <5> QED BY <5>1
      <4>3. CASE \/ ClientClose(c) \/ ClientAssertFails(c)
                 \/ ClientSigpipe(c) \/ Crash(c)
        BY <4>3 DEF ClientClose, ClientAssertFails, ClientSigpipe, Crash, ClientDies
      <4> QED BY <2>1, <4>1, <4>2, <4>3
    <3>2. UNCHANGED cbuf \/ cbuf' = [cbuf EXCEPT ![c] = Garbage]
      BY <2>1 DEF Connect, ConnectFails, ClientClose, LoopTest, netVars,
         ClientAssertFails, ClientSigpipe, Crash, Restart, ClientDies
    <3> QED BY <3>1, <3>2 DEF OwnMessage, TypeOK
  <2>2. CASE SendRequest(c) \/ SendBlockAck(c) \/ SendCompleteAck(c)
    <3>1. \/ /\ cpc' = [cpc EXCEPT ![c] = "waitAck"]
             /\ cbuf' = [cbuf EXCEPT ![c] = ReqFile]
          \/ /\ cpc' = [cpc EXCEPT ![c] = "waitBlock"]
             /\ cbuf' = [cbuf EXCEPT ![c] = BlockAck]
          \/ /\ cpc' = [cpc EXCEPT ![c] = "close"]
             /\ cbuf' = [cbuf EXCEPT ![c] = CompleteAck]
      BY <2>2 DEF SendRequest, SendBlockAck, SendCompleteAck, ClientSend,
         ReqFile, BlockAck, CompleteAck
    <3>2. /\ ReqFile.type = "REQ_FILE" /\ BlockAck.type = "FILE_BLOCK_ACK"
          /\ DOMAIN cpc = Clients /\ DOMAIN cbuf = Clients
      BY Messages DEF TypeOK
    <3>3. /\ cpc'[c] = "waitAck" => cbuf'[c].type = "REQ_FILE"
          /\ cpc'[c] = "waitBlock" => cbuf'[c].type = "FILE_BLOCK_ACK"
      BY <3>1, <3>2
    <3>4. \A d \in Clients \ {c} : cpc'[d] = cpc[d] /\ cbuf'[d] = cbuf[d]
      BY <3>1, <3>2
    <3> QED BY <3>3, <3>4 DEF OwnMessage
  <2>3. CASE ReadReqAck(c) \/ ReadBlock(c) \/ ReadComplete(c)
    BY <2>3 DEF ReadReqAck, ReadBlock, ReadComplete, ClientRead, OwnMessage, TypeOK
  <2> QED BY <1>2, <2>1, <2>2, <2>3 DEF ClientStep
<1> QED BY <1>1, <1>2, ServerFrame DEF Next, AllQuiet, vars, clientVars

\* A client whose server has ended reads what is left and then stops.
LEMMA QuietAlone ==
  ASSUME Plumbing, Quiet, server # "up", NEW c \in Clients,
         ClientStep(c) \/ Crash(c) \/ Restart(c), csock'[c] # NoConn
  PROVE  Unheard(cpc'[c], dn'[csock'[c]], reset'[csock'[c]])
<1>a. TypeOK /\ HoldsSocket /\ Threads
  BY DEF Plumbing
<1>1. csock'[c] = csock[c] /\ csock[c] # NoConn
  BY <1>a DEF ClientStep, Connect, ConnectFails, SendRequest, SendBlockAck,
     SendCompleteAck, ClientSend, ReadReqAck, ReadBlock, ReadComplete,
     ClientRead, ClientClose, LoopTest, ClientAssertFails, ClientSigpipe, Crash,
     Restart,     ClientDies, TypeOK, HoldsSocket, Connected, Dead
<1> DEFINE k == csock[c]
<1>2. /\ k \in Conns /\ ~sopen[k] /\ dn[k] \in Seq(ProtoMsg)
      /\ Unheard(cpc[c], dn[k], reset[k])
  BY <1>1, <1>a DEF TypeOK, Threads, Quiet
<1>3. CASE SendRequest(c) \/ SendBlockAck(c) \/ SendCompleteAck(c)
  <2>1. /\ dn'[k] = dn[k]
        /\ \/ cpc[c] = "request" /\ cpc'[c] = "waitAck"
           \/ cpc[c] = "ackBlock" /\ cpc'[c] = "waitBlock"
           \/ cpc[c] = "ackComplete" /\ cpc'[c] = "close"
    BY <1>3, <1>a DEF SendRequest, SendBlockAck, SendCompleteAck, ClientSend,
       WriteUp, TypeOK
  <2> QED BY <1>1, <1>2, <2>1 DEF Unheard, Resettable, Is0
<1>4. CASE ReadReqAck(c) \/ ReadBlock(c) \/ ReadComplete(c)
  <2>1. /\ dn'[k] = Rest(dn[k]) /\ UNCHANGED reset
        /\ \/ cpc[c] = "waitAck" /\ cpc'[c] = "waitBlock"
           \/ cpc[c] = "waitBlock" /\ cpc'[c] \in {"ackBlock", "ackComplete"}
    BY <1>2, <1>4, <1>a DEF ReadReqAck, ReadBlock, ReadComplete, ClientRead, TypeOK
  <2>2. dn[k] # <<>>
    BY <1>4 DEF ReadReqAck, ReadBlock, ReadComplete, ClientRead, Filled,
       Quiet, OwnMessage
  <2>3. Len(dn'[k]) = Len(dn[k]) - 1 /\ Len(dn[k]) > 0
    BY <1>2, <2>1, <2>2 DEF Rest
  <2> QED BY <1>1, <1>2, <2>1, <2>3 DEF Unheard, Resettable, Is0
<1>5. CASE ~(\/ SendRequest(c) \/ SendBlockAck(c) \/ SendCompleteAck(c)
             \/ ReadReqAck(c) \/ ReadBlock(c) \/ ReadComplete(c))
  BY <1>1, <1>5, <1>a DEF ClientStep, Connect, ConnectFails, ClientClose,
     LoopTest, ClientAssertFails, ClientSigpipe, Crash, Restart, ClientDies, TypeOK,
     HoldsSocket, Connected, Dead
<1> QED BY <1>3, <1>4, <1>5

\* Neither does a step of one client disturb another.
LEMMA QuietOthers ==
  ASSUME Plumbing, Quiet, NEW c \in Clients,
         ClientStep(c) \/ Crash(c) \/ Restart(c),
         NEW d \in Clients \ {c}, csock'[d] # NoConn
  PROVE  Unheard(cpc'[d], dn'[csock'[d]], reset'[csock'[d]])
<1>a. TypeOK /\ Sockets
  BY DEF Plumbing
<1>1. /\ cpc'[d] = cpc[d] /\ csock'[d] = csock[d] /\ csock[d] # NoConn
      /\ dn'[csock[d]] = dn[csock[d]]
  BY OtherClients
<1>2. csock[d] \in Conns /\ csock[d] # csock[c]
  BY <1>1, <1>a DEF TypeOK, Sockets
<1>3. UNCHANGED reset \/ \E r : reset' = [reset EXCEPT ![csock[c]] = r]
  BY DEF ClientStep, Connect, ConnectFails, SendRequest, SendBlockAck,
     SendCompleteAck, ClientSend, WriteUp, ReadReqAck, ReadBlock,
     ReadComplete, ClientRead, ClientClose, LoopTest, ClientAssertFails,
     ClientSigpipe, Crash, Restart, CloseClientEnd, netVars
<1>4. reset'[csock[d]] = reset[csock[d]]
  BY <1>2, <1>3, <1>a DEF TypeOK
<1> QED BY <1>1, <1>4 DEF Quiet

\* The end of the server leaves at most a cut message behind, and resets only
\* those who wait for an answer or whose connection nobody has accepted.
LEMMA QuietStop ==
  ASSUME Plumbing, Lockstep, server = "up", NEW how, ServerStops(how),
         NEW c \in Clients, csock'[c] # NoConn
  PROVE  Unheard(cpc'[c], dn'[csock'[c]], reset'[csock'[c]])
<1>a. TypeOK /\ Threads
  BY DEF Plumbing
<1>1. cpc' = cpc /\ csock' = csock
  BY DEF ServerStops, clientVars
<1> DEFINE k == csock[c]
<1>2. /\ k \in Conns /\ dn[k] \in Seq(ProtoMsg) /\ up[k] \in Seq(ProtoMsg)
      /\ Pair(c, k) /\ (tpc[k] # "none" => sopen[k])
  BY <1>1, <1>a DEF TypeOK, Threads, Lockstep
<1>3. \/ dn'[k] = dn[k]
      \/ /\ tpc[k] \in {"sendAck", "file", "complete"}
         /\ \E m : dn'[k] = Append(dn[k], m)
  BY <1>2 DEF ServerStops, ServerSends
<1>4. "client" \in reset'[k] => \/ "client" \in reset[k] \/ up[k] # <<>>
                                \/ tpc[k] = "none" /\ sopen[k]
  <2>1. Queued(k) => tpc[k] = "none" /\ sopen[k]
    BY <1>a DEF Queued, Threads
  <2>2. "client" \in reset'[k] => "client" \in reset[k] \/ up[k] # <<>> \/ Queued(k)
    BY <1>2 DEF ServerStops
  <2> QED BY <2>1, <2>2
<1>5. dn'[k] = dn[k] \/ Len(dn'[k]) = Len(dn[k]) + 1
  BY <1>2, <1>3
<1>6. Unheard(cpc[c], dn[k], reset[k])
  BY <1>2, InStepQuiet DEF Pair
<1>7. up[k] # <<>> => ~Is0(up[k])
  BY <1>2 DEF Is0
<1>8. ASSUME tpc[k] \in {"sendAck", "file", "complete"}
      PROVE  /\ Is0(up[k])
             /\ \/ cpc[c] = "waitAck" /\ Len(dn[k]) \in 0..1
                \/ cpc[c] = "waitBlock" /\ Is0(dn[k])
  BY <1>2, <1>8 DEF Pair, InStep, Is0, Is1, Is2
<1>9. ASSUME ~Is0(up[k]), cpc[c] # "close"
      PROVE  cpc[c] \in {"waitAck", "waitBlock"} /\ Is0(dn[k])
  BY <1>2, <1>9 DEF Pair, InStep, Is0, Is1, Is2
<1>10. "client" \in reset[k] => cpc[c] = "close"
  BY <1>2 DEF Pair
<1>b. ASSUME tpc[k] = "none", sopen[k]
      PROVE  cpc[c] \in {"request", "waitAck"} /\ Is0(dn[k])
  BY <1>2, <1>b DEF Pair, InStep
<1>11. CASE dn'[k] = dn[k]
  <2>1. "client" \in reset'[k] => Resettable(cpc[c], dn[k])
    BY <1>4, <1>7, <1>9, <1>10, <1>b DEF Resettable
  <2> QED BY <1>1, <1>6, <1>11, <2>1 DEF Unheard
<1>12. CASE dn'[k] # dn[k]
  <2>1. tpc[k] \in {"sendAck", "file", "complete"}
    BY <1>3, <1>12
  <2>2. "client" \notin reset'[k]
    BY <1>4, <1>7, <1>8, <1>10, <2>1
  <2>3. \/ cpc[c] = "waitAck" /\ Len(dn'[k]) \in 0..2
        \/ cpc[c] = "waitBlock" /\ Len(dn'[k]) \in 0..1
    <3>1. Len(dn'[k]) = Len(dn[k]) + 1
      BY <1>5, <1>12
    <3>2. CASE cpc[c] = "waitAck" /\ Len(dn[k]) \in 0..1
      <4>1. \A n \in 0..1 : n + 1 \in 0..2
        OBVIOUS
      <4> QED BY <3>1, <3>2, <4>1
    <3>3. CASE cpc[c] = "waitBlock" /\ Len(dn[k]) = 0
      BY <3>1, <3>3
    <3> QED BY <1>8, <2>1, <3>2, <3>3 DEF Is0
  <2> QED BY <1>1, <2>2, <2>3 DEF Unheard
<1> QED BY <1>11, <1>12

\* Every step keeps Quiet.
LEMMA QuietStep ==
  ASSUME IInv, Quiet, [Next]_vars, IInv'
  PROVE  Quiet'
<1>a. Plumbing /\ TypeOK /\ Lockstep
  BY DEF IInv, Plumbing
<1>b. OwnMessage'
  BY <1>a, OwnMessageStep DEF Quiet
<1> SUFFICES ASSUME NEW c \in Clients, csock'[c] # NoConn
             PROVE  Unheard(cpc'[c], dn'[csock'[c]], reset'[csock'[c]])
  BY <1>b DEF Quiet
<1>1. CASE server' = "up"
  <2>1. csock'[c] \in Conns /\ dn'[csock'[c]] \in Seq(ProtoMsg)
    BY DEF IInv, Plumbing, TypeOK
  <2>2. Pair(c, csock[c])'
    BY <1>1, <2>1 DEF IInv, Lockstep
  <2> QED BY <2>1, <2>2, InStepQuiet DEF Pair
<1>2. CASE server' # "up" /\ server = "up"
  <2>1. \E how : ServerStops(how)
    <3>1. UNCHANGED server \/ \E how : ServerStops(how)
      BY ClientFrame DEF Next, MainStep, EnterAccept, AcceptFails, Accept,
         ThreadStep, ReadRequest, SendReqAck, OpenFile, SendBlock, ReadBlockAck,
         SendComplete, ServerSend, CloseConn, ServerAssertFails, ServerSigpipe,
         AllQuiet, vars, serverVars
    <3> QED BY <1>2, <3>1
  <2> QED BY <1>2, <2>1, <1>a, QuietStop
<1>3. CASE server # "up"
  <2>1. CASE \E d \in Clients : ClientStep(d) \/ Crash(d) \/ Restart(d)
    BY <1>3, <2>1, <1>a, QuietAlone, QuietOthers
  <2>2. CASE UNCHANGED vars
    BY <2>2 DEF vars, clientVars, netVars, Quiet
  <2>3. ~MainStep /\ \A k \in Conns : ~ThreadStep(k)
    BY <1>3, <1>a DEF Plumbing, Threads, MainStep, EnterAccept, AcceptFails,
       Accept, ThreadStep, ReadRequest, SendReqAck, OpenFile, SendBlock,
       ReadBlockAck, SendComplete, ServerSend, CloseConn, ServerAssertFails,
       ServerSigpipe, ServerSends
  <2> QED BY <2>1, <2>2, <2>3 DEF Next, AllQuiet
<1> QED BY <1>1, <1>2, <1>3

\* A client writes to a connection that has been reset only when it asks for
\* the file and the server process ended before it accepted the connection; of
\* every other end of the connection the client has read before it writes again
\* (cmpsc311_network.c:305, 350).
THEOREM ClientsNeverBreakPipe == Spec => []NoBrokenPipe
<1>1. Init => Quiet
  BY DEF Init, Quiet, OwnMessage
<1>2. IInv /\ Quiet /\ [Next]_vars /\ IInv' => Quiet'
  BY QuietStep
<1>3. ASSUME IInv, Quiet PROVE NoBrokenPipe
  <2> SUFFICES ASSUME NEW c \in Clients, cpc[c] \in DOMAIN ClientSends,
                      "client" \in reset[csock[c]]
               PROVE  cpc[c] = "request" /\ server # "up"
    BY DEF NoBrokenPipe
  <2>1. cpc[c] \in {"request", "ackBlock", "ackComplete"}
    BY Messages
  <2>2. csock[c] # NoConn /\ csock[c] \in Conns
    BY <1>3, <2>1 DEF IInv, Plumbing, TypeOK, HoldsSocket, Connected
  <2>3. cpc[c] = "request"
    BY <2>1, <2>2, <1>3 DEF Quiet, Unheard, Resettable
  <2>4. server = "up" => cpc[c] = "close"
    BY <2>2, <1>3 DEF IInv, Lockstep, Pair
  <2> QED BY <2>3, <2>4
<1> QED BY <1>1, <1>2, <1>3, Invariance, PTL DEF Spec
-----------------------------------------------------------------------------
(***************************************************************************)
(* The detailed model implements the file service.                         *)
(***************************************************************************)
\* A step of one client as a change of its phase.
LEMMA PhaseStep ==
  ASSUME TypeOK, NEW c \in Clients, NEW pc, cpc' = [cpc EXCEPT ![c] = pc]
  PROVE  /\ phase[c] = PhaseOf(cpc[c])
         /\ phase' = [phase EXCEPT ![c] = PhaseOf(pc)]
         /\ PhaseOf(pc) = PhaseOf(cpc[c]) => phase' = phase
<1>1. phase[c] = PhaseOf(cpc[c])
  BY DEF phase
<1>2. \A d \in Clients : cpc'[d] = IF d = c THEN pc ELSE cpc[d]
  BY DEF TypeOK
<1>3. phase' = [d \in Clients |-> PhaseOf(cpc'[d])]
  BY DEF phase
<1>4. phase = [d \in Clients |-> PhaseOf(cpc[d])]
  BY DEF phase
<1> QED BY <1>1, <1>2, <1>3, <1>4

\* A step of a client is a step of the file service or none of its business.
LEMMA ClientRefines ==
  ASSUME IInv, NEW c \in Clients, ClientStep(c) \/ Crash(c) \/ Restart(c)
  PROVE  [Service!Next]_Service!serviceVars
<1> USE DEF Service!serviceVars, Service!Next
<1>a. TypeOK /\ HoldsSocket /\ Ledger /\ Plumbing
  BY DEF IInv, Plumbing
<1>b. UNCHANGED server
  BY ClientFrame
<1>c. phase[c] = PhaseOf(cpc[c])
  BY DEF phase
<1>1. CASE Connect(c)
  <2>1. phase' = [phase EXCEPT ![c] = "busy"] /\ phase[c] = "idle"
    BY <1>1, <1>a, PhaseStep DEF Connect, PhaseOf
  <2> QED BY <1>1, <1>b, <2>1 DEF Connect, Service!Begin
<1>2. CASE ReadBlock(c)
  <2>1. phase' = phase /\ phase[c] = "busy"
    BY <1>2, <1>a, PhaseStep DEF ReadBlock, ClientRead, PhaseOf
  <2>2. got[c] < FileBlocks
    <3>1. csock[c] \in Conns /\ dn[csock[c]] \in Seq(ProtoMsg) /\ got[c] \in Nat
      BY <1>2, <1>a DEF ReadBlock, ClientRead, HoldsSocket, Connected, TypeOK
    <3>2. Delivered(dn[csock[c]], got[c]) /\ cbuf[c].type # "FILE_BLOCK"
      BY <1>2, <1>a, <3>1 DEF Ledger, ReadBlock, ClientRead
    <3>3. dn[csock[c]] # <<>> /\ Head(dn[csock[c]]).type = "FILE_BLOCK"
      BY <1>2, <3>2 DEF ReadBlock, ClientRead, Filled
    <3> QED BY <3>1, <3>2, <3>3, DeliveredRest
  <2> QED BY <1>2, <1>b, <2>1, <2>2 DEF ReadBlock, ClientRead, Service!Deliver
<1>3. CASE ReadComplete(c)
  <2>1. phase' = [phase EXCEPT ![c] = "idle"] /\ phase[c] = "busy"
    BY <1>3, <1>a, PhaseStep DEF ReadComplete, ClientRead, PhaseOf
  <2>2. got[c] \in {0, FileBlocks}
    <3>1. csock[c] \in Conns /\ dn[csock[c]] \in Seq(ProtoMsg) /\ got[c] \in Nat
      BY <1>3, <1>a DEF ReadComplete, ClientRead, HoldsSocket, Connected, TypeOK
    <3>2. Delivered(dn[csock[c]], got[c]) /\ cbuf[c].type # "FILE_COMPLETE"
      BY <1>3, <1>a, <3>1 DEF Ledger, ReadComplete, ClientRead
    <3>3. dn[csock[c]] # <<>> /\ Head(dn[csock[c]]).type = "FILE_COMPLETE"
      BY <1>3, <3>2 DEF ReadComplete, ClientRead, Filled
    <3> QED BY <3>1, <3>2, <3>3, DeliveredRest
  <2> QED BY <1>3, <1>b, <2>1, <2>2 DEF ReadComplete, ClientRead, Service!End
<1>4. CASE Crash(c)
  <2>1. /\ cpc' = [cpc EXCEPT ![c] = "crashed"] /\ cpc[c] \notin Dead
        /\ cpc[c] \in ClientPC
    BY <1>4, <1>a DEF Crash, ClientDies, TypeOK
  <2>2. PhaseOf("crashed") = "failed" /\ PhaseOf(cpc[c]) # "failed"
    BY <2>1 DEF PhaseOf, Dead, ClientPC
  <2>3. phase' = [phase EXCEPT ![c] = "failed"] /\ phase[c] # "failed"
    BY <2>1, <2>2, <1>a, PhaseStep
  <2> QED BY <1>4, <1>b, <2>3 DEF Crash, ClientDies, Service!Kill
<1>5. CASE ConnectFails(c) \/ ClientAssertFails(c) \/ ClientSigpipe(c)
  <2>a. \E pc \in {"exited", "aborted", "killed"} : cpc' = [cpc EXCEPT ![c] = pc]
    BY <1>5 DEF ConnectFails, ClientAssertFails, ClientSigpipe, ClientDies
  <2>b. cpc[c] \in {"connect", "waitAck", "waitBlock"} \cup DOMAIN ClientSends
    BY <1>5 DEF ConnectFails, ClientAssertFails, ClientSigpipe
  <2>c. PhaseOf(cpc[c]) # "failed"
    BY <2>b, Messages DEF PhaseOf
  <2>1. phase' = [phase EXCEPT ![c] = "failed"] /\ phase[c] # "failed"
    BY <2>a, <2>c, <1>a, PhaseStep DEF PhaseOf
  <2>2. server # "up"
    BY <1>5, ClientSafe DEF ConnectFails, IInv
  <2>3. UNCHANGED <<got, crashes>>
    BY <1>5 DEF ConnectFails, ClientAssertFails, ClientSigpipe, ClientDies
  <2> QED BY <1>b, <2>1, <2>2, <2>3 DEF Service!Fail
<1>6. CASE Restart(c)
  <2>1. \/ phase' = [phase EXCEPT ![c] = "idle"] /\ phase[c] = "failed"
        \/ phase' = phase
    BY <1>6, <1>a, PhaseStep DEF Restart, PhaseOf, Dead
  <2> QED BY <1>6, <1>b, <2>1 DEF Restart, Service!Retry
<1>7. CASE \/ SendRequest(c) \/ SendBlockAck(c) \/ SendCompleteAck(c)
           \/ ReadReqAck(c) \/ ClientClose(c) \/ LoopTest(c)
  <2>1. \E pc \in ClientPC : /\ cpc' = [cpc EXCEPT ![c] = pc]
                             /\ PhaseOf(pc) = PhaseOf(cpc[c])
    BY <1>7 DEF SendRequest, SendBlockAck, SendCompleteAck, ClientSend,
       ReadReqAck, ClientRead, ClientClose, LoopTest, PhaseOf, ClientPC, Dead
  <2>2. phase' = phase
    BY <2>1, <1>a, PhaseStep
  <2>3. UNCHANGED <<got, crashes>>
    BY <1>7 DEF SendRequest, SendBlockAck, SendCompleteAck, ClientSend,
       ReadReqAck, ClientRead, ClientClose, LoopTest
  <2> QED BY <1>b, <2>2, <2>3
<1> QED BY <1>1, <1>2, <1>3, <1>4, <1>5, <1>6, <1>7 DEF ClientStep

\* Every behaviour of the clients and the server is one the file service
\* allows: blocks one by one, the end after all of them or none, and failure
\* only of a client that was killed or whose server has ended.
THEOREM ImplementsService == Spec => ServiceSpec
<1>1. Init => Service!Init
  <2> SUFFICES ASSUME Init PROVE Service!Init
    OBVIOUS
  <2>1. phase = [c \in Clients |-> "idle"]
    BY DEF Init, phase, PhaseOf
  <2> QED BY <2>1 DEF Init, Service!Init
<1>2. ASSUME IInv, [Next]_vars PROVE [Service!Next]_Service!serviceVars
  <2>1. CASE \E c \in Clients : ClientStep(c) \/ Crash(c) \/ Restart(c)
    BY <1>2, <2>1, ClientRefines
  <2>2. CASE UNCHANGED clientVars
    <3>1. UNCHANGED <<phase, got, crashes>>
      BY <2>2 DEF phase, clientVars
    <3>2. server # "up" => server' # "up"
      BY <1>2, Monotone
    <3> QED
      BY <3>1, <3>2 DEF Service!Next, Service!Break, Service!serviceVars
  <2>3. CASE MainStep \/ \E k \in Conns : ThreadStep(k)
    BY <2>2, <2>3, ServerFrame
  <2>4. CASE AllQuiet \/ UNCHANGED vars
    BY <2>2, <2>4 DEF AllQuiet, vars
  <2> QED BY <1>2, <2>1, <2>3, <2>4 DEF Next
<1> QED
  BY <1>1, <1>2, Invariance, PTL DEF Spec, ServiceSpec, Service!Spec
=============================================================================
