---------------------------- MODULE FileService ----------------------------
(***************************************************************************)
(* What the server of server/server.c promises to each client, with the    *)
(* messages, sockets and threads left out: a request is answered with the  *)
(* blocks of the file, one at a time and each once, and completes after    *)
(* all of them, or after none when the file could not be opened.  It fails *)
(* only when the service is broken or the client itself is killed.         *)
(***************************************************************************)
EXTENDS Naturals

CONSTANTS Clients, FileBlocks, CrashLimit

VARIABLES
  phase,    \* what each client's current request is: idle, busy or failed
  got,      \* the blocks it has received
  broken,   \* the service has ended
  crashes   \* clients killed so far

serviceVars == <<phase, got, broken, crashes>>

Init ==
  /\ phase = [c \in Clients |-> "idle"]
  /\ got = [c \in Clients |-> 0]
  /\ broken = FALSE
  /\ crashes = 0

Begin(c) ==
  /\ phase[c] = "idle"
  /\ ~broken
  /\ phase' = [phase EXCEPT ![c] = "busy"]
  /\ got' = [got EXCEPT ![c] = 0]
  /\ UNCHANGED <<broken, crashes>>

Deliver(c) ==
  /\ phase[c] = "busy"
  /\ got[c] < FileBlocks
  /\ got' = [got EXCEPT ![c] = @ + 1]
  /\ UNCHANGED <<phase, broken, crashes>>

End(c) ==
  /\ phase[c] = "busy"
  /\ got[c] \in {0, FileBlocks}
  /\ phase' = [phase EXCEPT ![c] = "idle"]
  /\ UNCHANGED <<got, broken, crashes>>

Break ==
  /\ ~broken
  /\ broken' = TRUE
  /\ UNCHANGED <<phase, got, crashes>>

Fail(c) ==
  /\ phase[c] # "failed"
  /\ broken
  /\ phase' = [phase EXCEPT ![c] = "failed"]
  /\ UNCHANGED <<got, broken, crashes>>

Kill(c) ==
  /\ phase[c] # "failed"
  /\ crashes < CrashLimit
  /\ crashes' = crashes + 1
  /\ phase' = [phase EXCEPT ![c] = "failed"]
  /\ UNCHANGED <<got, broken>>

Retry(c) ==
  /\ phase[c] = "failed"
  /\ phase' = [phase EXCEPT ![c] = "idle"]
  /\ UNCHANGED <<got, broken, crashes>>

Next ==
  \/ \E c \in Clients :
       Begin(c) \/ Deliver(c) \/ End(c) \/ Fail(c) \/ Kill(c) \/ Retry(c)
  \/ Break

Spec == Init /\ [][Next]_serviceVars
=============================================================================
