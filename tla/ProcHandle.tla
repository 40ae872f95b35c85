------------------------------ MODULE ProcHandle ------------------------------
(***************************************************************************)
(* The handle of our own process (lib/util/sys/cur_proc_handle.cpp): asked *)
(* of the kernel, or, where it has no answer, sent to ourselves in a       *)
(* message from which the kernel makes a real handle.  The thread that     *)
(* receives it runs on the sender's stack.                                 *)
(***************************************************************************)
EXTENDS Naturals

CONSTANTS
  Clients,     \* threads that call Get
  Invalid,     \* INVALID_HANDLE
  Ours,        \* a handle of this process
  Leftover     \* what a failing svcGetInfo leaves in X1

ASSUME ProcHandleAssumption == Ours # Invalid

VARIABLES
  handle,    \* s_Handle
  client,    \* client |-> where it is in Get, "out" when not in it
  server,    \* client |-> where the thread it created is
  request,   \* client |-> the message in its session
  word3,     \* client |-> word 3 of its server's message buffer
  got,       \* client |-> what Get returned last
  exchanges, \* server threads created so far
  fault      \* why the process aborted, "no" while it runs

handleVars == <<handle, client, server, request, word3, got, exchanges>>

HandleInit ==
  /\ handle = Invalid
  /\ client = [c \in Clients |-> "out"]
  /\ server = [c \in Clients |-> "none"]
  /\ request = [c \in Clients |-> "none"]
  /\ word3 = [c \in Clients |-> Leftover]
  /\ got = [c \in Clients |-> Invalid]
  /\ exchanges = 0

In(c, label) == fault = "no" /\ client[c] = label
Enter(c, label) == client' = [client EXCEPT ![c] = label]
ServerIn(c, label) == fault = "no" /\ server[c] = label
ServerEnters(c, label) == server' = [server EXCEPT ![c] = label]

-----------------------------------------------------------------------------
\* Get and, in it, GetViaMesosphere and GetViaIpcTrick; mesosphere says
\* whether the kernel answers, delivers whether it takes the message.

\* Mutant: the handle is fetched anew each time.
GetUncached(c, mesosphere) ==
  /\ In(c, "get")
  /\ IF mesosphere THEN handle' = Ours /\ Enter(c, "return")
     ELSE handle' \in {Invalid, Leftover} /\ Enter(c, "session")
  /\ UNCHANGED <<server, request, word3, got, exchanges, fault>>

\* svcGetInfo stores X1 in s_Handle, also when it fails.
Get(c, mesosphere) ==
  /\ In(c, "get")
  /\ IF handle # Invalid THEN Enter(c, "return") /\ UNCHANGED handle
     ELSE IF mesosphere THEN handle' = Ours /\ Enter(c, "return")
     ELSE handle' \in {Invalid, Leftover} /\ Enter(c, "session")
  /\ UNCHANGED <<server, request, word3, got, exchanges, fault>>

\* A session, a thread on our stack, and its start; each may be refused.
StartServer(c) ==
  /\ In(c, "session")
  /\ \/ /\ exchanges' = exchanges + 1
        /\ request' = [request EXCEPT ![c] = "none"]
        /\ ServerEnters(c, "clear")
        /\ Enter(c, "send")
        /\ UNCHANGED fault
     \/ /\ fault' = "NoThread"
        /\ UNCHANGED <<exchanges, request, server, client>>
  /\ UNCHANGED <<handle, word3, got>>

\* svcSendSyncRequest waits for a reply or for the end of the session; its
\* result is not looked at.
SendSyncRequest(c, delivers) ==
  /\ In(c, "send")
  /\ IF delivers
       THEN request' = [request EXCEPT ![c] = "sent"] /\ Enter(c, "sent")
       ELSE Enter(c, "close") /\ UNCHANGED request
  /\ UNCHANGED <<handle, server, word3, got, exchanges, fault>>

SessionClosed(c) ==
  /\ In(c, "sent") /\ request[c] = "closed"
  /\ Enter(c, "close")
  /\ UNCHANGED <<handle, server, request, word3, got, exchanges, fault>>

CloseClient(c) ==
  /\ In(c, "close")
  /\ request' = [request EXCEPT ![c] = "closed"]
  /\ Enter(c, "wait")
  /\ UNCHANGED <<handle, server, word3, got, exchanges, fault>>

\* Mutant: the thread is not waited for.
WaitNot(c) ==
  /\ In(c, "wait")
  /\ Enter(c, "return")
  /\ UNCHANGED <<handle, server, request, word3, got, exchanges, fault>>

\* svcWaitSynchronizationSingle on the thread, then its handle is closed.
Wait(c) ==
  /\ In(c, "wait") /\ server[c] = "ended"
  /\ Enter(c, "return")
  /\ UNCHANGED <<handle, server, request, word3, got, exchanges, fault>>

Return(c) ==
  /\ In(c, "return")
  /\ got' = [got EXCEPT ![c] = handle]
  /\ Enter(c, "returned")
  /\ UNCHANGED <<handle, server, request, word3, exchanges, fault>>

-----------------------------------------------------------------------------
\* ReceiveProcessHandleThreadMain.

ClearTls(c) ==
  /\ ServerIn(c, "clear")
  /\ word3' = [word3 EXCEPT ![c] = Invalid]
  /\ ServerEnters(c, "receive")
  /\ UNCHANGED <<handle, client, request, got, exchanges, fault>>

\* Mutant: the result of svcReplyAndReceive is not looked at.
ReplyAndReceiveAnyhow(c) ==
  /\ ServerIn(c, "receive")
  /\ request[c] \in {"sent", "closed"}
  /\ word3' = [word3 EXCEPT ![c] = IF request[c] = "sent" THEN Ours ELSE @]
  /\ ServerEnters(c, "store")
  /\ UNCHANGED <<handle, client, request, got, exchanges, fault>>

\* The kernel puts a handle where the message had CUR_PROCESS_HANDLE; a
\* session without its other end is an error, and that aborts.
ReplyAndReceive(c) ==
  /\ ServerIn(c, "receive")
  /\ \/ /\ request[c] = "sent"
        /\ request' = [request EXCEPT ![c] = "taken"]
        /\ word3' = [word3 EXCEPT ![c] = Ours]
        /\ ServerEnters(c, "store")
        /\ UNCHANGED fault
     \/ /\ request[c] = "closed"
        /\ fault' = "SessionClosed"
        /\ UNCHANGED <<request, word3, server>>
  /\ UNCHANGED <<handle, client, got, exchanges>>

SetHandle(c) ==
  /\ ServerIn(c, "store")
  /\ handle' = word3[c]
  /\ ServerEnters(c, "close")
  /\ UNCHANGED <<client, request, word3, got, exchanges, fault>>

\* Mutant: the session is left open.
CloseServerNot(c) ==
  /\ ServerIn(c, "close")
  /\ ServerEnters(c, "exit")
  /\ UNCHANGED <<handle, client, request, word3, got, exchanges, fault>>

CloseServer(c) ==
  /\ ServerIn(c, "close")
  /\ request' = [request EXCEPT ![c] = "closed"]
  /\ ServerEnters(c, "exit")
  /\ UNCHANGED <<handle, client, word3, got, exchanges, fault>>

ExitThread(c) ==
  /\ ServerIn(c, "exit")
  /\ ServerEnters(c, "ended")
  /\ UNCHANGED <<handle, client, request, word3, got, exchanges, fault>>

-----------------------------------------------------------------------------
ClientStep(c, mesosphere, delivers) ==
  \/ Get(c, mesosphere) \/ StartServer(c) \/ SendSyncRequest(c, delivers)
  \/ SessionClosed(c) \/ CloseClient(c) \/ Wait(c) \/ Return(c)
ServerStep(c) ==
  \/ ClearTls(c) \/ ReplyAndReceive(c) \/ SetHandle(c) \/ CloseServer(c) \/ ExitThread(c)

(* What Get returns is a handle of this process, whatever svcGetInfo left   *)
(* in s_Handle and although nobody asks whether the message was delivered.  *)
HandleIsOurs == \A c \in Clients : client[c] = "returned" => got[c] = Ours

(* The message goes round once in the life of the process: the handle is    *)
(* there before a second thread can ask for it.                             *)
ExchangedOnce == exchanges <= 1

(* The receiving thread never runs after the function whose stack it is on  *)
(* has gone on.                                                             *)
ServerOnLiveStack ==
  \A c \in Clients : server[c] \notin {"none", "ended"} =>
    client[c] \in {"send", "sent", "close", "wait"}
=============================================================================
