---------------------------- MODULE Boot_proofs ----------------------------
(***************************************************************************)
(* Start-up, for any number of threads, any address space, any kernel and  *)
(* any size of the module table.                                           *)
(*                                                                         *)
(* The process handle: Get returns ours, the exchange takes place at most  *)
(* once, and its thread does not outlive the function whose stack it runs  *)
(* on.  Only the loader runs until start-up is over, and it needs the      *)
(* handle for the first alias, the patcher's.  What the two ends of the    *)
(* session can be doing then is Phase; afterwards the handle is there, and *)
(* nobody asks the kernel again (Exchange).                                *)
(*                                                                         *)
(* Then FindModules (ModulesFound), the regions (RegionsAgree), and that an *)
(* ordinary process starts (OrdinaryStarts), which rests on all of these.  *)
(***************************************************************************)
EXTENDS Boot, FiniteSetTheorems, TLAPS

Early == {"modules", "regions", "virtmem"}
Later == {"arrays", "hookjit", "inlinejit", "mainhook", "branch", "gfxhooks", "drawfunc",
          "running"}
Quick == {"out", "get", "return", "returned"}   \* where Get is without an exchange

HandleTypes ==
  /\ handle \in {Invalid, Ours, Leftover}
  /\ client \in [Clients -> Quick \cup {"session", "send", "sent", "close", "wait"}]
  /\ server \in [Clients -> {"none", "clear", "receive", "store", "close", "exit", "ended"}]
  /\ request \in [Clients -> {"none", "sent", "taken", "closed"}]
  /\ word3 \in [Clients -> {Invalid, Ours, Leftover}]
  /\ got \in [Clients -> {Invalid, Ours, Leftover}]
  /\ exchanges \in {0, 1}
  /\ step \in Early \cup {"patcher"} \cup Later

\* The two ends of the session: client c, its server and the message.
Waits(c) == server[c] \in {"clear", "receive"}
Replied(c) == request[c] = "closed" /\ server[c] \in {"exit", "ended"} /\ handle = Ours

Phase(c) ==
  \/ client[c] \in {"out", "get"} /\ server[c] = "none" /\ exchanges = 0 /\ handle = Invalid
  \/ client[c] = "session" /\ server[c] = "none" /\ exchanges = 0
  \/ client[c] = "send" /\ Waits(c) /\ request[c] = "none"
  \/ client[c] = "sent" /\ Waits(c) /\ request[c] = "sent"
  \/ client[c] = "sent" /\ server[c] = "store" /\ request[c] = "taken" /\ word3[c] = Ours
  \/ client[c] = "sent" /\ server[c] = "close" /\ request[c] = "taken" /\ handle = Ours
  \/ client[c] \in {"sent", "close", "wait"} /\ Replied(c)
  \/ client[c] = "close" /\ Waits(c) /\ request[c] = "none"
  \/ client[c] = "wait" /\ Waits(c) /\ request[c] = "closed"
  \/ client[c] \in {"return", "returned"} /\ server[c] \in {"none", "ended"} /\ handle = Ours

Exchange ==
  /\ step \in Early =>
       client[Loader] = "out" /\ server[Loader] = "none" /\ exchanges = 0 /\ handle = Invalid
  /\ step = "patcher" => Phase(Loader)
  /\ step \in Later =>
       /\ handle = Ours
       /\ client[Loader] \in Quick /\ server[Loader] \in {"none", "ended"}
       /\ client[Loader] # "out" => step \in AliasSteps
  /\ \A c \in Clients \ {Loader} :
       client[c] \in Quick /\ server[c] = "none" /\ (client[c] # "out" => step = "running")
  /\ \A c \in Clients : client[c] = "returned" => got[c] = Ours

HandleInv == HandleTypes /\ Exchange

LEMMA NextStep ==
  /\ Done("modules") => step' = "regions"
  /\ Done("regions") => step' = "virtmem"
  /\ Done("virtmem") => step' = "patcher"
  /\ \A s \in {"patcher", "arrays", "hookjit", "inlinejit", "mainhook", "branch", "gfxhooks",
               "drawfunc"} :
       Done(s) => step' \in Later /\ (step' = "running" <=> s = "drawfunc")
<1> DEFINE num(s) == CHOOSE i \in DOMAIN Steps : Steps[i] = s
<1>1. \A s : Done(s) => step' = Steps[num(s) + 1]
  BY DEF Done
<1>2. DOMAIN Steps = 1 .. 12
  BY DEF Steps
<1>3. /\ Steps[1] = "modules" /\ Steps[2] = "regions" /\ Steps[3] = "virtmem"
      /\ Steps[4] = "patcher" /\ Steps[5] = "arrays" /\ Steps[6] = "hookjit"
      /\ Steps[7] = "inlinejit" /\ Steps[8] = "mainhook" /\ Steps[9] = "branch"
      /\ Steps[10] = "gfxhooks" /\ Steps[11] = "drawfunc" /\ Steps[12] = "running"
  BY DEF Steps
<1>4. \A s : (\E i \in 1 .. 12 : Steps[i] = s) => num(s) \in 1 .. 12 /\ Steps[num(s)] = s
  BY <1>2
<1> HIDE DEF num
<1>5. num("modules") = 1
  <2>1. num("modules") \in 1 .. 12 /\ Steps[num("modules")] = "modules"
    BY <1>3, <1>4
  <2> QED BY <2>1, <1>3
<1>6. num("regions") = 2
  <2>1. num("regions") \in 1 .. 12 /\ Steps[num("regions")] = "regions"
    BY <1>3, <1>4
  <2> QED BY <2>1, <1>3
<1>7. num("virtmem") = 3
  <2>1. num("virtmem") \in 1 .. 12 /\ Steps[num("virtmem")] = "virtmem"
    BY <1>3, <1>4
  <2> QED BY <2>1, <1>3
<1>8. ASSUME NEW s \in {"patcher", "arrays", "hookjit", "inlinejit", "mainhook", "branch",
                        "gfxhooks", "drawfunc"}
      PROVE  num(s) \in 4 .. 11 /\ (num(s) = 11 <=> s = "drawfunc")
  <2>1. \E i \in 1 .. 12 : Steps[i] = s
    BY <1>3
  <2>2. num(s) \in 1 .. 12 /\ Steps[num(s)] = s
    BY <1>4, <2>1
  <2> QED BY <2>2, <1>3
<1>9. \A n \in 4 .. 11 : Steps[n + 1] \in Later /\ (Steps[n + 1] = "running" <=> n = 11)
  BY <1>3 DEF Later
<1> QED BY <1>1, <1>3, <1>5, <1>6, <1>7, <1>8, <1>9

-----------------------------------------------------------------------------
LEMMA HandleInvInit == Init => HandleInv
<1> USE BootAssumption
DEF Init, HandleInit, HandleInv, HandleTypes, Exchange, Early, Later, Quick, Steps
<1> SUFFICES ASSUME Init PROVE HandleInv
  OBVIOUS
<1>1. step = "modules"
  OBVIOUS
<1>2. HandleTypes
  BY <1>1
<1> QED BY <1>1, <1>2

\* Steps of start-up other than the construction of an alias.
LEMMA HandleInvStartUp ==
  ASSUME HandleInv, Loader \in Clients,
         FindModules \/ InitRegions \/ InitVirtmem \/ InitArray \/ BranchInst \/ AddDrawFunc
  PROVE  HandleInv'
<1> USE DEF HandleInv, HandleTypes, Exchange
<1>1. UNCHANGED handleVars
  BY DEF FindModules, InitRegions, InitVirtmem, InitArray, BranchInst, AddDrawFunc
<1>2. UNCHANGED <<handle, client, server, request, word3, got, exchanges>>
  BY <1>1 DEF handleVars
<1>3. CASE UNCHANGED step
  BY <1>2, <1>3 DEF Phase, Waits, Replied
<1>4. CASE (step = "modules" /\ Done("modules")) \/ (step = "regions" /\ Done("regions"))
  <2>1. step' \in Early /\ step' # "patcher" /\ step \in Early
    BY <1>4, NextStep DEF Early
  <2> QED BY <1>2, <2>1 DEF Early, Later
<1>5. CASE step = "virtmem" /\ Done("virtmem")
  <2>1. step' = "patcher" /\ step \in Early
    BY <1>5, NextStep DEF Early
  <2>2. Phase(Loader)'
    BY <1>2, <2>1 DEF Phase
  <2> QED BY <1>2, <2>1, <2>2 DEF Early, Later
<1>6. ASSUME NEW s \in {"arrays", "branch", "drawfunc"}, step = s, Done(s)
      PROVE  HandleInv'
  <2>1. step \in Later /\ step \notin AliasSteps /\ step # "running"
    BY <1>6 DEF Later, AliasSteps
  <2>2. step' \in Later
    BY <1>6, NextStep
  <2>3. client[Loader] = "out" /\ \A c \in Clients \ {Loader} : client[c] = "out"
    BY <2>1
  <2> QED BY <1>2, <2>1, <2>2, <2>3 DEF Early, Later
<1>7. \/ UNCHANGED step
      \/ step = "modules" /\ Done("modules")
      \/ step = "regions" /\ Done("regions")
      \/ step = "virtmem" /\ Done("virtmem")
      \/ \E s \in {"arrays", "branch", "drawfunc"} : step = s /\ Done(s)
  BY DEF FindModules, InitRegions, InitVirtmem, InitArray, BranchInst, AddDrawFunc, Doing, Fail
<1> QED BY <1>3, <1>4, <1>5, <1>6, <1>7

LEMMA HandleInvFindSpace ==
  ASSUME HandleInv, BootAssumption, NEW c \in Clients, FindSpace(c)
  PROVE  HandleInv'
<1> USE DEF HandleInv, HandleTypes, Exchange
<1>1. UNCHANGED <<handle, server, request, word3, got, exchanges, step>>
  BY DEF FindSpace, bootVars
<1>2. CASE UNCHANGED client
  BY <1>1, <1>2 DEF Phase, Waits, Replied
<1>3. CASE Enter(c, "get")
  <2>1. client' = [client EXCEPT ![c] = "get"]
    BY <1>3 DEF Enter
  <2>2. client[c] = "out" /\ Constructing(c)
    BY DEF FindSpace, In
  <2>3. HandleTypes'
    BY <1>1, <2>1 DEF Quick
  <2>4. CASE c = Loader
    <3>1. step \in AliasSteps /\ step \notin Early
      BY <2>2, <2>4 DEF Constructing, AliasSteps, Early
    <3>2. step = "patcher" => Phase(Loader)'
      BY <1>1, <2>1, <2>2, <2>4 DEF Phase, Waits, Replied
    <3> QED BY <1>1, <2>1, <2>3, <2>4, <3>1, <3>2, BootAssumption DEF Quick
  <2>5. CASE c # Loader
    <3>1. step = "running" /\ step # "patcher" /\ step \notin Early
      BY <2>2, <2>5 DEF Constructing, Early
    <3> QED BY <1>1, <2>1, <2>3, <2>5, <3>1, BootAssumption DEF Quick
  <2> QED BY <2>4, <2>5
<1> QED BY <1>2, <1>3 DEF FindSpace

LEMMA HandleInvMap ==
  ASSUME HandleInv, BootAssumption, NEW c \in Clients, Map(c)
  PROVE  HandleInv'
<1> USE DEF HandleInv, HandleTypes, Exchange
<1>1. UNCHANGED <<handle, server, request, word3, got, exchanges>> /\ client[c] = "returned"
  BY DEF Map, In
<1>2. CASE UNCHANGED <<client, step>>
  BY <1>1, <1>2 DEF Phase, Waits, Replied
<1>3. CASE Enter(c, "out")
  <2>1. client' = [client EXCEPT ![c] = "out"]
    BY <1>3 DEF Enter
  <2>2. CASE c # Loader
    <3>1. UNCHANGED step
      BY <1>1, <1>3, <2>2 DEF Map, Fail
    <3>2. step = "running"
      BY <1>1, <2>2
    <3> QED BY <1>1, <2>1, <2>2, <3>1, <3>2, BootAssumption DEF Quick, Early
  <2>3. CASE c = Loader
    <3>1. step \in {"patcher", "hookjit", "inlinejit", "mainhook", "gfxhooks"}
      BY <1>1, <2>3 DEF AliasSteps, Early, Later
    <3>2. handle = Ours /\ server[Loader] \in {"none", "ended"}
      BY <1>1, <2>3, <3>1 DEF Phase, Replied, Later
    <3>3. \A d \in Clients \ {Loader} : client[d] = "out"
      BY <3>1
    <3>4. step' \in Later
      <4>1. got[c] = Ours
        BY <1>1
      <4>2. Done(step)
        BY <2>3, <4>1 DEF Map
      <4> QED BY <3>1, <4>2, NextStep
    <3> QED BY <1>1, <2>1, <2>3, <3>2, <3>3, <3>4, BootAssumption DEF Quick, Early, Later
  <2> QED BY <2>2, <2>3
<1> QED BY <1>2, <1>3 DEF Map, Fail

-----------------------------------------------------------------------------
\* Get and the server.

\* A handle that is there is returned, whoever asks.
LEMMA HandleInvQuick ==
  ASSUME HandleInv, BootAssumption, ProcHandleAssumption, NEW c \in Clients,
         step # "patcher", UNCHANGED step,
         ClientStep(c, kernel.mesosphere, kernel.delivers)
  PROVE  HandleInv'
<1> USE DEF HandleInv, HandleTypes, Exchange
<1>1. client[c] # "out"
  BY DEF ClientStep, Get, StartServer, SendSyncRequest, SessionClosed, CloseClient, Wait, Return, In
<1>2. step \in Later /\ handle = Ours /\ client[c] \in Quick
  BY <1>1, BootAssumption DEF Later, Early
<1>3. UNCHANGED <<handle, server, exchanges, request, word3>>
  BY <1>2, ProcHandleAssumption
  DEF ClientStep, Get, StartServer, SendSyncRequest, SessionClosed, CloseClient, Wait, Return, In, Quick
<1>4. \/ client' = [client EXCEPT ![c] = "return"] /\ UNCHANGED got
      \/ client' = [client EXCEPT ![c] = "returned"] /\ got' = [got EXCEPT ![c] = handle]
  BY <1>2, ProcHandleAssumption
  DEF ClientStep, Get, StartServer, SendSyncRequest, SessionClosed, CloseClient, Wait, Return, In,
      Quick, Enter
<1>5. step \notin Early
  BY <1>2 DEF Early, Later
<1>6. HandleTypes'
  BY <1>2, <1>3, <1>4 DEF Quick
<1>7. \A d \in Clients : d # c => client'[d] = client[d] /\ got'[d] = got[d]
  BY <1>4
<1>8. client'[c] \in {"return", "returned"} /\ (client'[c] = "returned" => got'[c] = Ours)
  BY <1>2, <1>4
<1>9. c = Loader => step \in AliasSteps
  BY <1>1, <1>2
<1>10. c # Loader => step = "running"
  BY <1>1
<1> QED
  BY <1>1, <1>2, <1>3, <1>5, <1>6, <1>7, <1>8, <1>9, <1>10, BootAssumption DEF Quick

\* While the patcher's alias is constructed only the loader and its server run.
LEMMA HandleInvClient ==
  ASSUME HandleInv, BootAssumption, ProcHandleAssumption, NEW c \in Clients,
         step = "patcher", UNCHANGED step,
         ClientStep(c, kernel.mesosphere, kernel.delivers)
  PROVE  HandleInv'
<1> USE DEF HandleInv, HandleTypes, Exchange
<1>1. client[c] # "out"
  BY DEF ClientStep, Get, StartServer, SendSyncRequest, SessionClosed, CloseClient, Wait, Return, In
<1>2. c = Loader /\ step \notin Early \cup Later
  BY <1>1 DEF Early, Later
<1>3. ASSUME HandleTypes', Phase(c)', client'[c] = "returned" => got'[c] = Ours,
             \A d \in Clients \ {c} : client'[d] = client[d] /\ server'[d] = server[d]
                                      /\ got'[d] = got[d]
      PROVE  HandleInv'
  BY <1>2, <1>3, BootAssumption
<1>4. ASSUME NEW l \in {"return", "session", "sent", "close", "wait", "returned", "send"},
             Enter(c, l)
      PROVE  /\ client' \in [Clients -> Quick \cup {"session", "send", "sent", "close", "wait"}]
             /\ client'[c] = l /\ \A d \in Clients \ {c} : client'[d] = client[d]
  BY <1>4 DEF Enter, Quick
<1>5. CASE Get(c, kernel.mesosphere)
  <2>1. client[c] = "get" /\ server[c] = "none" /\ handle = Invalid /\ exchanges = 0
    BY <1>2, <1>5 DEF Get, In, Phase
  <2>2. UNCHANGED <<server, request, word3, got, exchanges>>
    BY <1>5 DEF Get
  <2>3. \/ handle' = Ours /\ Enter(c, "return")
        \/ handle' \in {Invalid, Leftover} /\ Enter(c, "session")
    BY <1>5, <2>1 DEF Get
  <2>4. CASE handle' = Ours /\ Enter(c, "return")
    BY <1>3, <1>4, <2>1, <2>2, <2>4 DEF Phase
  <2>5. CASE handle' \in {Invalid, Leftover} /\ Enter(c, "session")
    BY <1>3, <1>4, <2>1, <2>2, <2>5 DEF Phase
  <2> QED BY <2>3, <2>4, <2>5
<1>6. CASE StartServer(c)
  <2>1. client[c] = "session" /\ server[c] = "none" /\ exchanges = 0
    BY <1>2, <1>6 DEF StartServer, In, Phase
  <2>2. CASE UNCHANGED <<exchanges, request, server, client>>
    <3>1. UNCHANGED <<handle, word3, got>>
      BY <1>6 DEF StartServer
    <3> QED BY <1>3, <2>1, <2>2, <3>1 DEF Phase
  <2>3. CASE /\ exchanges' = exchanges + 1
             /\ request' = [request EXCEPT ![c] = "none"]
             /\ ServerEnters(c, "clear")
             /\ Enter(c, "send")
    <3>1. UNCHANGED <<handle, word3, got>>
      BY <1>6 DEF StartServer
    <3>2. server' = [server EXCEPT ![c] = "clear"]
      BY <2>3 DEF ServerEnters
    <3> QED BY <1>3, <1>4, <2>1, <2>3, <3>1, <3>2 DEF Phase, Waits
  <2> QED BY <1>6, <2>2, <2>3 DEF StartServer
<1>7. CASE SendSyncRequest(c, kernel.delivers)
  <2>1. client[c] = "send" /\ Waits(c) /\ request[c] = "none"
    BY <1>2, <1>7 DEF SendSyncRequest, In, Phase
  <2>2. UNCHANGED <<handle, server, word3, got, exchanges>>
    BY <1>7 DEF SendSyncRequest
  <2>3. CASE request' = [request EXCEPT ![c] = "sent"] /\ Enter(c, "sent")
    BY <1>3, <1>4, <2>1, <2>2, <2>3 DEF Phase, Waits
  <2>4. CASE Enter(c, "close") /\ UNCHANGED request
    BY <1>3, <1>4, <2>1, <2>2, <2>4 DEF Phase, Waits
  <2> QED BY <1>7, <2>3, <2>4 DEF SendSyncRequest
<1>8. CASE SessionClosed(c)
  <2>1. client[c] = "sent" /\ request[c] = "closed" /\ Enter(c, "close")
        /\ UNCHANGED <<handle, server, request, word3, got, exchanges>>
    BY <1>8 DEF SessionClosed, In
  <2>2. Replied(c)
    BY <1>2, <2>1 DEF Phase
  <2> QED BY <1>3, <1>4, <2>1, <2>2 DEF Phase, Replied
<1>9. CASE CloseClient(c)
  <2>1. client[c] = "close" /\ request' = [request EXCEPT ![c] = "closed"] /\ Enter(c, "wait")
        /\ UNCHANGED <<handle, server, word3, got, exchanges>>
    BY <1>9 DEF CloseClient, In
  <2>2. Replied(c) \/ Waits(c)
    BY <1>2, <2>1 DEF Phase
  <2> QED BY <1>3, <1>4, <2>1, <2>2 DEF Phase, Replied, Waits
<1>10. CASE Wait(c)
  <2>1. client[c] = "wait" /\ server[c] = "ended" /\ Enter(c, "return")
        /\ UNCHANGED <<handle, server, request, word3, got, exchanges>>
    BY <1>10 DEF Wait, In
  <2>2. handle = Ours
    BY <1>2, <2>1 DEF Phase, Replied, Waits
  <2> QED BY <1>3, <1>4, <2>1, <2>2 DEF Phase
<1>11. CASE Return(c)
  <2>1. client[c] = "return" /\ got' = [got EXCEPT ![c] = handle] /\ Enter(c, "returned")
        /\ UNCHANGED <<handle, server, request, word3, exchanges>>
    BY <1>11 DEF Return, In
  <2>2. handle = Ours /\ server[c] \in {"none", "ended"}
    BY <1>2, <2>1 DEF Phase
  <2> QED BY <1>3, <1>4, <2>1, <2>2 DEF Phase
<1> QED BY <1>5, <1>6, <1>7, <1>8, <1>9, <1>10, <1>11 DEF ClientStep

LEMMA HandleInvServer ==
  ASSUME HandleInv, BootAssumption, NEW c \in Clients, UNCHANGED step, ServerStep(c)
  PROVE  HandleInv'
<1> USE DEF HandleInv, HandleTypes, Exchange
<1>1. server[c] \notin {"none", "ended"}
  BY DEF ServerStep, ClearTls, ReplyAndReceive, SetHandle, CloseServer, ExitThread, ServerIn
<1>2. c = Loader /\ step = "patcher" /\ step \notin Early \cup Later
  BY <1>1 DEF Early, Later
<1>3. UNCHANGED <<client, got, exchanges>>
  BY DEF ServerStep, ClearTls, ReplyAndReceive, SetHandle, CloseServer, ExitThread
<1>4. ASSUME HandleTypes', Phase(c)',
             \A d \in Clients \ {c} : server'[d] = server[d],
             client[c] # "returned"
      PROVE  HandleInv'
  BY <1>2, <1>3, <1>4, BootAssumption
<1>5. ASSUME NEW l \in {"receive", "store", "close", "exit", "ended"}, ServerEnters(c, l)
      PROVE  /\ server' \in [Clients -> {"none", "clear", "receive", "store", "close", "exit", "ended"}]
             /\ server'[c] = l /\ \A d \in Clients \ {c} : server'[d] = server[d]
  BY <1>5 DEF ServerEnters
<1>6. client[c] # "returned"
  BY <1>1, <1>2 DEF Phase
<1>7. CASE ClearTls(c)
  <2>1. Waits(c) /\ ServerEnters(c, "receive") /\ word3' = [word3 EXCEPT ![c] = Invalid]
        /\ UNCHANGED <<handle, request>>
    BY <1>7 DEF ClearTls, ServerIn, Waits
  <2>2. client[c] \in {"send", "sent", "close", "wait"}
    BY <1>2, <2>1 DEF Phase, Waits, Replied
  <2> QED BY <1>2, <1>3, <1>4, <1>5, <1>6, <2>1, <2>2 DEF Phase, Waits, Replied
<1>8. CASE ReplyAndReceive(c)
  <2>1. server[c] = "receive" /\ UNCHANGED handle
    BY <1>8 DEF ReplyAndReceive, ServerIn
  <2>2. CASE request[c] = "closed"
    <3>1. UNCHANGED <<request, word3, server>>
      BY <1>8, <2>2 DEF ReplyAndReceive
    <3> QED BY <1>2, <1>3, <1>4, <1>6, <2>1, <3>1 DEF Phase, Waits, Replied
  <2>3. CASE request[c] = "sent"
    <3>1. request' = [request EXCEPT ![c] = "taken"] /\ word3' = [word3 EXCEPT ![c] = Ours]
          /\ ServerEnters(c, "store")
      BY <1>8, <2>3 DEF ReplyAndReceive
    <3>2. client[c] = "sent"
      BY <1>2, <2>1, <2>3 DEF Phase, Waits, Replied
    <3> QED BY <1>3, <1>4, <1>5, <1>6, <2>1, <3>1, <3>2 DEF Phase
  <2> QED BY <1>8, <2>2, <2>3 DEF ReplyAndReceive
<1>9. CASE SetHandle(c)
  <2>1. server[c] = "store" /\ handle' = word3[c] /\ ServerEnters(c, "close")
        /\ UNCHANGED <<request, word3>>
    BY <1>9 DEF SetHandle, ServerIn
  <2>2. client[c] = "sent" /\ request[c] = "taken" /\ word3[c] = Ours
    BY <1>2, <2>1 DEF Phase, Waits, Replied
  <2> QED BY <1>3, <1>4, <1>5, <1>6, <2>1, <2>2 DEF Phase
<1>10. CASE CloseServer(c)
  <2>1. server[c] = "close" /\ request' = [request EXCEPT ![c] = "closed"]
        /\ ServerEnters(c, "exit") /\ UNCHANGED <<handle, word3>>
    BY <1>10 DEF CloseServer, ServerIn
  <2>2. client[c] = "sent" /\ handle = Ours
    BY <1>2, <2>1 DEF Phase, Waits, Replied
  <2> QED BY <1>3, <1>4, <1>5, <1>6, <2>1, <2>2 DEF Phase, Replied
<1>11. CASE ExitThread(c)
  <2>1. server[c] = "exit" /\ ServerEnters(c, "ended") /\ UNCHANGED <<handle, request, word3>>
    BY <1>11 DEF ExitThread, ServerIn
  <2>2. client[c] \in {"sent", "close", "wait"} /\ Replied(c)
    BY <1>2, <2>1 DEF Phase, Waits, Replied
  <2> QED BY <1>3, <1>4, <1>5, <1>6, <2>1, <2>2 DEF Phase, Replied
<1> QED BY <1>7, <1>8, <1>9, <1>10, <1>11 DEF ServerStep

LEMMA HandleInvStep == HandleInv /\ [Next]_vars => HandleInv'
<1> SUFFICES ASSUME HandleInv, [Next]_vars PROVE HandleInv'
  OBVIOUS
<1>1. CASE FindModules \/ InitRegions \/ InitVirtmem \/ InitArray \/ BranchInst \/ AddDrawFunc
  BY <1>1, HandleInvStartUp, BootAssumption DEF BootAssumption
<1>2. ASSUME NEW c \in Clients, FindSpace(c) \/ Map(c) PROVE HandleInv'
  BY <1>2, HandleInvFindSpace, HandleInvMap, BootAssumption
<1>3. ASSUME NEW c \in Clients, GetHandle(c) PROVE HandleInv'
  <2>1. UNCHANGED step
    BY <1>3 DEF GetHandle, bootVars
  <2> QED BY <1>3, <2>1, HandleInvQuick, HandleInvClient, HandleInvServer, BootAssumption,
             ProcHandleAssumption DEF GetHandle
<1>4. CASE UNCHANGED vars
  BY <1>4 DEF vars, handleVars, bootVars, HandleInv, HandleTypes, Exchange, Phase, Waits, Replied
<1> QED
  BY <1>1, <1>2, <1>3, <1>4, BootAssumption DEF Next, StartUp, Hooked, BootAssumption

(* Get returns a handle of this process to every thread, also where the     *)
(* kernel does not tell, leaves anything in the result register, refuses    *)
(* the message or lets no thread be made.                                   *)
THEOREM GetReturnsOurs == Spec => []HandleIsOurs
<1>1. HandleInv => HandleIsOurs
  BY DEF HandleInv, Exchange, HandleIsOurs
<1> QED BY <1>1, HandleInvInit, HandleInvStep, PTL DEF Spec

(* However many threads construct aliases, the exchange takes place once.   *)
THEOREM OneExchange == Spec => []ExchangedOnce
<1>1. HandleInv => ExchangedOnce
  BY DEF HandleInv, HandleTypes, ExchangedOnce
<1> QED BY <1>1, HandleInvInit, HandleInvStep, PTL DEF Spec

(* The server runs only while the function that lent it its stack waits.    *)
THEOREM BorrowedStackLives == Spec => []ServerOnLiveStack
<1>1. HandleInv => ServerOnLiveStack
  BY DEF HandleInv, HandleTypes, Exchange, Phase, Waits, Replied, Early, Later, ServerOnLiveStack
<1> QED BY <1>1, HandleInvInit, HandleInvStep, PTL DEF Spec

-----------------------------------------------------------------------------
(* FindModules.  While it scans, its state tells what the last one or two    *)
(* regions were, a module that has begun is either being followed or         *)
(* shadowed by a fragment, and the table ends before what is being followed. *)
(* The region at address 0, which the wrapped loop sees again, is not of a   *)
(* module, so the last round changes nothing.                                *)

ModuleInfos == [text : Nat, rodata : Nat, data : Nat]
N == Len(space)

ScanTypes ==
  /\ space \in Seq(RegionKinds) /\ N > 1 /\ space[1] = "other"
  /\ scanning \in BOOLEAN /\ offset \in 0 .. N
  /\ modules \in Seq(ModuleInfos)
  /\ cur \in [text : Nat, rodata : Nat]
  /\ selfIdx \in Int

Fragment ==
  /\ state \in {"text", "rodata", "data"}
  /\ state # "text" => scanning /\ offset > 1
  /\ state = "rodata" => space[offset] = "text" /\ cur.text = offset
  /\ state = "data" => /\ space[offset] = "rodata" /\ space[offset - 1] = "text"
                       /\ cur.text = offset - 1 /\ cur.rodata = offset

\* The last region the table may use.
Limit == CASE state = "text" -> offset [] state = "rodata" -> offset - 1 [] OTHER -> offset - 2

Tabled ==
  /\ \A n \in 1 .. Len(modules) :
       /\ IsModule(modules[n].text)
       /\ modules[n].rodata = modules[n].text + 1
       /\ modules[n].data = modules[n].text + 2
       /\ n > 1 => modules[n - 1].data < modules[n].text
       /\ scanning => modules[n].data <= Limit
  /\ selfIdx # -1 => selfIdx + 1 \in 1 .. Len(modules) /\ modules[selfIdx + 1].text = self

InTable(i) == \E n \in 1 .. Len(modules) : modules[n].text = i

Covered ==
  \A i \in 1 .. N : IsModule(i) /\ ~Shadowed(i) =>
    /\ i + 2 <= offset \/ ~scanning => InTable(i)
    /\ scanning /\ offset = i => state = "rodata"
    /\ scanning /\ offset = i + 1 => state = "data"

ScanInv == ScanTypes /\ Fragment /\ Tabled /\ Covered

LEMMA ScanInvInit == Init => ScanInv
<1> SUFFICES ASSUME Init PROVE ScanInv
  OBVIOUS
<1> USE MemLayoutAssumption DEF Init, LayoutInit
<1>1. ScanTypes
  BY DEF ScanTypes, N, NoModule, ModuleInfos
<1>2. Fragment /\ Tabled
  BY DEF Fragment, Tabled
<1>3. Covered
  BY <1>1 DEF Covered, ScanTypes
<1> QED BY <1>1, <1>2, <1>3 DEF ScanInv

LEMMA Appended ==
  ASSUME NEW S, NEW q \in Seq(S), NEW e \in S
  PROVE  /\ Append(q, e) \in Seq(S) /\ Len(Append(q, e)) = Len(q) + 1
         /\ \A n \in 1 .. Len(q) : Append(q, e)[n] = q[n]
         /\ Append(q, e)[Len(q) + 1] = e
OBVIOUS

LEMMA TableNumbers ==
  ASSUME ScanTypes, NEW n \in 1 .. Len(modules)
  PROVE  modules[n].text \in Nat /\ modules[n].rodata \in Nat /\ modules[n].data \in Nat
<1>1. modules[n] \in ModuleInfos
  BY DEF ScanTypes
<1> QED BY <1>1 DEF ModuleInfos

\* The space stays, and with it what a module is.
LEMMA SameSpace ==
  ASSUME UNCHANGED space
  PROVE  /\ N' = N
         /\ \A i : IsModule(i)' = IsModule(i)
         /\ \A i : Shadowed(i)' = Shadowed(i)
BY DEF N, IsModule, Shadowed

\* A table nothing is added to stays sound while the limit rises.
LEMMA TableStays ==
  ASSUME ScanTypes, Tabled, UNCHANGED <<space, self, modules, selfIdx>>,
         NEW old \in Int, NEW new \in Int, Limit = old, Limit' = new,
         scanning' => scanning /\ old <= new
  PROVE  Tabled'
<1>1. \A i : IsModule(i)' = IsModule(i)
  BY SameSpace
<1>2. \A n \in 1 .. Len(modules) : scanning' => modules[n].data <= new
  <2> SUFFICES ASSUME NEW n \in 1 .. Len(modules), scanning' PROVE modules[n].data <= new
    OBVIOUS
  <2>1. modules[n].data <= old
    BY DEF Tabled
  <2> QED BY <2>1, TableNumbers
<1> QED BY <1>1, <1>2 DEF Tabled

\* What one round does when the address space has not wrapped: o is the region
\* it looks at.
LEMMA Round ==
  ASSUME ScanTypes, Query, offset # N
  PROVE  /\ scanning /\ Following = offset + 1 /\ offset + 1 \in 1 .. N
         /\ offset' = offset + 1 /\ scanning' = TRUE /\ UNCHANGED <<space, self>>
<1>1. Following = offset + 1 /\ offset \in Int
  BY DEF ScanTypes, Following, N
<1>2. scanning /\ offset' = Following /\ scanning' = (Following > offset)
      /\ UNCHANGED <<space, self>>
  BY DEF Query
<1>3. (Following > offset) = TRUE
  BY <1>1
<1>4. offset + 1 \in 1 .. N
  BY DEF ScanTypes, N
<1> QED BY <1>1, <1>2, <1>3, <1>4

\* No module is lost where nothing is added: its text is followed, its rodata
\* is followed, and its data would have been added.
LEMMA CoverStays ==
  ASSUME ScanTypes, Fragment, Covered, Query, offset # N, UNCHANGED modules,
         state = "text" /\ space[offset + 1] = "text" => state' = "rodata",
         state = "rodata" /\ space[offset + 1] = "rodata" => state' = "data",
         ~ (state = "data" /\ space[offset + 1] = "data")
  PROVE  Covered'
<1>1. /\ scanning /\ offset + 1 \in 1 .. N /\ offset \in Int
      /\ offset' = offset + 1 /\ scanning' = TRUE /\ UNCHANGED space
  BY Round DEF ScanTypes
<1> SUFFICES ASSUME NEW i \in 1 .. N, IsModule(i), ~Shadowed(i)
             PROVE  /\ i + 2 <= offset + 1 => InTable(i)
                    /\ offset + 1 = i => state' = "rodata"
                    /\ offset + 1 = i + 1 => state' = "data"
  BY <1>1, SameSpace DEF Covered, InTable
<1>2. space[i] = "text" /\ space[i + 1] = "rodata" /\ space[i + 2] = "data"
  BY DEF IsModule
<1>3. i + 2 <= offset => InTable(i)
  BY DEF Covered
<1>4. i + 2 = offset + 1 => FALSE
  BY <1>1, <1>2 DEF Covered
<1>5. ASSUME offset + 1 = i PROVE state' = "rodata"
  <2>1. state = "text"
    BY <1>1, <1>5 DEF Fragment, Shadowed
  <2> QED BY <1>2, <1>5, <2>1
<1>6. ASSUME offset + 1 = i + 1 PROVE state' = "data"
  <2>1. state = "rodata"
    BY <1>1, <1>6 DEF Covered
  <2> QED BY <1>1, <1>2, <1>6, <2>1
<1> QED BY <1>1, <1>3, <1>4, <1>5, <1>6

-----------------------------------------------------------------------------
\* The round that sees the first region again.
LEMMA ScanWraps ==
  ASSUME ScanInv, Query, offset = N
  PROVE  ScanInv'
<1> USE DEF ScanInv
<1>1. Following = 1 /\ N \in Nat /\ N > 1 /\ space[1] = "other"
  BY DEF ScanTypes, Following, N
<1>2. scanning /\ offset' = 1 /\ scanning' = FALSE /\ UNCHANGED <<space, self>>
  <2>1. (Following > offset) = FALSE
    BY <1>1
  <2> QED BY <1>1, <2>1 DEF Query
<1>3. UNCHANGED <<modules, selfIdx>> /\ state' = "text" /\ cur' \in [text : Nat, rodata : Nat]
  <2>1. CASE FindText
    BY <1>1, <2>1 DEF FindText, ScanTypes
  <2>2. CASE FindRodata \/ FindData
    BY <1>1, <2>2 DEF FindRodata, FindData, Reset, NoModule
  <2> QED BY <2>1, <2>2 DEF Query
<1>4. ScanTypes'
  <2>1. N' = N
    BY <1>2, SameSpace
  <2>2. offset' \in 0 .. N
    BY <1>1, <1>2
  <2>3. scanning' \in BOOLEAN
    BY <1>2
  <2> QED BY <1>1, <1>2, <1>3, <2>1, <2>2, <2>3 DEF ScanTypes
<1>5. Fragment'
  BY <1>3 DEF Fragment
<1>6. Tabled'
  BY <1>2, <1>3, SameSpace DEF Tabled
<1>7. Covered'
  <2>1. \A i \in 1 .. N : IsModule(i) => i + 2 <= offset
    BY DEF IsModule, ScanTypes, N
  <2> QED BY <1>2, <1>3, <2>1, SameSpace DEF Covered, InTable
<1> QED BY <1>4, <1>5, <1>6, <1>7

LEMMA ScanText ==
  ASSUME ScanInv, Query, offset # N, FindText
  PROVE  ScanInv'
<1> USE DEF ScanInv
<1>1. /\ scanning /\ Following = offset + 1 /\ offset + 1 \in 1 .. N
      /\ offset' = offset + 1 /\ scanning' = TRUE /\ UNCHANGED <<space, self>>
  BY Round
<1>2. state = "text" /\ UNCHANGED <<modules, selfIdx>> /\ offset \in Nat
  BY DEF FindText, ScanTypes
<1>3. Limit = offset
  BY <1>2 DEF Limit
<1>4. CASE space[offset + 1] = "text"
  <2>1. state' = "rodata" /\ cur' = [NoModule EXCEPT !.text = offset + 1]
    BY <1>1, <1>4 DEF FindText
  <2>2. cur' = [text |-> offset + 1, rodata |-> 0]
    BY <2>1 DEF NoModule
  <2>3. ScanTypes'
    BY <1>1, <1>2, <2>2, SameSpace DEF ScanTypes
  <2>4. offset + 1 > 1
    BY <1>1, <1>2, <1>4 DEF ScanTypes
  <2>5. Fragment'
    BY <1>1, <1>4, <2>1, <2>2, <2>4 DEF Fragment
  <2>6. Limit' = offset
    BY <1>1, <1>2, <2>1 DEF Limit
  <2>7. Tabled'
    BY <1>1, <1>2, <1>3, <2>6, TableStays
  <2>8. Covered'
    BY <1>2, <2>1, CoverStays
  <2> QED BY <2>3, <2>5, <2>7, <2>8
<1>5. CASE space[offset + 1] # "text"
  <2>1. UNCHANGED <<state, cur>>
    BY <1>1, <1>5 DEF FindText
  <2>2. ScanTypes'
    BY <1>1, <1>2, <2>1, SameSpace DEF ScanTypes
  <2>3. Fragment'
    BY <1>2, <2>1 DEF Fragment
  <2>4. Limit' = offset + 1
    BY <1>1, <1>2, <2>1 DEF Limit
  <2>5. Tabled'
    BY <1>1, <1>2, <1>3, <2>4, TableStays
  <2>6. Covered'
    BY <1>2, <1>5, CoverStays
  <2> QED BY <2>2, <2>3, <2>5, <2>6
<1> QED BY <1>4, <1>5

LEMMA ScanRodata ==
  ASSUME ScanInv, Query, offset # N, FindRodata
  PROVE  ScanInv'
<1> USE DEF ScanInv
<1>1. /\ scanning /\ Following = offset + 1 /\ offset + 1 \in 1 .. N
      /\ offset' = offset + 1 /\ scanning' = TRUE /\ UNCHANGED <<space, self>>
  BY Round
<1>2. /\ state = "rodata" /\ UNCHANGED <<modules, selfIdx>> /\ offset \in Nat /\ offset > 1
      /\ space[offset] = "text" /\ cur.text = offset
  BY DEF FindRodata, ScanTypes, Fragment
<1>3. Limit = offset - 1
  BY <1>2 DEF Limit
<1>4. CASE space[offset + 1] = "rodata"
  <2>1. state' = "data" /\ cur' = [cur EXCEPT !.rodata = offset + 1]
    BY <1>1, <1>4 DEF FindRodata
  <2>2. cur' \in [text : Nat, rodata : Nat] /\ cur'.text = offset /\ cur'.rodata = offset + 1
    BY <1>2, <2>1 DEF ScanTypes
  <2>3. ScanTypes'
    BY <1>1, <1>2, <2>2, SameSpace DEF ScanTypes
  <2>4. Fragment'
    BY <1>1, <1>2, <1>4, <2>1, <2>2 DEF Fragment
  <2>5. Limit' = offset - 1
    BY <1>1, <1>2, <2>1 DEF Limit
  <2>6. Tabled'
    BY <1>1, <1>2, <1>3, <2>5, TableStays
  <2>7. Covered'
    BY <1>2, <2>1, CoverStays
  <2> QED BY <2>3, <2>4, <2>6, <2>7
<1>5. CASE space[offset + 1] # "rodata"
  <2>1. state' = "text" /\ cur' = NoModule
    BY <1>1, <1>5 DEF FindRodata, Reset
  <2>2. ScanTypes'
    BY <1>1, <1>2, <2>1, SameSpace DEF ScanTypes, NoModule
  <2>3. Fragment'
    BY <2>1 DEF Fragment
  <2>4. Limit' = offset + 1
    BY <1>1, <1>2, <2>1 DEF Limit
  <2>5. Tabled'
    BY <1>1, <1>2, <1>3, <2>4, TableStays
  <2>6. Covered'
    BY <1>2, <1>5, CoverStays
  <2> QED BY <2>2, <2>3, <2>5, <2>6
<1> QED BY <1>4, <1>5

LEMMA ScanData ==
  ASSUME ScanInv, Query, offset # N, FindData
  PROVE  ScanInv'
<1> USE DEF ScanInv
<1>1. /\ scanning /\ Following = offset + 1 /\ offset + 1 \in 1 .. N
      /\ offset' = offset + 1 /\ scanning' = TRUE /\ UNCHANGED <<space, self>>
  BY Round
<1>2. /\ state = "data" /\ state' = "text" /\ cur' = NoModule /\ offset \in Nat /\ offset > 1
      /\ space[offset] = "rodata" /\ space[offset - 1] = "text"
      /\ cur.text = offset - 1 /\ cur.rodata = offset
  BY DEF FindData, Reset, ScanTypes, Fragment
<1>3. Fragment' /\ Limit = offset - 2 /\ Limit' = offset + 1
  BY <1>1, <1>2 DEF Fragment, Limit
<1>4. CASE space[offset + 1] # "data"
  <2>1. UNCHANGED <<modules, selfIdx>>
    BY <1>1, <1>4 DEF FindData
  <2>2. ScanTypes'
    BY <1>1, <1>2, <2>1, SameSpace DEF ScanTypes, NoModule
  <2>3. Tabled'
    BY <1>1, <1>2, <1>3, <2>1, TableStays
  <2>4. Covered'
    BY <1>2, <1>4, <2>1, CoverStays
  <2> QED BY <1>3, <2>2, <2>3, <2>4
<1>5. CASE space[offset + 1] = "data"
  <2> DEFINE new == [text |-> offset - 1, rodata |-> offset, data |-> offset + 1]
  <2>1. /\ modules' = Append(modules, new)
        /\ selfIdx' = IF offset - 1 = self THEN Len(modules) ELSE selfIdx
    BY <1>1, <1>2, <1>5 DEF FindData
  <2>2. new \in ModuleInfos /\ modules \in Seq(ModuleInfos)
    BY <1>2 DEF ModuleInfos, ScanTypes
  <2>3. /\ modules' \in Seq(ModuleInfos) /\ Len(modules') = Len(modules) + 1
        /\ Len(modules) \in Nat
        /\ \A n \in 1 .. Len(modules) : modules'[n] = modules[n]
        /\ modules'[Len(modules) + 1] = new
    BY <2>1, <2>2, Appended
  <2>4. new.text = offset - 1 /\ new.rodata = offset /\ new.data = offset + 1
    OBVIOUS
  <2> HIDE DEF new
  <2>5. ScanTypes'
    BY <1>1, <1>2, <2>1, <2>3, SameSpace DEF ScanTypes, NoModule
  <2>6. IsModule(offset - 1)
    BY <1>1, <1>2, <1>5 DEF IsModule, N, ScanTypes
  <2>7. Tabled'
    <3>1. ASSUME NEW n \in 1 .. Len(modules')
          PROVE  /\ IsModule(modules'[n].text)
                 /\ modules'[n].rodata = modules'[n].text + 1
                 /\ modules'[n].data = modules'[n].text + 2
                 /\ n > 1 => modules'[n - 1].data < modules'[n].text
                 /\ modules'[n].data <= offset + 1
      <4>1. n > 1 => modules'[n - 1] = modules[n - 1] /\ n - 1 \in 1 .. Len(modules)
        BY <2>3
      <4>2. CASE n \in 1 .. Len(modules)
        <5>1. modules'[n] = modules[n] /\ modules[n].data \in Nat
          BY <2>3, <4>2, TableNumbers
        <5>2. modules[n].data <= offset - 2
          BY <1>1, <1>3, <4>2 DEF Tabled
        <5>3. /\ IsModule(modules[n].text)
              /\ modules[n].rodata = modules[n].text + 1
              /\ modules[n].data = modules[n].text + 2
              /\ n > 1 => modules[n - 1].data < modules[n].text
          BY <4>2 DEF Tabled
        <5>4. modules[n].data <= offset + 1
          BY <1>2, <5>1, <5>2
        <5> QED BY <4>1, <5>1, <5>3, <5>4
      <4>3. CASE n = Len(modules) + 1
        <5>1. modules'[n] = new
          BY <2>3, <4>3
        <5>2. n > 1 => modules[n - 1].data <= offset - 2 /\ modules[n - 1].data \in Nat
          BY <1>1, <1>3, <4>1, TableNumbers DEF Tabled
        <5> QED BY <1>2, <2>4, <2>6, <4>1, <5>1, <5>2
      <4> QED BY <2>3, <4>2, <4>3
    <3>2. selfIdx' # -1 => selfIdx' + 1 \in 1 .. Len(modules') /\ modules'[selfIdx' + 1].text = self
      BY <2>1, <2>3, <2>4 DEF Tabled, ScanTypes
    <3>3. \A i : IsModule(i)' = IsModule(i)
      BY <1>1, SameSpace
    <3> QED BY <1>1, <1>3, <3>1, <3>2, <3>3 DEF Tabled
  <2>8. Covered'
    <3>1. \A i : InTable(i) => InTable(i)'
      BY <2>3 DEF InTable
    <3>2. \A i : i = offset - 1 => InTable(i)'
      <4>1. Len(modules) + 1 \in 1 .. Len(modules') /\ modules'[Len(modules) + 1].text = offset - 1
        BY <2>3, <2>4
      <4> QED BY <1>1, <4>1 DEF InTable
    <3> SUFFICES ASSUME NEW i \in 1 .. N, IsModule(i), ~Shadowed(i)
                 PROVE  /\ i + 2 <= offset + 1 => InTable(i)'
                        /\ offset + 1 # i /\ offset + 1 # i + 1
      BY <1>1, SameSpace DEF Covered
    <3>3. space[i] = "text" /\ space[i + 1] = "rodata"
      BY DEF IsModule
    <3>4. i + 2 <= offset => InTable(i)
      BY DEF Covered
    <3>5. offset + 1 # i /\ offset + 1 # i + 1
      BY <1>2, <1>5, <3>3
    <3> QED BY <1>2, <3>1, <3>2, <3>4, <3>5
  <2> QED BY <1>3, <2>5, <2>7, <2>8
<1> QED BY <1>4, <1>5

LEMMA ScanInvStep == ScanInv /\ [Next]_vars => ScanInv'
<1> SUFFICES ASSUME ScanInv, [Next]_vars PROVE ScanInv'
  OBVIOUS
<1>1. CASE Query
  BY <1>1, ScanWraps, ScanText, ScanRodata, ScanData DEF Query
<1>2. CASE UNCHANGED <<space, self, scanVars>>
  <2>1. UNCHANGED <<space, self, scanning, offset, state, cur, modules, selfIdx>>
    BY <1>2 DEF scanVars
  <2> QED BY <2>1, SameSpace DEF ScanInv, ScanTypes, Fragment, Tabled, Covered, Limit, InTable
<1>3. CASE FindModules
  BY <1>1, <1>2, <1>3 DEF FindModules, layoutVars
<1>4. CASE InitRegions \/ InitVirtmem
  BY <1>2, <1>4 DEF InitRegions, InitVirtmem, FindRegions, VirtmemSetup, layoutVars
<1>5. CASE UNCHANGED layoutVars
  BY <1>2, <1>5 DEF layoutVars
<1>6. ASSUME NEW c \in Clients, FindSpace(c) \/ Map(c) \/ GetHandle(c) PROVE ScanInv'
  BY <1>5, <1>6 DEF FindSpace, Map, GetHandle
<1>7. CASE InitArray \/ BranchInst \/ AddDrawFunc
  BY <1>5, <1>7 DEF InitArray, BranchInst, AddDrawFunc
<1>8. CASE UNCHANGED vars
  BY <1>5, <1>8 DEF vars
<1> QED
  BY <1>3, <1>4, <1>6, <1>7, <1>8, BootAssumption DEF Next, StartUp, Hooked, BootAssumption

(* For every address space and every size of the table: FindModules tables  *)
(* modules of the process only, in order, misses none that it has passed    *)
(* but those behind a fragment, and takes for our own the one we are in.    *)
THEOREM ModulesAreFound == Spec => []ModulesFound
<1>1. ScanInv => ModulesFound
  <2> SUFFICES ASSUME ScanInv PROVE ModulesFound
    OBVIOUS
  <2>1. DOMAIN modules = 1 .. Len(modules) /\ DOMAIN space = 1 .. N
    BY DEF ScanInv, ScanTypes, N
  <2>2. \A n \in DOMAIN modules :
          /\ IsModule(modules[n].text)
          /\ modules[n].rodata = modules[n].text + 1
          /\ modules[n].data = modules[n].text + 2
          /\ n > 1 => modules[n - 1].data < modules[n].text
    BY <2>1 DEF ScanInv, Tabled
  <2>3. \A i \in DOMAIN space :
          IsModule(i) /\ (i + 2 <= offset \/ ~scanning)
            => Shadowed(i) \/ \E n \in DOMAIN modules : modules[n].text = i
    BY <2>1 DEF ScanInv, Covered, InTable
  <2>4. selfIdx # -1 => modules[selfIdx + 1].text = self
    BY DEF ScanInv, Tabled
  <2> QED BY <2>2, <2>3, <2>4 DEF ModulesFound
<1> QED BY <1>1, ScanInvInit, ScanInvStep, PTL DEF Spec

-----------------------------------------------------------------------------
(* The regions.  What either code has found depends on the kernel alone.    *)
Unfound == {"modules", "regions"}
Found == [r \in Regions |->
            IF r \in {"alias", "heap"} \/ {"aslr", "stack"} \subseteq kernel.infos
              THEN Answered(r) ELSE Inferred(r)]
SetUp == [r \in Regions |->
            IF r \in {"alias", "heap"} \/ "aslr" \in kernel.infos
              THEN Answered(r) ELSE Hardcoded(r)]

RegionsInv ==
  /\ step \notin Unfound => layout = Found
  /\ step \in Unfound => virtmem = [r \in Regions |-> NoRange]
  /\ virtmem = [r \in Regions |-> NoRange] \/ (virtmem = SetUp /\ CanSetupVirtmem)

LEMMA RegionsInvInit == Init => RegionsInv
<1> SUFFICES ASSUME Init PROVE RegionsInv
  OBVIOUS
<1>1. step = "modules"
  BY DEF Init, Steps
<1> QED BY <1>1 DEF Init, LayoutInit, RegionsInv, Unfound

LEMMA RegionsInvStep == HandleInv /\ RegionsInv /\ [Next]_vars => RegionsInv'
<1> SUFFICES ASSUME HandleInv, RegionsInv, [Next]_vars PROVE RegionsInv'
  OBVIOUS
<1>1. UNCHANGED kernel => Found' = Found /\ SetUp' = SetUp /\ CanSetupVirtmem' = CanSetupVirtmem
  <2>1. UNCHANGED kernel => Found' = Found
    BY DEF Found, Answered, Info, Inferred, Guess
  <2>2. UNCHANGED kernel => SetUp' = SetUp
    BY DEF SetUp, Answered, Info, Hardcoded, Guess
  <2>3. UNCHANGED kernel => CanSetupVirtmem' = CanSetupVirtmem
    BY DEF CanSetupVirtmem
  <2> QED BY <2>1, <2>2, <2>3
<1>2. ASSUME UNCHANGED <<kernel, layout, virtmem>>,
             step' \in Unfound <=> step \in Unfound
      PROVE  RegionsInv'
  BY <1>1, <1>2 DEF RegionsInv
<1>3. CASE FindModules
  <2>1. UNCHANGED <<kernel, layout, virtmem>>
    BY <1>3 DEF FindModules, Query, layoutVars
  <2>2. step' \in Unfound <=> step \in Unfound
    <3>1. UNCHANGED step \/ (step = "modules" /\ Done("modules"))
      BY <1>3 DEF FindModules, Fail, Doing
    <3> QED BY <3>1, NextStep DEF Unfound
  <2> QED BY <1>2, <2>1, <2>2
<1>4. CASE InitRegions
  <2>1. step = "regions"
    BY <1>4 DEF InitRegions, Doing
  <2>2. CASE FindRegions /\ Done("regions")
    <3>1. step' = "virtmem" /\ UNCHANGED <<kernel, virtmem>> /\ layout' = Found
      BY <2>2, NextStep DEF FindRegions, Found
    <3> QED BY <1>1, <2>1, <3>1 DEF RegionsInv, Unfound
  <2>3. CASE UNCHANGED <<step, layoutVars>>
    BY <1>2, <2>3 DEF layoutVars
  <2> QED BY <1>4, <2>2, <2>3 DEF InitRegions, Fail
<1>5. CASE InitVirtmem
  <2>1. step = "virtmem"
    BY <1>5 DEF InitVirtmem, Doing
  <2>2. CASE CanSetupVirtmem /\ VirtmemSetup /\ Done("virtmem")
    <3>1. step' = "patcher" /\ UNCHANGED <<kernel, layout>> /\ virtmem' = SetUp
      BY <2>2, NextStep DEF VirtmemSetup, SetUp
    <3> QED BY <1>1, <2>1, <2>2, <3>1 DEF RegionsInv, Unfound
  <2>3. CASE UNCHANGED <<step, layoutVars>>
    BY <1>2, <2>3 DEF layoutVars
  <2> QED BY <1>5, <2>2, <2>3 DEF InitVirtmem, Fail
<1>6. ASSUME NEW c \in Clients, Map(c) PROVE RegionsInv'
  <2>1. UNCHANGED <<kernel, layout, virtmem>>
    BY <1>6 DEF Map, layoutVars
  <2>2. UNCHANGED step \/ (c = Loader /\ Done(step))
    BY <1>6 DEF Map, Fail
  <2>3. CASE c = Loader /\ Done(step)
    <3>1. client[Loader] = "returned"
      BY <1>6, <2>3 DEF Map, In
    <3>2. step \in {"patcher", "hookjit", "inlinejit", "mainhook", "gfxhooks"}
      BY <3>1 DEF HandleInv, HandleTypes, Exchange, AliasSteps
    <3>3. step' \in Later
      BY <2>3, <3>2, NextStep
    <3> QED BY <1>2, <2>1, <3>2, <3>3 DEF Unfound, Later
  <2> QED BY <1>2, <2>1, <2>2, <2>3
<1>7. ASSUME NEW c \in Clients, FindSpace(c) \/ GetHandle(c) PROVE RegionsInv'
  BY <1>2, <1>7 DEF FindSpace, GetHandle, layoutVars, bootVars
<1>8. CASE InitArray \/ BranchInst \/ AddDrawFunc
  <2>1. UNCHANGED <<kernel, layout, virtmem>>
    BY <1>8 DEF InitArray, BranchInst, AddDrawFunc, layoutVars
  <2>2. UNCHANGED step \/ \E s \in {"arrays", "branch", "drawfunc"} : step = s /\ Done(s)
    BY <1>8 DEF InitArray, BranchInst, AddDrawFunc, Doing, Fail
  <2>3. step' \in Unfound <=> step \in Unfound
    BY <2>2, NextStep DEF Unfound, Later
  <2> QED BY <1>2, <2>1, <2>3
<1>9. CASE UNCHANGED vars
  BY <1>2, <1>9 DEF vars, layoutVars, bootVars
<1> QED
  BY <1>3, <1>4, <1>5, <1>6, <1>7, <1>8, <1>9, BootAssumption
  DEF Next, StartUp, Hooked, BootAssumption

(* For every kernel: where virtmem.c gets through its set-up at all, the two *)
(* pieces of code see the same regions, but for the end of a guessed one.    *)
THEOREM RegionsMatch == Spec => []RegionsAgree
<1>1. RegionsInv => RegionsAgree
  <2> SUFFICES ASSUME RegionsInv, virtmem["heap"] # NoRange, NEW r \in Regions
               PROVE  /\ virtmem[r].start = layout[r].start
                      /\ layout[r].end =
                           virtmem[r].end + IF Guessed(r) THEN layout[r].start ELSE 0
    BY DEF RegionsAgree
  <2>1. virtmem = SetUp /\ CanSetupVirtmem /\ layout = Found
    BY DEF RegionsInv, Regions
  <2>2. virtmem[r] = (IF r \in {"alias", "heap"} \/ "aslr" \in kernel.infos
                        THEN Answered(r) ELSE Hardcoded(r))
    BY <2>1 DEF SetUp
  <2>3. layout[r] = (IF r \in {"alias", "heap"} \/ {"aslr", "stack"} \subseteq kernel.infos
                       THEN Answered(r) ELSE Inferred(r))
    BY <2>1 DEF Found
  <2>4. Answered(r).end \in Int /\ Guess(r)[1] \in Int /\ Guess(r)[2] \in Int
    BY DEF Answered, Info, Guess, Regions
  <2>5. CASE Guessed(r)
    <3>1. virtmem[r] = Hardcoded(r) /\ layout[r] = Inferred(r)
      BY <2>1, <2>2, <2>3, <2>5 DEF Guessed, CanSetupVirtmem
    <3> QED BY <2>4, <2>5, <3>1 DEF Hardcoded, Inferred
  <2>6. CASE ~Guessed(r)
    <3>1. virtmem[r] = Answered(r) /\ layout[r] = Answered(r)
      BY <2>2, <2>3, <2>6 DEF Guessed, Regions
    <3> QED BY <2>4, <2>6, <3>1
  <2> QED BY <2>5, <2>6
<1>2. Init => HandleInv /\ RegionsInv
  BY HandleInvInit, RegionsInvInit
<1>3. HandleInv /\ RegionsInv /\ [Next]_vars => (HandleInv /\ RegionsInv)'
  BY HandleInvStep, RegionsInvStep
<1> QED BY <1>1, <1>2, <1>3, PTL DEF Spec

-----------------------------------------------------------------------------
(* An ordinary process starts.  The table is in order, so that it holds no   *)
(* module twice and no more than there are, and it holds ours if it holds    *)
(* the text we are in (OrderInv).  Each step of start-up leaves what a later *)
(* one needs, and a session the kernel delivers to is not closed before the  *)
(* other end has replied (StartInv).                                         *)
OrderInv ==
  /\ \A n \in 1 .. Len(modules) : modules[n].text > 0
  /\ \A m, n \in 1 .. Len(modules) : m < n => modules[m].data < modules[n].text
  /\ InTable(self) => selfIdx # -1

Claims == {PatcherClaim, [from |-> self, to |-> self]}

LeftBehind ==
  /\ step # "modules" => ~scanning
  /\ step \notin Early => virtmem = SetUp
  /\ drawQueue = IF step = "running" THEN <<"drawDbgGui">> ELSE <<>>
  /\ step \notin Later => aliases = <<>>
  /\ step \in Later =>
       aliases \in Seq(Claims) /\ aliases # <<>> /\ aliases[1] = PatcherClaim

Served ==
  \A c \in Clients :
    /\ client[c] \in {"session", "send"} => ~kernel.mesosphere
    /\ kernel.mesosphere \/ kernel.delivers => ~ (client[c] \in {"close", "wait"} /\ Waits(c))

StartInv == LeftBehind /\ Served /\ (Ordinary => fault \in {"no", "NoThread"})

LEMMA OrderInvInit == Init => OrderInv
BY DEF Init, LayoutInit, OrderInv, InTable

LEMMA OrderInvStep == ScanInv /\ OrderInv /\ [Next]_vars => OrderInv'
<1> SUFFICES ASSUME ScanInv, OrderInv, [Next]_vars PROVE OrderInv'
  OBVIOUS
<1>1. CASE UNCHANGED <<self, modules, selfIdx>>
  BY <1>1 DEF OrderInv, InTable
<1>2. CASE Query
  <2>1. scanning /\ UNCHANGED self
    BY <1>2 DEF Query
  <2>2. CASE UNCHANGED <<modules, selfIdx>>
    BY <1>1, <2>1, <2>2
  <2>3. CASE FindData /\ space[Following] = "data"
    <3>1. state = "data" /\ offset > 1 /\ offset \in Nat /\ cur.text = offset - 1
      BY <2>3 DEF FindData, ScanInv, ScanTypes, Fragment
    <3>2. Following \in Nat
      BY <3>1 DEF Following
    <3>3. Limit = offset - 2
      BY <3>1 DEF Limit
    <3> DEFINE new == [text |-> cur.text, rodata |-> cur.rodata, data |-> Following]
    <3>4. modules' = Append(modules, new)
          /\ selfIdx' = IF cur.text = self THEN Len(modules) ELSE selfIdx
      BY <2>3 DEF FindData
    <3>5. new \in ModuleInfos /\ modules \in Seq(ModuleInfos)
      BY <3>1, <3>2 DEF ModuleInfos, ScanInv, ScanTypes
    <3>6. new.text = offset - 1
      BY <3>1
    <3> HIDE DEF new
    <3>7. /\ Len(modules') = Len(modules) + 1 /\ Len(modules) \in Nat
          /\ \A n \in 1 .. Len(modules) : modules'[n] = modules[n]
          /\ modules'[Len(modules) + 1] = new
      BY <3>4, <3>5, Appended
    <3>8. \A n \in 1 .. Len(modules') : modules'[n].text > 0
      BY <3>1, <3>6, <3>7 DEF OrderInv
    <3>9. \A m, n \in 1 .. Len(modules') : m < n => modules'[m].data < modules'[n].text
      <4> SUFFICES ASSUME NEW m \in 1 .. Len(modules'), NEW n \in 1 .. Len(modules'), m < n
                   PROVE  modules'[m].data < modules'[n].text
        OBVIOUS
      <4>1. m \in 1 .. Len(modules) /\ modules'[m] = modules[m]
        BY <3>7
      <4>2. modules[m].data <= offset - 2 /\ modules[m].data \in Nat
        BY <2>1, <3>3, <4>1, TableNumbers DEF ScanInv, Tabled
      <4>3. CASE n = Len(modules) + 1
        BY <3>1, <3>6, <3>7, <4>1, <4>2, <4>3
      <4>4. CASE n \in 1 .. Len(modules)
        BY <3>7, <4>1, <4>4 DEF OrderInv
      <4> QED BY <3>7, <4>3, <4>4
    <3>10. InTable(self)' => selfIdx' # -1
      <4> SUFFICES ASSUME NEW n \in 1 .. Len(modules'), modules'[n].text = self
                   PROVE  selfIdx' # -1
        BY <2>1 DEF InTable
      <4>1. CASE n = Len(modules) + 1
        <5>1. cur.text = self
          BY <3>1, <3>6, <3>7, <4>1
        <5> QED BY <3>4, <3>7, <5>1
      <4>2. CASE n \in 1 .. Len(modules)
        <5>1. selfIdx # -1
          BY <3>7, <4>2 DEF OrderInv, InTable
        <5> QED BY <3>4, <3>7, <5>1
      <4> QED BY <3>7, <4>1, <4>2
    <3> QED BY <3>8, <3>9, <3>10 DEF OrderInv
  <2> QED BY <1>2, <2>2, <2>3 DEF Query, FindText, FindRodata, FindData
<1>3. CASE FindModules
  BY <1>1, <1>2, <1>3 DEF FindModules, layoutVars, scanVars
<1>4. CASE InitRegions \/ InitVirtmem
  BY <1>1, <1>4 DEF InitRegions, InitVirtmem, FindRegions, VirtmemSetup, layoutVars, scanVars
<1>5. CASE UNCHANGED layoutVars
  BY <1>1, <1>5 DEF layoutVars, scanVars
<1>6. ASSUME NEW c \in Clients, FindSpace(c) \/ Map(c) \/ GetHandle(c) PROVE OrderInv'
  BY <1>5, <1>6 DEF FindSpace, Map, GetHandle
<1>7. CASE InitArray \/ BranchInst \/ AddDrawFunc
  BY <1>5, <1>7 DEF InitArray, BranchInst, AddDrawFunc
<1>8. CASE UNCHANGED vars
  BY <1>5, <1>8 DEF vars
<1> QED
  BY <1>3, <1>4, <1>6, <1>7, <1>8, BootAssumption DEF Next, StartUp, Hooked, BootAssumption

-----------------------------------------------------------------------------
\* The table in an ordinary process: it never fills up, and when the scan is
\* over it holds every module, so ours, and has a second one.
LEMMA TableFits ==
  ASSUME ScanInv, OrderInv
  PROVE  /\ IsFiniteSet(ModuleStarts)
         /\ Len(modules) <= Cardinality(ModuleStarts)
         /\ \A n \in 1 .. Len(modules) : modules[n].text \in ModuleStarts
<1>1. DOMAIN space = 1 .. N /\ N \in Nat /\ Len(modules) \in Nat
  BY DEF ScanInv, ScanTypes, N
<1>2. IsFiniteSet(ModuleStarts)
  <2>1. ModuleStarts \in SUBSET (1 .. N) /\ IsFiniteSet(1 .. N)
    BY <1>1, FS_Interval DEF ModuleStarts
  <2> QED BY <2>1, FS_Subset
<1>3. \A n \in 1 .. Len(modules) : modules[n].text \in ModuleStarts
  <2> SUFFICES ASSUME NEW n \in 1 .. Len(modules) PROVE modules[n].text \in ModuleStarts
    OBVIOUS
  <2>1. IsModule(modules[n].text) /\ modules[n].text > 0 /\ modules[n].text \in Nat
    BY TableNumbers DEF ScanInv, Tabled, OrderInv
  <2>2. modules[n].text \in DOMAIN space
    BY <1>1, <2>1 DEF IsModule
  <2> QED BY <2>1, <2>2 DEF ModuleStarts
<1>4. Len(modules) <= Cardinality(ModuleStarts)
  <2> DEFINE f == [n \in 1 .. Len(modules) |-> modules[n].text]
  <2>1. f \in [1 .. Len(modules) -> ModuleStarts]
    BY <1>3
  <2>2. ASSUME NEW m \in 1 .. Len(modules), NEW n \in 1 .. Len(modules), m < n
        PROVE  modules[m].text # modules[n].text
    <3>1. modules[m].data < modules[n].text /\ modules[m].data = modules[m].text + 2
      BY <2>2 DEF ScanInv, Tabled, OrderInv
    <3> QED BY <3>1, TableNumbers DEF ScanInv
  <2>3. \A m, n \in 1 .. Len(modules) : f[m] = f[n] => m = n
    <3> SUFFICES ASSUME NEW m \in 1 .. Len(modules), NEW n \in 1 .. Len(modules), m # n
                 PROVE  f[m] # f[n]
      OBVIOUS
    <3>1. m < n \/ n < m
      OBVIOUS
    <3> QED BY <2>2, <3>1
  <2>4. f \in Injection(1 .. Len(modules), ModuleStarts)
    BY <2>1, <2>3 DEF Injection, IsInjective
  <2>5. Cardinality(1 .. Len(modules)) <= Cardinality(ModuleStarts)
    BY <1>2, <2>4, FS_Injection
  <2>6. Cardinality(1 .. Len(modules)) = Len(modules)
    <3> DEFINE l == Len(modules)
    <3> HIDE DEF l
    <3>1. l \in Nat
      BY <1>1 DEF l
    <3>2. Cardinality(1 .. l) = IF 1 > l THEN 0 ELSE l - 1 + 1
      BY <3>1, FS_Interval
    <3>3. Cardinality(1 .. l) = l
      BY <3>1, <3>2
    <3> QED BY <3>3 DEF l
  <2> QED BY <2>5, <2>6
<1> QED BY <1>2, <1>3, <1>4

LEMMA TableCounts ==
  ASSUME ScanInv, OrderInv, Ordinary
  PROVE  ~Full
<1>1. Cardinality(ModuleStarts) < MaxModules /\ Cardinality(ModuleStarts) \in Int
  BY MemLayoutAssumption DEF Ordinary, MemLayoutAssumption
<1> QED BY <1>1, TableFits, MemLayoutAssumption DEF Full, ScanInv, ScanTypes, MemLayoutAssumption

LEMMA TableComplete ==
  ASSUME ScanInv, OrderInv, Ordinary, ~scanning
  PROVE  /\ \A i \in ModuleStarts : InTable(i)
         /\ ScanSound
         /\ Len(modules) > 1
<1>1. DOMAIN space = 1 .. N /\ Len(modules) \in Nat
  BY DEF ScanInv, ScanTypes, N
<1>2. \A i \in ModuleStarts : InTable(i)
  BY <1>1 DEF ScanInv, Covered, Ordinary, ModuleStarts
<1>3. ScanSound
  <2>1. selfIdx # -1
    BY <1>2 DEF Ordinary, OrderInv
  <2>2. selfIdx + 1 <= Len(modules) /\ selfIdx \in Int
    BY <2>1 DEF ScanInv, ScanTypes, Tabled
  <2>3. Len(modules) < MaxModules /\ MaxModules \in Nat
    BY <1>1, TableCounts, MemLayoutAssumption DEF Full, MemLayoutAssumption
  <2> QED BY <1>1, <2>1, <2>2, <2>3 DEF ScanSound
<1>4. Len(modules) > 1
  <2> SUFFICES ASSUME Len(modules) <= 1 PROVE FALSE
    BY <1>1
  <2>1. \A i \in ModuleStarts : i = modules[1].text
    <3> SUFFICES ASSUME NEW i \in ModuleStarts PROVE i = modules[1].text
      OBVIOUS
    <3>1. PICK n \in 1 .. Len(modules) : modules[n].text = i
      BY <1>2 DEF InTable
    <3>2. n = 1
      BY <1>1
    <3> QED BY <3>1, <3>2
  <2>2. ModuleStarts = {} \/ \E x : ModuleStarts = {x}
    BY <2>1
  <2>3. Cardinality(ModuleStarts) \in {0, 1}
    BY <2>2, FS_Singleton, FS_EmptySet, TableFits
  <2> QED BY <2>3 DEF Ordinary
<1> QED BY <1>2, <1>3, <1>4

-----------------------------------------------------------------------------
LEMMA StartInvInit == Init => StartInv
<1> SUFFICES ASSUME Init PROVE StartInv
  OBVIOUS
<1>1. step = "modules"
  BY DEF Init, Steps
<1>2. LeftBehind
  BY <1>1 DEF Init, LeftBehind, Early, Later
<1>3. Served
  BY DEF Init, HandleInit, Served
<1> QED BY <1>2, <1>3 DEF Init, StartInv

\* What the process is, and what start-up has learnt of it.
LEMMA SameLayout ==
  ASSUME UNCHANGED layoutVars
  PROVE  /\ SetUp' = SetUp /\ PatcherClaim' = PatcherClaim /\ Claims' = Claims
         /\ UNCHANGED <<space, self, kernel, scanning, modules, virtmem>>
<1>1. UNCHANGED <<space, self, kernel, scanning, modules, virtmem>>
  BY DEF layoutVars, scanVars
<1>2. PatcherClaim' = PatcherClaim
  BY <1>1 DEF PatcherClaim, GetModuleInfo
<1>3. SetUp' = SetUp
  BY <1>1 DEF SetUp, Answered, Info, Hardcoded, Guess
<1> QED BY <1>1, <1>2, <1>3 DEF Claims

LEMMA LeftBehindStep == HandleInv /\ LeftBehind /\ [Next]_vars => LeftBehind'
<1> SUFFICES ASSUME HandleInv, LeftBehind, [Next]_vars PROVE LeftBehind'
  OBVIOUS
<1>1. CASE UNCHANGED <<layoutVars, bootVars>>
  BY <1>1, SameLayout DEF LeftBehind, bootVars
<1>2. CASE FindModules
  <2>1. step = "modules" /\ UNCHANGED <<aliases, drawQueue>>
    BY <1>2 DEF FindModules, Doing
  <2>2. \/ step' = "modules"
        \/ step' = "regions" /\ ~scanning /\ UNCHANGED scanning
    BY <1>2, <2>1, NextStep DEF FindModules, Fail, layoutVars, scanVars
  <2> QED BY <2>1, <2>2 DEF LeftBehind, Early, Later
<1>3. CASE InitRegions
  <2>1. step = "regions" /\ UNCHANGED <<aliases, drawQueue, scanning>>
    BY <1>3 DEF InitRegions, Doing, FindRegions, layoutVars, scanVars
  <2>2. step' \in {"regions", "virtmem"}
    BY <1>3, <2>1, NextStep DEF InitRegions, Fail
  <2> QED BY <2>1, <2>2 DEF LeftBehind, Early, Later
<1>4. CASE InitVirtmem
  <2>1. step = "virtmem" /\ UNCHANGED <<aliases, drawQueue, scanning, kernel>>
    BY <1>4 DEF InitVirtmem, Doing, VirtmemSetup, layoutVars, scanVars
  <2>2. \/ step' = "virtmem"
        \/ step' = "patcher" /\ VirtmemSetup
    BY <1>4, <2>1, NextStep DEF InitVirtmem, Fail
  <2>3. VirtmemSetup => virtmem' = SetUp'
    <3>1. SetUp' = SetUp
      BY <2>1 DEF SetUp, Answered, Info, Hardcoded, Guess
    <3> QED BY <3>1 DEF VirtmemSetup, SetUp
  <2> QED BY <2>1, <2>2, <2>3 DEF LeftBehind, Early, Later
<1>5. ASSUME NEW c \in Clients, Map(c) PROVE LeftBehind'
  <2>1. CASE UNCHANGED <<step, aliases>>
    BY <1>1, <1>5, <2>1 DEF Map, bootVars
  <2>2. CASE c = Loader /\ Done(step)
             /\ aliases' = (IF step \in Temporary THEN aliases ELSE Append(aliases, Claim(step)))
    <3>1. client[Loader] = "returned"
      BY <1>5, <2>2 DEF Map, In
    <3>2. step \in {"patcher", "hookjit", "inlinejit", "mainhook", "gfxhooks"}
      BY <3>1 DEF HandleInv, HandleTypes, Exchange, AliasSteps
    <3>3. step' \in Later \ {"running"}
      BY <2>2, <3>2, NextStep
    <3>4. step' \notin Early /\ step' # "modules" /\ step' # "running"
      BY <3>3 DEF Early, Later
    <3>5. UNCHANGED drawQueue /\ SetUp' = SetUp /\ PatcherClaim' = PatcherClaim /\ Claims' = Claims
          /\ UNCHANGED <<scanning, virtmem>>
      BY <1>5, SameLayout DEF Map
    <3>6. Claim(step) \in Claims
      BY DEF Claim, Claims
    <3>7. aliases' \in Seq(Claims) /\ aliases' # <<>> /\ aliases'[1] = PatcherClaim
      <4>1. CASE step = "patcher"
        <5>1. aliases = <<>> /\ Claim(step) = PatcherClaim /\ step \notin Temporary
          BY <4>1 DEF LeftBehind, Later, Claim, Temporary
        <5>2. aliases' = Append(<<>>, PatcherClaim) /\ <<>> \in Seq(Claims)
          BY <2>2, <5>1
        <5>3. Len(<<>>) = 0
          OBVIOUS
        <5>4. PatcherClaim \in Claims
          BY DEF Claims
        <5> QED BY <5>2, <5>3, <5>4, Appended
      <4>2. CASE step # "patcher"
        <5>1. step \in Later
          BY <3>2, <4>2 DEF Later
        <5>2. aliases \in Seq(Claims) /\ aliases # <<>> /\ aliases[1] = PatcherClaim
          BY <5>1 DEF LeftBehind
        <5>3. CASE aliases' = aliases
          BY <5>2, <5>3
        <5>4. CASE aliases' = Append(aliases, Claim(step))
          <6>1. Len(aliases) \in Nat /\ Len(aliases) >= 1
            BY <5>2
          <6>2. /\ aliases' \in Seq(Claims) /\ Len(aliases') = Len(aliases) + 1
                /\ aliases'[1] = aliases[1]
            BY <3>6, <5>2, <5>4, <6>1, Appended
          <6> QED BY <5>2, <6>1, <6>2
        <5> QED BY <2>2, <5>3, <5>4
      <4> QED BY <4>1, <4>2
    <3>8. ~scanning /\ virtmem = SetUp /\ drawQueue = <<>>
      BY <3>2 DEF LeftBehind, Early
    <3> QED BY <3>3, <3>4, <3>5, <3>7, <3>8 DEF LeftBehind
  <2> QED BY <1>5, <2>1, <2>2 DEF Map, Fail
<1>6. ASSUME NEW c \in Clients, FindSpace(c) \/ GetHandle(c) PROVE LeftBehind'
  BY <1>1, <1>6 DEF FindSpace, GetHandle
<1>7. ASSUME NEW s \in {"arrays", "branch", "drawfunc"}, step = s, UNCHANGED <<layoutVars, aliases>>,
             Done(s), s # "drawfunc" => drawQueue' = <<>>,
             s = "drawfunc" => drawQueue' = Append(drawQueue, "drawDbgGui")
      PROVE  LeftBehind'
  <2>1. step' \in Later /\ (step' = "running" <=> s = "drawfunc")
    BY <1>7, NextStep
  <2>2. step \in Later /\ step # "running" /\ step \notin Early
    BY <1>7 DEF Early, Later
  <2>3. step' \notin Early
    BY <2>1 DEF Early, Later
  <2>4. drawQueue = <<>>
    BY <2>2 DEF LeftBehind
  <2>5. drawQueue' = IF step' = "running" THEN <<"drawDbgGui">> ELSE <<>>
    BY <1>7, <2>1, <2>4
  <2> QED BY <1>7, <2>1, <2>2, <2>3, <2>5, SameLayout DEF LeftBehind, Early
<1>8. CASE InitArray
  BY <1>7, <1>8 DEF InitArray, Doing
<1>9. CASE AddDrawFunc
  BY <1>7, <1>9 DEF AddDrawFunc, Doing
<1>10. CASE BranchInst
  <2>1. step = "branch" /\ UNCHANGED <<layoutVars, aliases, drawQueue>>
    BY <1>10 DEF BranchInst, Doing
  <2>2. CASE UNCHANGED step
    BY <1>1, <2>1, <2>2 DEF bootVars
  <2>3. CASE Done("branch")
    BY <1>7, <2>1, <2>3 DEF LeftBehind
  <2> QED BY <1>10, <2>2, <2>3 DEF BranchInst, Fail
<1>11. CASE UNCHANGED vars
  BY <1>1, <1>11 DEF vars, bootVars
<1> QED
  BY <1>2, <1>3, <1>4, <1>5, <1>6, <1>8, <1>9, <1>10, <1>11, BootAssumption
  DEF Next, StartUp, Hooked, BootAssumption

LEMMA ServedStep == HandleInv /\ Served /\ [Next]_vars => Served'
<1> SUFFICES ASSUME HandleInv, Served, [Next]_vars PROVE Served'
  OBVIOUS
<1>1. CASE UNCHANGED <<kernel, client, server>>
  BY <1>1 DEF Served, Waits
<1>2. CASE FindModules \/ InitRegions \/ InitVirtmem \/ InitArray \/ BranchInst \/ AddDrawFunc
  BY <1>1, <1>2
  DEF FindModules, Query, InitRegions, FindRegions, InitVirtmem, VirtmemSetup, InitArray,
      BranchInst, AddDrawFunc, handleVars, layoutVars
<1>3. ASSUME NEW c \in Clients, UNCHANGED <<kernel, server>>,
             NEW l \in {"out", "get", "sent", "return", "returned"}, Enter(c, l)
      PROVE  Served'
  <2>1. client' = [client EXCEPT ![c] = l] /\ DOMAIN client = Clients
    BY <1>3 DEF Enter, HandleInv, HandleTypes
  <2> QED BY <1>3, <2>1 DEF Served, Waits
<1>4. ASSUME NEW c \in Clients, FindSpace(c) \/ Map(c) PROVE Served'
  <2>1. UNCHANGED <<kernel, server>>
    BY <1>4 DEF FindSpace, Map, layoutVars
  <2> QED BY <1>1, <1>3, <1>4, <2>1 DEF FindSpace, Map, Fail
<1>5. ASSUME NEW c \in Clients, ClientStep(c, kernel.mesosphere, kernel.delivers), UNCHANGED kernel
      PROVE  Served'
  <2>1. DOMAIN client = Clients /\ DOMAIN server = Clients
    BY DEF HandleInv, HandleTypes
  <2>2. CASE Get(c, kernel.mesosphere)
    <3>1. UNCHANGED server
      BY <2>2 DEF Get
    <3>2. Enter(c, "return") \/ (~kernel.mesosphere /\ Enter(c, "session"))
      BY <2>2 DEF Get
    <3>3. CASE ~kernel.mesosphere /\ client' = [client EXCEPT ![c] = "session"]
      BY <1>5, <2>1, <3>1, <3>3 DEF Served, Waits
    <3> QED BY <1>3, <1>5, <3>1, <3>2, <3>3 DEF Enter
  <2>3. CASE StartServer(c)
    <3>1. CASE UNCHANGED <<client, server>>
      BY <1>1, <1>5, <3>1
    <3>2. CASE /\ server' = [server EXCEPT ![c] = "clear"]
               /\ client' = [client EXCEPT ![c] = "send"]
      <4>1. client[c] = "session"
        BY <2>3 DEF StartServer, In
      <4> QED BY <1>5, <2>1, <3>2, <4>1 DEF Served, Waits
    <3> QED BY <2>3, <3>1, <3>2 DEF StartServer, Enter, ServerEnters
  <2>4. CASE SendSyncRequest(c, kernel.delivers)
    <3>1. client[c] = "send" /\ UNCHANGED server
      BY <2>4 DEF SendSyncRequest, In
    <3>2. ~kernel.mesosphere
      BY <3>1 DEF Served
    <3>3. Enter(c, "sent") \/ (~kernel.delivers /\ Enter(c, "close"))
      BY <2>4 DEF SendSyncRequest
    <3>4. CASE ~kernel.delivers /\ client' = [client EXCEPT ![c] = "close"]
      BY <1>5, <2>1, <3>1, <3>2, <3>4 DEF Served, Waits
    <3> QED BY <1>3, <1>5, <3>1, <3>3, <3>4 DEF Enter
  <2>5. CASE SessionClosed(c)
    <3>1. client[c] = "sent" /\ request[c] = "closed" /\ UNCHANGED server
          /\ client' = [client EXCEPT ![c] = "close"]
      BY <2>5 DEF SessionClosed, In, Enter
    <3>2. c = Loader /\ Phase(c)
      BY <3>1, BootAssumption
      DEF HandleInv, HandleTypes, Exchange, Quick, Early, Later, BootAssumption
    <3>3. ~Waits(c)
      BY <3>1, <3>2 DEF Phase, Replied, Waits
    <3> QED BY <1>5, <2>1, <3>1, <3>3 DEF Served, Waits
  <2>6. CASE CloseClient(c)
    <3>1. client[c] = "close" /\ UNCHANGED server /\ client' = [client EXCEPT ![c] = "wait"]
      BY <2>6 DEF CloseClient, In, Enter
    <3> QED BY <1>5, <2>1, <3>1 DEF Served, Waits
  <2>7. CASE Wait(c) \/ Return(c)
    BY <1>3, <1>5, <2>7 DEF Wait, Return
  <2> QED BY <1>5, <2>2, <2>3, <2>4, <2>5, <2>6, <2>7 DEF ClientStep
<1>6. ASSUME NEW c \in Clients, ServerStep(c), UNCHANGED kernel
      PROVE  Served'
  <2>1. UNCHANGED client /\ DOMAIN server = Clients
    BY <1>6 DEF ServerStep, ClearTls, ReplyAndReceive, SetHandle, CloseServer, ExitThread,
                HandleInv, HandleTypes
  <2>2. \/ UNCHANGED server
        \/ Waits(c) /\ \E l : server' = [server EXCEPT ![c] = l]
        \/ \E l \in {"close", "exit", "ended"} : server' = [server EXCEPT ![c] = l]
    BY <1>6 DEF ServerStep, ClearTls, ReplyAndReceive, SetHandle, CloseServer, ExitThread,
                ServerIn, ServerEnters, Waits
  <2>3. \A d \in Clients : Waits(d)' => Waits(d)
    BY <2>1, <2>2 DEF Waits
  <2> QED BY <1>6, <2>1, <2>3 DEF Served
<1>7. ASSUME NEW c \in Clients, GetHandle(c) PROVE Served'
  <2>1. UNCHANGED kernel
    BY <1>7 DEF GetHandle, layoutVars
  <2> QED BY <1>5, <1>6, <1>7, <2>1 DEF GetHandle
<1>8. CASE UNCHANGED vars
  BY <1>1, <1>8 DEF vars, layoutVars, handleVars
<1> QED
  BY <1>2, <1>4, <1>7, <1>8, BootAssumption DEF Next, StartUp, Hooked, BootAssumption

\* Nothing start-up meets aborts an ordinary process, the threads apart.
LEMMA NoFault ==
  ASSUME HandleInv, ScanInv, OrderInv, StartInv, [Next]_vars, Ordinary
  PROVE  fault' \in {"no", "NoThread"}
<1>1. fault \in {"no", "NoThread"}
  BY DEF StartInv
<1>2. ASSUME UNCHANGED fault PROVE fault' \in {"no", "NoThread"}
  BY <1>1, <1>2
<1>3. CASE FindModules
  <2>1. ~Full
    BY TableCounts
  <2>2. ~scanning => ScanSound
    BY TableComplete
  <2> QED BY <1>2, <1>3, <2>1, <2>2 DEF FindModules
<1>4. CanFindRegions /\ CanSetupVirtmem
  BY DEF Ordinary, CanFindRegions, CanSetupVirtmem, Regions
<1>5. CASE InitRegions \/ InitVirtmem
  BY <1>2, <1>4, <1>5 DEF InitRegions, InitVirtmem
<1>6. ASSUME NEW c \in Clients, FindSpace(c) PROVE fault' \in {"no", "NoThread"}
  <2>1. step \in {"patcher", "running"} \cup AliasSteps
    BY <1>6 DEF FindSpace, Constructing
  <2>2. step \notin Early /\ step # "modules"
    BY <2>1 DEF AliasSteps, Early
  <2>3. ~scanning /\ virtmem = SetUp
    BY <2>2 DEF StartInv, LeftBehind
  <2>4. HasModule(MainModuleIdx)
    BY <2>3, TableComplete DEF HasModule, MainModuleIdx
  <2>5. virtmem["aslr"] # NoRange
    <3>1. "aslr" \in Regions
      BY DEF Regions
    <3>2. virtmem["aslr"] \in {Answered("aslr"), Hardcoded("aslr")}
      BY <2>3, <3>1 DEF SetUp
    <3>3. virtmem["aslr"].start # 0
      BY <3>2 DEF Answered, Info, Hardcoded, Guess
    <3> QED BY <3>3 DEF NoRange
  <2> QED BY <1>2, <1>6, <2>4, <2>5 DEF FindSpace
<1>7. ASSUME NEW c \in Clients, Map(c) PROVE fault' \in {"no", "NoThread"}
  <2>1. got[c] = Ours
    BY <1>7 DEF Map, In, HandleInv, Exchange
  <2> QED BY <1>2, <1>7, <2>1 DEF Map
<1>8. CASE InitArray \/ AddDrawFunc
  BY <1>2, <1>8 DEF InitArray, AddDrawFunc
<1>9. CASE BranchInst
  <2>1. step = "branch" /\ step \in Later
    BY <1>9 DEF BranchInst, Doing, Later
  <2>2. aliases # <<>>
    BY <2>1 DEF StartInv, LeftBehind
  <2> QED BY <1>2, <1>9, <2>2 DEF BranchInst
<1>10. ASSUME NEW c \in Clients, ClientStep(c, kernel.mesosphere, kernel.delivers)
       PROVE  fault' \in {"no", "NoThread"}
  BY <1>2, <1>10
  DEF ClientStep, Get, StartServer, SendSyncRequest, SessionClosed, CloseClient, Wait, Return
<1>11. ASSUME NEW c \in Clients, ServerStep(c) PROVE fault' \in {"no", "NoThread"}
  <2>1. CASE server[c] = "receive" /\ request[c] = "closed"
    <3>1. c = Loader /\ Phase(c)
      BY <2>1, BootAssumption
      DEF HandleInv, HandleTypes, Exchange, Quick, Early, Later, BootAssumption
    <3>2. client[c] = "wait" /\ Waits(c)
      BY <2>1, <3>1 DEF Phase, Waits, Replied
    <3>3. kernel.mesosphere \/ kernel.delivers
      BY DEF Ordinary
    <3> QED BY <3>2, <3>3 DEF StartInv, Served
  <2>2. CASE ~ (server[c] = "receive" /\ request[c] = "closed")
    BY <1>2, <1>11, <2>2
    DEF ServerStep, ClearTls, ReplyAndReceive, SetHandle, CloseServer, ExitThread, ServerIn
  <2> QED BY <2>1, <2>2
<1>12. CASE UNCHANGED vars
  BY <1>2, <1>12 DEF vars
<1> QED
  BY <1>3, <1>5, <1>6, <1>7, <1>8, <1>9, <1>10, <1>11, <1>12, BootAssumption
  DEF Next, StartUp, Hooked, GetHandle, BootAssumption

LEMMA StartInvStep ==
  HandleInv /\ ScanInv /\ OrderInv /\ StartInv /\ [Next]_vars => StartInv'
<1> SUFFICES ASSUME HandleInv, ScanInv, OrderInv, StartInv, [Next]_vars PROVE StartInv'
  OBVIOUS
<1>1. UNCHANGED <<space, self, kernel>>
  BY DEF Next, StartUp, Hooked, FindModules, Query, InitRegions, FindRegions, InitVirtmem,
         VirtmemSetup, FindSpace, Map, InitArray, BranchInst, AddDrawFunc, GetHandle, layoutVars,
         vars
<1>2. Ordinary' = Ordinary
  <2>1. ModuleStarts' = ModuleStarts
    BY <1>1, SameSpace DEF ModuleStarts
  <2>2. \A i : Shadowed(i)' = Shadowed(i)
    BY <1>1, SameSpace
  <2> QED BY <1>1, <2>1, <2>2 DEF Ordinary
<1>3. Ordinary => fault' \in {"no", "NoThread"}
  BY NoFault
<1> QED BY <1>2, <1>3, LeftBehindStep, ServedStep DEF StartInv

\* In a table that is in order and complete, the module with one before it is
\* the second.
LEMMA SecondModule ==
  ASSUME ScanInv, OrderInv, Ordinary, ~scanning, NEW i \in ModuleStarts,
         Cardinality({j \in ModuleStarts : j < i}) = 1
  PROVE  PatcherClaim = [from |-> i, to |-> i + 1]
<1> DEFINE before == {j \in ModuleStarts : j < i}
<1>1. IsFiniteSet(before)
  BY TableFits, FS_Subset
<1>2. PICK b : before = {b}
  BY <1>1, FS_Singleton
<1>3. Len(modules) \in Nat /\ \A n \in 1 .. Len(modules) : modules[n].text \in ModuleStarts
  BY TableFits DEF ScanInv, ScanTypes
<1>4. PICK n \in 1 .. Len(modules) : modules[n].text = i
  BY TableComplete DEF InTable
<1>5. PICK m \in 1 .. Len(modules) : modules[m].text = b
  BY <1>2, TableComplete DEF InTable
<1>6. ASSUME NEW k \in 1 .. Len(modules), NEW l \in 1 .. Len(modules), k < l
      PROVE  modules[k].text < modules[l].text
  <2>1. modules[k].data < modules[l].text /\ modules[k].data = modules[k].text + 2
    BY <1>6 DEF ScanInv, Tabled, OrderInv
  <2> QED BY <2>1, TableNumbers DEF ScanInv
<1>7. b < i
  BY <1>2
<1>8. n # 1
  <2> SUFFICES ASSUME n = 1 PROVE FALSE
    OBVIOUS
  <2>1. m = 1 \/ n < m
    OBVIOUS
  <2>2. i <= b /\ i \in Nat /\ b \in Nat
    BY <1>4, <1>5, <1>6, <2>1, TableNumbers DEF ScanInv
  <2> QED BY <1>7, <2>2
<1>9. ~ n > 2
  <2> SUFFICES ASSUME n > 2 PROVE FALSE
    OBVIOUS
  <2>1. 1 \in 1 .. Len(modules) /\ 2 \in 1 .. Len(modules)
    BY <1>3
  <2>2. modules[1].text < i /\ modules[2].text < i /\ modules[1].text < modules[2].text
    BY <1>4, <1>6, <2>1
  <2>3. modules[1].text \in before /\ modules[2].text \in before
    BY <1>3, <2>1, <2>2
  <2>4. modules[1].text = modules[2].text
    BY <1>2, <2>3
  <2> QED BY <2>1, <2>2, <2>4, TableNumbers DEF ScanInv
<1>10. n = 2
  BY <1>3, <1>8, <1>9
<1>11. modules[2].rodata = i + 1
  BY <1>4, <1>10 DEF ScanInv, Tabled
<1> QED BY <1>4, <1>10, <1>11 DEF PatcherClaim, GetModuleInfo, MainModuleIdx

(* For every address space, kernel and number of threads: an ordinary        *)
(* process is not aborted by any step of its start-up, nor by a thread that  *)
(* makes an alias later, unless no thread can be made; and when start-up is  *)
(* over the patcher's alias covers text and rodata of the second module and  *)
(* the menu is drawn.                                                        *)
THEOREM OrdinaryProcessesStart == Spec => []OrdinaryStarts
<1>1. HandleInv /\ ScanInv /\ OrderInv /\ StartInv => OrdinaryStarts
  <2> SUFFICES ASSUME HandleInv, ScanInv, OrderInv, StartInv PROVE OrdinaryStarts
    OBVIOUS
  <2>1. ASSUME step = "running", Ordinary, NEW i \in ModuleStarts,
               Cardinality({j \in ModuleStarts : j < i}) = 1
        PROVE  aliases[1] = [from |-> i, to |-> i + 1]
    <3>1. step \in Later /\ ~scanning
      BY <2>1 DEF StartInv, LeftBehind, Later
    <3>2. aliases[1] = PatcherClaim
      BY <3>1 DEF StartInv, LeftBehind
    <3> QED BY <2>1, <3>1, <3>2, SecondModule
  <2>2. step = "running" => drawQueue = <<"drawDbgGui">>
    BY DEF StartInv, LeftBehind
  <2> QED BY <2>1, <2>2 DEF OrdinaryStarts, StartInv
<1>2. Init => HandleInv /\ ScanInv /\ OrderInv /\ StartInv
  BY HandleInvInit, ScanInvInit, OrderInvInit, StartInvInit
<1>3. HandleInv /\ ScanInv /\ OrderInv /\ StartInv /\ [Next]_vars
        => (HandleInv /\ ScanInv /\ OrderInv /\ StartInv)'
  BY HandleInvStep, ScanInvStep, OrderInvStep, StartInvStep
<1> QED BY <1>1, <1>2, <1>3, PTL DEF Spec
=============================================================================
