------------------------------ MODULE SmServer ------------------------------
(***************************************************************************)
(* The event loop of the service manager (sysmodules/sm/source/main.c),    *)
(* the service table (services.c) and the sessions it postpones.           *)
(*                                                                         *)
(* sm is one thread: each turn of its loop answers the previous request,   *)
(* receives one event from svcReplyAndReceive and handles it.  A request   *)
(* for a service that is not registered, or whose port is full, is not     *)
(* answered: its first 16 bytes are saved and its session leaves the list  *)
(* sm listens to, until a registration or the kernel makes sm replay it.   *)
(* The clients, the service processes and the kernel's ports act between   *)
(* any two turns.                                                          *)
(***************************************************************************)
EXTENDS Naturals, FiniteSets, SmLists

CONSTANTS
  Sessions,      \* sessionDataPool
  FreeOrder,     \* the order buildList links the pool in
  Pids,          \* processes
  NoPid,         \* (u32)-1, before RegisterClient
  Names,         \* service and named port names
  Prefixes,      \* pairs <<a, b>> such that name a is a prefix of name b
  Garbled,       \* what a saved name is after its first word was overwritten
  Ports,         \* kernel ports
  NoPort,
  None,          \* no session to reply to
  Requests,      \* the commands the clients may send
  MaxServices,   \* 0xA0, the capacity of servicesInfo
  MaxSrv,        \* sessions of srv: at a time: 64, the port's maximum
  MaxSrvPm,      \* sessions of srv:pm at a time
  PRE_7X         \* IS_PRE_7X

ASSUME PoolAssumption ==
  /\ FreeOrder \in Seq(Sessions)
  /\ \A s \in Sessions : \E i \in DOMAIN FreeOrder : FreeOrder[i] = s
  /\ \A i, j \in DOMAIN FreeOrder : FreeOrder[i] = FreeOrder[j] => i = j
  /\ None \notin Sessions
ASSUME NamesAssumption ==
  /\ NoPid \notin Pids /\ NoPort \notin Ports /\ Garbled \notin Names
  /\ Prefixes \subseteq Names \X Names
  /\ \A n \in Names : <<n, n>> \in Prefixes
ASSUME BoundsAssumption ==
  /\ MaxServices \in Nat
  /\ PRE_7X \in BOOLEAN

SrvCommands ==
  {"RegisterClient", "RegisterService", "UnregisterService", "GetServiceHandle",
   "RegisterPort", "UnregisterPort", "GetPort", "IsServiceRegistered"}
PmCommands == {"RegisterProcess", "UnregisterProcess"}

\* word4 is cmdbuf[4]: the flags of GetServiceHandle and GetPort, maxSessions
\* of RegisterService.  pid is the process a srv:pm command is about.
Commands ==
  [cmd : SrvCommands \cup PmCommands, name : Names \cup {Garbled}, word4 : Nat,
   pid : Pids \cup {NoPid}]

ASSUME RequestsAssumption ==
  /\ Requests \subseteq Commands
  /\ \A c \in Requests : c.cmd \in SrvCommands => c.name \in Names

SessionLists == {"inUse", "free", "waitRegister", "wakeUp", "waitPort"}

VARIABLES
  lists,            \* the five session lists of main.c
  pid,              \* the fields of SessionData
  isSrvPm,
  replayCmdbuf,
  busyClientPortHandle,
  servicesInfo,     \* its length is nbServices
  processes,        \* the pids in processDataInUseList
  cmdbuf4,          \* word 4 of sm's command buffer
  replyTarget,
  resumeSemaphore,  \* resumeGetServiceHandleOrPortRegisteredSemaphore
  panicked,
  owner,            \* kernel: the process at the other end of a session
  client,           \* kernel: "closed", "idle", "sent" or "served"
  request,          \* kernel: the last message sent over a session
  maxSessions,      \* kernel: the ports
  portSessions,
  serverAlive,
  portOpen          \* sm has the port's client handle

sessionVars == <<pid, isSrvPm, replayCmdbuf, busyClientPortHandle>>
kernelVars == <<maxSessions, portSessions, serverAlive, portOpen>>
clientVars == <<owner, client, request>>
tableVars == <<servicesInfo, processes>>
vars == <<lists, sessionVars, tableVars, cmdbuf4, replyTarget, resumeSemaphore,
          panicked, clientVars, kernelVars>>

NoRequest == [cmd |-> "RegisterClient", name |-> Garbled, word4 |-> 0, pid |-> NoPid]
NoSaved == [cmd |-> "none", name |-> Garbled]

Init ==
  /\ lists = [l \in SessionLists |-> IF l = "free" THEN FreeOrder ELSE <<>>]
  /\ pid = [s \in Sessions |-> NoPid]
  /\ isSrvPm = [s \in Sessions |-> FALSE]
  /\ replayCmdbuf = [s \in Sessions |-> NoSaved]
  /\ busyClientPortHandle = [s \in Sessions |-> NoPort]
  /\ servicesInfo = <<>>
  /\ processes = {}
  /\ cmdbuf4 = 0
  /\ replyTarget = None
  /\ resumeSemaphore = 0
  /\ panicked = "no"
  /\ owner = [s \in Sessions |-> NoPid]
  /\ client = [s \in Sessions |-> "closed"]
  /\ request = [s \in Sessions |-> NoRequest]
  /\ maxSessions = [p \in Ports |-> 0]
  /\ portSessions = [p \in Ports |-> 0]
  /\ serverAlive = [p \in Ports |-> FALSE]
  /\ portOpen = [p \in Ports |-> FALSE]

In(list) == Elements(lists[list])

-----------------------------------------------------------------------------
(* The service table                                                       *)

\* findServicePortByName returns something else than -1.
Registered(kind, name) ==
  \E i \in DOMAIN servicesInfo :
    servicesInfo[i].kind = kind /\ servicesInfo[i].name = name
Entry(kind, name) ==
  CHOOSE i \in DOMAIN servicesInfo :
    servicesInfo[i].kind = kind /\ servicesInfo[i].name = name

Entries == [kind : {"service", "port"}, name : Names, port : Ports,
            pid : Pids \cup {NoPid}]

\* Mutant: the table does not shrink.
SwapRemoveKeepingLength(table, i) == [table EXCEPT ![i] = table[Len(table)]]

\* The entry at i takes the value of the last one, and the table shrinks.
SwapRemove(table, i) ==
  SubSeq([table EXCEPT ![i] = table[Len(table)]], 1, Len(table) - 1)

\* Mutant: the entry moved into a freed position is skipped.
RemoveOwnedSkipping(table, p) ==
  LET After[n \in 0 .. Len(table)] ==
        IF n = 0 THEN [services |-> table, i |-> 1]
        ELSE LET t == After[n - 1].services
                 i == After[n - 1].i
             IN [services |-> IF i <= Len(t) /\ t[i].pid = p THEN SwapRemove(t, i) ELSE t,
                 i |-> i + 1]
  IN After[Len(table)].services

\* The loop of UnregisterProcess looks at a position again after it has
\* filled it with the last entry: each of its Len(table) turns either shortens
\* the table or moves on.
RemoveOwned(table, p) ==
  LET After[n \in 0 .. Len(table)] ==
        IF n = 0 THEN [services |-> table, i |-> 1]
        ELSE LET t == After[n - 1].services
                 i == After[n - 1].i
             IN IF t[i].pid = p THEN [services |-> SwapRemove(t, i), i |-> i]
                ELSE [services |-> t, i |-> i + 1]
  IN After[Len(table)].services

\* Mutant: the kinds are taken for one another.
MatchesOtherKind(saved, kind, name) ==
  /\ saved.cmd = IF kind = "port" THEN "GetServiceHandle" ELSE "GetPort"
  /\ <<saved.name, name>> \in Prefixes

\* doRegisterServiceOrPort compares with each saved name over that name's own
\* length: a waiter for a prefix of the new name is woken too.
Matches(saved, kind, name) ==
  /\ saved.cmd = IF kind = "service" THEN "GetServiceHandle" ELSE "GetPort"
  /\ <<saved.name, name>> \in Prefixes

Woken(ls, kind, name) ==
  Selected(ls["waitRegister"], {s \in Sessions : Matches(replayCmdbuf[s], kind, name)})

\* Mutant: a woken session also stays where it was.
StillWaitingAll(ls, kind, name) == ls["waitRegister"]

StillWaiting(ls, kind, name) ==
  Selected(ls["waitRegister"], {s \in Sessions : ~Matches(replayCmdbuf[s], kind, name)})

\* Mutant: the semaphore is released once, however many were woken.
ReleasedOnce(kind, name) == IF Woken(lists, kind, name) = <<>> THEN 0 ELSE 1

ReleasedFor(kind, name) == Len(Woken(lists, kind, name))

-----------------------------------------------------------------------------
(* Commands.  ls and busy are the lists and busyClientPortHandle fields as *)
(* the loop left them before it handed the command over.                   *)

\* The command is answered at the next turn.
Answer(s) == replyTarget' = s

\* It is not: what identifies it is saved, but not word 4.
Postpone(ls, s, cmd, name, list) ==
  /\ replayCmdbuf' = [replayCmdbuf EXCEPT ![s] = [cmd |-> cmd, name |-> name]]
  /\ lists' = moveNode(ls, s, list, TRUE)
  /\ replyTarget' = None

Refuse(s) ==
  /\ Answer(s)
  /\ UNCHANGED <<lists, sessionVars, tableVars, resumeSemaphore, kernelVars>>

RegisterClient(s) ==
  /\ pid' = [pid EXCEPT ![s] = owner[s]]
  /\ Answer(s)
  /\ UNCHANGED <<lists, isSrvPm, replayCmdbuf, busyClientPortHandle, tableVars,
                 resumeSemaphore, kernelVars>>

HasRoom(p) == serverAlive[p] /\ portSessions[p] < maxSessions[p]

\* The new entry, and the sessions that were waiting for it.
AddEntry(s, kind, name, p, max) ==
  /\ ~portOpen[p]
  /\ servicesInfo' = Append(servicesInfo,
                       [kind |-> kind, name |-> name, port |-> p, pid |-> pid[s]])
  /\ lists' = [lists EXCEPT !["waitRegister"] = StillWaiting(lists, kind, name),
                            !["wakeUp"] = @ \o Woken(lists, kind, name)]
  /\ resumeSemaphore' = resumeSemaphore + ReleasedFor(kind, name)
  /\ maxSessions' = [maxSessions EXCEPT ![p] = max]
  /\ portSessions' = [portSessions EXCEPT ![p] = 0]
  /\ serverAlive' = [serverAlive EXCEPT ![p] = TRUE]
  /\ portOpen' = [portOpen EXCEPT ![p] = TRUE]
  /\ Answer(s)
  /\ UNCHANGED <<sessionVars, processes>>

\* svcCreatePort may fail.
doRegisterServiceOrPort(s, kind, name, max) ==
  \/ Registered(kind, name) /\ Refuse(s)
  \/ ~Registered(kind, name) /\ Len(servicesInfo) >= MaxServices /\ Refuse(s)
  \/ /\ ~Registered(kind, name)
     /\ Len(servicesInfo) < MaxServices
     /\ \/ \E p \in Ports : AddEntry(s, kind, name, p, max)
        \/ kind = "service" /\ Refuse(s)

UnregisterServiceOrPort(s, kind, name) ==
  \/ ~Registered(kind, name) /\ Refuse(s)
  \/ /\ Registered(kind, name)
     /\ LET i == Entry(kind, name) IN
        \/ servicesInfo[i].pid # pid[s] /\ Refuse(s)
        \/ /\ servicesInfo[i].pid = pid[s]
           /\ portOpen' = [portOpen EXCEPT ![servicesInfo[i].port] = FALSE]
           /\ servicesInfo' = SwapRemove(servicesInfo, i)
           /\ Answer(s)
           /\ UNCHANGED <<lists, sessionVars, processes, resumeSemaphore,
                          maxSessions, portSessions, serverAlive>>

GetServiceHandle(ls, busy, s, name, flags) ==
  /\ UNCHANGED <<pid, isSrvPm, tableVars, maxSessions, serverAlive, portOpen>>
  /\ \/ /\ ~Registered("service", name)
        /\ Postpone(ls, s, "GetServiceHandle", name, "waitRegister")
        /\ busyClientPortHandle' = busy
        /\ UNCHANGED portSessions
     \/ /\ Registered("service", name)
        /\ LET p == servicesInfo[Entry("service", name)].port
               full == serverAlive[p] /\ ~HasRoom(p)
           IN \/ /\ full /\ flags % 2 = 0
                 /\ Postpone(ls, s, "GetServiceHandle", name, "waitPort")
                 /\ busyClientPortHandle' = [busy EXCEPT ![s] = p]
                 /\ UNCHANGED portSessions
              \/ /\ ~full \/ flags % 2 = 1
                 /\ portSessions' =
                      [portSessions EXCEPT ![p] = IF HasRoom(p) THEN @ + 1 ELSE @]
                 /\ lists' = ls
                 /\ busyClientPortHandle' = busy
                 /\ Answer(s)
                 /\ UNCHANGED replayCmdbuf

\* Only a caller with non-zero flags waits.
GetPort(ls, busy, s, name, flags) ==
  /\ busyClientPortHandle' = busy
  /\ UNCHANGED <<pid, isSrvPm, tableVars, kernelVars>>
  /\ \/ /\ ~Registered("port", name) /\ flags # 0
        /\ Postpone(ls, s, "GetPort", name, "waitRegister")
     \/ /\ Registered("port", name) \/ flags = 0
        /\ lists' = ls
        /\ Answer(s)
        /\ UNCHANGED replayCmdbuf

RegisterProcess(s, p) ==
  /\ processes' = processes \cup {p}
  /\ Answer(s)
  /\ UNCHANGED <<lists, sessionVars, servicesInfo, resumeSemaphore, kernelVars>>

\* Closes the ports of everything the process had registered.
UnregisterProcess(s, p) ==
  \/ p \notin processes /\ Refuse(s)
  \/ /\ p \in processes
     /\ processes' = processes \ {p}
     /\ portOpen' = [q \in Ports |->
          portOpen[q] /\ ~ \E i \in DOMAIN servicesInfo :
                              servicesInfo[i].port = q /\ servicesInfo[i].pid = p]
     /\ servicesInfo' = RemoveOwned(servicesInfo, p)
     /\ Answer(s)
     /\ UNCHANGED <<lists, sessionVars, resumeSemaphore, maxSessions,
                    portSessions, serverAlive>>

\* srvPmHandleCommands hands srv: commands over before version 7 only.
Understood(s, cmd) ==
  \/ isSrvPm[s] /\ cmd \in PmCommands
  \/ isSrvPm[s] /\ PRE_7X /\ cmd \in SrvCommands
  \/ ~isSrvPm[s] /\ cmd \in SrvCommands

HandleCommand(s, c) ==
  \/ ~Understood(s, c.cmd) /\ Refuse(s)
  \/ /\ Understood(s, c.cmd)
     /\ \/ c.cmd = "RegisterClient" /\ RegisterClient(s)
        \/ /\ c.cmd = "RegisterService"
           /\ doRegisterServiceOrPort(s, "service", c.name, c.word4)
        \/ c.cmd = "RegisterPort" /\ doRegisterServiceOrPort(s, "port", c.name, 1)
        \/ c.cmd = "UnregisterService" /\ UnregisterServiceOrPort(s, "service", c.name)
        \/ c.cmd = "UnregisterPort" /\ UnregisterServiceOrPort(s, "port", c.name)
        \/ /\ c.cmd = "GetServiceHandle"
           /\ GetServiceHandle(lists, busyClientPortHandle, s, c.name, c.word4)
           /\ UNCHANGED resumeSemaphore
        \/ /\ c.cmd = "GetPort"
           /\ GetPort(lists, busyClientPortHandle, s, c.name, c.word4)
           /\ UNCHANGED resumeSemaphore
        \/ c.cmd = "IsServiceRegistered" /\ Refuse(s)
        \/ c.cmd = "RegisterProcess" /\ RegisterProcess(s, c.pid)
        \/ c.cmd = "UnregisterProcess" /\ UnregisterProcess(s, c.pid)

\* A postponed command starts again from its 16 saved bytes; word 4 is what
\* the command buffer happens to hold.
Replay(ls, busy, s) ==
  LET saved == replayCmdbuf[s] IN
  \/ /\ saved.cmd = "GetServiceHandle"
     /\ GetServiceHandle(ls, busy, s, saved.name, cmdbuf4)
  \/ /\ saved.cmd = "GetPort"
     /\ GetPort(ls, busy, s, saved.name, cmdbuf4)

-----------------------------------------------------------------------------
(* The loop                                                                *)

\* svcReplyAndReceive fails when one of its handles was closed.
HandlesValid == \A s \in In("waitPort") : portOpen[busyClientPortHandle[s]]

\* The reply is out, sm waits for an event.
Receiving == panicked = "no" /\ HandlesValid /\ replyTarget = None

\* The event of the lowest index comes first, and the semaphore has index 0.
ReceivingOther == Receiving /\ resumeSemaphore = 0

InvalidHandle ==
  /\ panicked = "no"
  /\ ~HandlesValid
  /\ panicked' = "invalidHandle"
  /\ UNCHANGED <<lists, sessionVars, tableVars, cmdbuf4, replyTarget,
                 resumeSemaphore, clientVars, kernelVars>>

Deliver ==
  /\ panicked = "no" /\ HandlesValid
  /\ replyTarget # None
  /\ client[replyTarget] = "served"
  /\ client' = [client EXCEPT ![replyTarget] = "idle"]
  /\ replyTarget' = None
  /\ UNCHANGED <<lists, sessionVars, tableVars, cmdbuf4, resumeSemaphore,
                 panicked, owner, request, kernelVars>>

\* The client is gone: sm closes its end of the session.
CloseSession(s) ==
  /\ lists' = moveNode(lists, s, "free", FALSE)
  /\ replyTarget' = None
  /\ UNCHANGED <<sessionVars, tableVars, cmdbuf4, resumeSemaphore, panicked,
                 clientVars, kernelVars>>

ReplyFailed ==
  /\ panicked = "no" /\ HandlesValid
  /\ replyTarget # None
  /\ client[replyTarget] = "closed"
  /\ CloseSession(replyTarget)

SessionClosed(s) ==
  /\ ReceivingOther
  /\ s \in In("inUse")
  /\ client[s] = "closed"
  /\ CloseSession(s)

\* allocateNode clears the node but for its links.
NewSession(srvPm, p) ==
  /\ ReceivingOther
  /\ Cardinality({s \in Sessions \ In("free") : isSrvPm[s] = srvPm}) < (IF srvPm THEN MaxSrvPm ELSE MaxSrv)
  /\ IF lists["free"] = <<>>
     THEN /\ panicked' = "pool"
          /\ UNCHANGED <<lists, sessionVars, clientVars>>
     ELSE LET s == Head(lists["free"]) IN
          /\ lists' = moveNode(lists, s, "inUse", FALSE)
          /\ pid' = [pid EXCEPT ![s] = NoPid]
          /\ isSrvPm' = [isSrvPm EXCEPT ![s] = srvPm]
          /\ replayCmdbuf' = [replayCmdbuf EXCEPT ![s] = NoSaved]
          /\ busyClientPortHandle' = [busyClientPortHandle EXCEPT ![s] = NoPort]
          /\ owner' = [owner EXCEPT ![s] = p]
          /\ client' = [client EXCEPT ![s] = "idle"]
          /\ UNCHANGED <<panicked, request>>
  /\ UNCHANGED <<tableVars, cmdbuf4, replyTarget, resumeSemaphore, kernelVars>>

\* Word 4 changes when the message is long enough to have one.
Command(s) ==
  /\ ReceivingOther
  /\ s \in In("inUse")
  /\ client[s] = "sent"
  /\ client' = [client EXCEPT ![s] = "served"]
  /\ HandleCommand(s, request[s])
  /\ cmdbuf4' = IF request[s].cmd \in {"RegisterService", "GetServiceHandle", "GetPort"}
                THEN request[s].word4
                ELSE IF request[s].cmd = "RegisterPort" THEN 0 ELSE cmdbuf4
  /\ UNCHANGED <<panicked, owner, request>>

\* Mutant: the replayed session stays on its waiting list.
StillPostponed(s) == lists

Resumed(s) == moveNode(lists, s, "inUse", FALSE)

\* Mutant: the semaphore is not looked at.
AlwaysSignalled == TRUE

Signalled == resumeSemaphore > 0

\* id == 0: a name that a session waits for was registered.
ResumeRegistered ==
  /\ Receiving
  /\ Signalled
  /\ resumeSemaphore' = resumeSemaphore - 1
  /\ \/ /\ lists["wakeUp"] = <<>>
        /\ panicked' = "nobodyToWake"
        /\ UNCHANGED <<lists, sessionVars, tableVars, replyTarget, kernelVars>>
     \/ /\ lists["wakeUp"] # <<>>
        /\ LET s == Head(lists["wakeUp"]) IN
           Replay(Resumed(s), busyClientPortHandle, s)
        /\ UNCHANGED panicked
  /\ UNCHANGED <<cmdbuf4, clientVars>>

WaitersFor(p) == {s \in In("waitPort") : busyClientPortHandle[s] = p}

\* Mutant: the session that waited least.
LastWaiterFor(p) ==
  LET i == CHOOSE k \in DOMAIN lists["waitPort"] :
             /\ lists["waitPort"][k] \in WaitersFor(p)
             /\ \A j \in k + 1 .. Len(lists["waitPort"]) :
                  lists["waitPort"][j] \notin WaitersFor(p)
  IN lists["waitPort"][i]

FirstWaiterFor(p) ==
  LET i == CHOOSE k \in DOMAIN lists["waitPort"] :
             /\ lists["waitPort"][k] \in WaitersFor(p)
             /\ \A j \in 1 .. k - 1 : lists["waitPort"][j] \notin WaitersFor(p)
  IN lists["waitPort"][i]

\* A port that sessions wait for has room again: the first of them retries.
ResumePortReady(p) ==
  /\ ReceivingOther
  /\ HasRoom(p)
  /\ WaitersFor(p) # {}
  /\ LET s == FirstWaiterFor(p) IN
     Replay(Resumed(s), [busyClientPortHandle EXCEPT ![s] = NoPort], s)
  /\ UNCHANGED <<cmdbuf4, resumeSemaphore, panicked, clientVars>>

\* The server end of such a port was closed.  The code puts the result of the
\* postponed command over the first word of the saved name.
PortClosed(p) ==
  /\ ReceivingOther
  /\ WaitersFor(p) # {} /\ ~serverAlive[p]
  /\ lists' = [lists EXCEPT
       !["waitPort"] = Selected(@, Sessions \ WaitersFor(p)),
       !["waitRegister"] = @ \o Selected(lists["waitPort"], WaitersFor(p))]
  /\ replayCmdbuf' = [s \in Sessions |->
       IF s \in WaitersFor(p) THEN [replayCmdbuf[s] EXCEPT !.name = Garbled]
                              ELSE replayCmdbuf[s]]
  /\ busyClientPortHandle' = [s \in Sessions |->
       IF s \in WaitersFor(p) THEN NoPort ELSE busyClientPortHandle[s]]
  /\ UNCHANGED <<pid, isSrvPm, tableVars, cmdbuf4, replyTarget, resumeSemaphore,
                 panicked, clientVars, kernelVars>>

-----------------------------------------------------------------------------
(* The clients and the servers                                             *)

SendRequest(s, c) ==
  /\ panicked = "no"
  /\ client[s] = "idle"
  /\ client' = [client EXCEPT ![s] = "sent"]
  /\ request' = [request EXCEPT ![s] = c]
  /\ UNCHANGED <<lists, sessionVars, tableVars, cmdbuf4, replyTarget,
                 resumeSemaphore, panicked, owner, kernelVars>>

\* The client closes its session or dies, blocked or not.
CloseClient(s) ==
  /\ panicked = "no"
  /\ client[s] # "closed"
  /\ client' = [client EXCEPT ![s] = "closed"]
  /\ UNCHANGED <<lists, sessionVars, tableVars, cmdbuf4, replyTarget,
                 resumeSemaphore, panicked, owner, request, kernelVars>>

\* A client of the service closes its session, or the service its port.
EndSession(p) ==
  /\ panicked = "no"
  /\ portSessions[p] > 0
  /\ portSessions' = [portSessions EXCEPT ![p] = @ - 1]
  /\ UNCHANGED <<lists, sessionVars, tableVars, cmdbuf4, replyTarget,
                 resumeSemaphore, panicked, clientVars, maxSessions,
                 serverAlive, portOpen>>

CloseServer(p) ==
  /\ panicked = "no"
  /\ serverAlive[p]
  /\ serverAlive' = [serverAlive EXCEPT ![p] = FALSE]
  /\ UNCHANGED <<lists, sessionVars, tableVars, cmdbuf4, replyTarget,
                 resumeSemaphore, panicked, clientVars, maxSessions,
                 portSessions, portOpen>>

Environment ==
  \/ \E s \in Sessions, c \in Requests : SendRequest(s, c)
  \/ \E s \in Sessions : CloseClient(s)
  \/ \E p \in Ports : EndSession(p) \/ CloseServer(p)

Loop ==
  \/ InvalidHandle
  \/ Deliver
  \/ ReplyFailed
  \/ ResumeRegistered
  \/ \E s \in Sessions : SessionClosed(s) \/ Command(s)
  \/ \E p \in Pids : NewSession(FALSE, p) \/ NewSession(TRUE, p)
  \/ \E p \in Ports : ResumePortReady(p) \/ PortClosed(p)

Next == Loop \/ Environment

Spec == Init /\ [][Next]_vars

\* sm keeps running, and nothing it waits for comes before the semaphore.
LoopFairness ==
  /\ WF_vars(Deliver)
  /\ WF_vars(ReplyFailed)
  /\ WF_vars(ResumeRegistered)

FairSpec == Spec /\ LoopFairness

-----------------------------------------------------------------------------
(* Properties                                                              *)

Saved == [cmd : {"none", "GetServiceHandle", "GetPort"}, name : Names \cup {Garbled}]

\* Type invariant of the loop, its lists and the service table.
TypeOK ==
  /\ lists \in [SessionLists -> Seq(Sessions)]
  /\ pid \in [Sessions -> Pids \cup {NoPid}]
  /\ isSrvPm \in [Sessions -> BOOLEAN]
  /\ replayCmdbuf \in [Sessions -> Saved]
  /\ busyClientPortHandle \in [Sessions -> Ports \cup {NoPort}]
  /\ servicesInfo \in Seq(Entries)
  /\ processes \subseteq Pids \cup {NoPid}
  /\ cmdbuf4 \in Nat
  /\ replyTarget \in Sessions \cup {None}
  /\ resumeSemaphore \in Nat
  /\ panicked \in {"no", "pool", "nobodyToWake", "invalidHandle"}
  /\ owner \in [Sessions -> Pids \cup {NoPid}]
  /\ client \in [Sessions -> {"closed", "idle", "sent", "served"}]
  /\ request \in [Sessions -> Requests \cup {NoRequest}]
  /\ maxSessions \in [Ports -> Nat]
  /\ portSessions \in [Ports -> Nat]
  /\ serverAlive \in [Ports -> BOOLEAN]
  /\ portOpen \in [Ports -> BOOLEAN]

Waiting == In("waitRegister") \cup In("wakeUp") \cup In("waitPort")

\* Every node of the pool is in exactly one of the five lists of main.c, and
\* there once, through all the moves of postponed, woken and closed sessions.
SessionsPartitioned ==
  /\ \A s \in Sessions : \E l \in SessionLists : s \in In(l)
  /\ \A l, m \in SessionLists : l # m => In(l) \cap In(m) = {}
  /\ \A l \in SessionLists : \A i, j \in DOMAIN lists[l] : lists[l][i] = lists[l][j] => i = j

\* The semaphore doRegisterServiceOrPort releases counts the sessions on the
\* wake-up list: the loop never takes event 0 and finds nobody to wake
\* (panic(0) in main.c), and nobody on the list is forgotten.
SemaphoreCountsWakeUps ==
  panicked = "no" => resumeSemaphore = Len(lists["wakeUp"])

\* A client blocked in a request that sm received is either about to be
\* answered or on a list from which an event can bring it back; and nobody
\* else is.
BlockedClientsAccounted ==
  \A s \in Sessions :
    /\ client[s] = "served" => s = replyTarget \/ s \in Waiting
    /\ s = replyTarget \/ s \in Waiting => client[s] \in {"served", "closed"}

\* The loop's account of its sessions, with the types: lists, semaphore and
\* clients agree.
LoopConsistent ==
  TypeOK /\ SessionsPartitioned /\ SemaphoreCountsWakeUps /\ BlockedClientsAccounted

Awaits(cmd, entry) ==
  /\ cmd.name = entry.name
  /\ \/ cmd.cmd = "GetServiceHandle" /\ entry.kind = "service"
     \/ cmd.cmd = "GetPort" /\ entry.kind = "port"

\* No session sleeps for a name that is registered: sm wakes all the sessions
\* waiting for it, under the kind they asked for, when it is registered, and
\* postpones none whose name is there.
NoLostWakeup ==
  \A s \in In("waitRegister"), i \in DOMAIN servicesInfo :
    ~Awaits(replayCmdbuf[s], servicesInfo[i])

\* The same of the name the client asked for, whatever has become of the
\* copy sm keeps: a client whose port was closed waits for the service to be
\* registered again, and is woken then.
ClosedPortWaiterIsWoken ==
  \A s \in In("waitRegister"), i \in DOMAIN servicesInfo :
    ~ /\ client[s] = "served"
      /\ Awaits(request[s], servicesInfo[i])
      /\ serverAlive[servicesInfo[i].port]

\* The table has at most one entry per name and kind, its ports are open and
\* not shared, and a service port sm has open is in the table: unregistration
\* by the owner, or by pm for a dead process, closes exactly what it removes.
TableMatchesPorts ==
  /\ \A i, j \in DOMAIN servicesInfo :
       \/ i = j
       \/ /\ servicesInfo[i].port # servicesInfo[j].port
          /\ \/ servicesInfo[i].kind # servicesInfo[j].kind
             \/ servicesInfo[i].name # servicesInfo[j].name
  /\ {servicesInfo[i].port : i \in DOMAIN servicesInfo} = {p \in Ports : portOpen[p]}
  /\ Len(servicesInfo) <= MaxServices

\* else if(R_FAILED(res)) panic(res): svcReplyAndReceive fails for no other
\* reason than a closed session or port.
ReceiveNeverFails == panicked # "invalidHandle"

\* A client that asked for a non-blocking GetServiceHandle is not made to wait
\* for a full port.
NonBlockingNeverWaits ==
  \A s \in In("waitPort") : request[s].word4 % 2 = 0

\* A woken session is replayed sooner or later.
WokenIsReplayed ==
  \A s \in Sessions : s \in In("wakeUp") ~> s \notin In("wakeUp")

\* Sessions waiting for the same port get their turn in the order they asked:
\* none overtakes another while both are waiting.
PortWaitersInOrder ==
  [][\A i, j \in DOMAIN lists["waitPort"] :
       LET s == lists["waitPort"][i]
           t == lists["waitPort"][j]
       IN i < j /\ busyClientPortHandle[s] = busyClientPortHandle[t]
            /\ s \in Elements(lists'["waitPort"])
            => \/ t \in Elements(lists'["waitPort"])
               \/ \E p \in Ports : busyClientPortHandle[t] = p /\ ~serverAlive[p]]_vars
=============================================================================
