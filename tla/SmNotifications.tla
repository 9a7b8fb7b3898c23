-------------------------- MODULE SmNotifications --------------------------
(***************************************************************************)
(* The process table and the notification mailboxes of the service manager *)
(* (sysmodules/sm/source/processes.c and notifications.c).                 *)
(*                                                                         *)
(* sm keeps one ProcessData node per registered process, taken from a      *)
(* fixed pool.  A node holds the process's subscriptions and a ring of     *)
(* pending notifications; a kernel semaphore, shared with the process,     *)
(* counts the notifications it has not been woken for yet.  Each command   *)
(* of srv: and srv:pm that touches this state is one action: sm serves its *)
(* commands one at a time.  The client half (waiting on the semaphore,     *)
(* then asking for the notification) is the idiom of every client in the   *)
(* repository.                                                             *)
(***************************************************************************)
EXTENDS Naturals, Sequences, SmLists

CONSTANTS
  Nodes,          \* processDataPool
  Pids,           \* the process identifiers in use
  NoPid,          \* the pid field of a node that was never used
  Section0,       \* the pids below nbSection0Modules
  NotifIds,       \* notification identifiers
  NoNotif,        \* what an unused ring slot holds
  RingSize,       \* 0x10, the capacity of pendingNotifications
  MaxSubscribed,  \* 0x11, the capacity of subscribedNotifications
  FreeOrder       \* the order buildList links the pool in

ASSUME NodesAssumption ==
  /\ FreeOrder \in Seq(Nodes)
  /\ \A node \in Nodes : \E i \in DOMAIN FreeOrder : FreeOrder[i] = node
  /\ \A i, j \in DOMAIN FreeOrder : FreeOrder[i] = FreeOrder[j] => i = j
ASSUME IdsAssumption ==
  /\ NoPid \notin Pids
  /\ Section0 \subseteq Pids
  /\ NoNotif \notin NotifIds
ASSUME CapacityAssumption ==
  /\ RingSize \in Nat \ {0}
  /\ MaxSubscribed \in Nat \ {0}

VARIABLES
  processDataInUseList,     \* nodes of the registered processes, newest first
  freeProcessDataList,      \* the other nodes, most recently freed first
  pid,                      \* the fields of ProcessData, node by node
  notificationEnabled,
  pendingNotifications,     \* the ring
  receivedNotificationIndex,
  pendingNotificationIndex,
  nbPendingNotifications,
  subscribedNotifications,  \* its length is nbSubscribed
  semaphore,                \* count of the kernel object notificationSemaphore
  woken,                    \* client: waits that returned, notification not yet asked for
  result,                   \* the last command and what it replied
  panicked                  \* the reason sm trapped, or "no"

listVars == <<processDataInUseList, freeProcessDataList, pid>>
ringVars == <<pendingNotifications, receivedNotificationIndex,
              pendingNotificationIndex, nbPendingNotifications>>
procVars == <<listVars, ringVars, notificationEnabled, subscribedNotifications,
              semaphore, woken>>
vars == <<procVars, result, panicked>>

Slots == 0 .. RingSize - 1
Flags == [onlyIfNotPending : BOOLEAN, ignoreFull : BOOLEAN]
NoFlags == [onlyIfNotPending |-> FALSE, ignoreFull |-> FALSE]

Replies == {"none", "ok", "notFound", "already", "outOfRange", "full"}
Commands ==
  {"none", "RegisterProcess", "UnregisterProcess", "EnableNotification", "Subscribe",
   "Unsubscribe", "PublishToSubscriber", "PublishAndGetSubscriber", "PublishToAll",
   "PublishToProcess", "ReceiveNotification"}
Results ==
  [cmd : Commands, p : Pids \cup {NoPid}, n : NotifIds \cup {NoNotif}, flags : Flags,
   reply : Replies]

\* A command, its parameters (for ReceiveNotification, the notification
\* received) and what it replies.
Result(cmd, p, n, flags, reply) ==
  [cmd |-> cmd, p |-> p, n |-> n, flags |-> flags, reply |-> reply]

InUse == Elements(processDataInUseList)

Init ==
  /\ processDataInUseList = <<>>
  /\ freeProcessDataList = FreeOrder
  /\ pid = [node \in Nodes |-> NoPid]
  /\ notificationEnabled = [node \in Nodes |-> FALSE]
  /\ pendingNotifications = [node \in Nodes |-> [i \in Slots |-> NoNotif]]
  /\ receivedNotificationIndex = [node \in Nodes |-> 0]
  /\ pendingNotificationIndex = [node \in Nodes |-> 0]
  /\ nbPendingNotifications = [node \in Nodes |-> 0]
  /\ subscribedNotifications = [node \in Nodes |-> <<>>]
  /\ semaphore = [node \in Nodes |-> 0]
  /\ woken = [node \in Nodes |-> 0]
  /\ result = Result("none", NoPid, NoNotif, NoFlags, "none")
  /\ panicked = "no"

-----------------------------------------------------------------------------
(* Registration                                                            *)

Found(p) == \E node \in InUse : pid[node] = p
findProcessData(p) == CHOOSE node \in InUse : pid[node] = p

\* The node findProcessData returns is ready for notifications.
Enabled(p) == Found(p) /\ notificationEnabled[findProcessData(p)]

\* A command that only replies.
Reply(r) == result' = r /\ UNCHANGED <<procVars, panicked>>

\* A command about a process.
About(cmd, p, reply) == Result(cmd, p, NoNotif, NoFlags, reply)

\* allocateNode clears the whole node; a fresh semaphore starts at 0.
doRegisterProcess(p, enable, reply) ==
  IF freeProcessDataList = <<>>
  THEN panicked' = "pool" /\ UNCHANGED <<procVars, result>>
  ELSE LET node == Head(freeProcessDataList) IN
       /\ processDataInUseList' = <<node>> \o processDataInUseList
       /\ freeProcessDataList' = Tail(freeProcessDataList)
       /\ pid' = [pid EXCEPT ![node] = p]
       /\ notificationEnabled' = [notificationEnabled EXCEPT ![node] = enable]
       /\ pendingNotifications' =
            [pendingNotifications EXCEPT ![node] = [i \in Slots |-> NoNotif]]
       /\ receivedNotificationIndex' = [receivedNotificationIndex EXCEPT ![node] = 0]
       /\ pendingNotificationIndex' = [pendingNotificationIndex EXCEPT ![node] = 0]
       /\ nbPendingNotifications' = [nbPendingNotifications EXCEPT ![node] = 0]
       /\ subscribedNotifications' = [subscribedNotifications EXCEPT ![node] = <<>>]
       /\ semaphore' = [semaphore EXCEPT ![node] = 0]
       /\ woken' = [woken EXCEPT ![node] = 0]
       /\ result' = reply
       /\ UNCHANGED panicked

\* Mutant: the process is registered whether or not it is known.
RegisterProcessUnchecked(p) ==
  doRegisterProcess(p, FALSE, About("RegisterProcess", p, "ok"))

\* srv:pm 3, sent by pm when it has created the process.
RegisterProcess(p) ==
  \/ Found(p) /\ Reply(About("RegisterProcess", p, "already"))
  \/ ~Found(p) /\ doRegisterProcess(p, FALSE, About("RegisterProcess", p, "ok"))

\* srv:pm 4, sent by pm once the process has died.
UnregisterProcess(p) ==
  \/ ~Found(p) /\ Reply(About("UnregisterProcess", p, "notFound"))
  \/ /\ Found(p)
     /\ LET node == findProcessData(p) IN
        /\ processDataInUseList' = Without(processDataInUseList, node)
        /\ freeProcessDataList' = <<node>> \o freeProcessDataList
     /\ result' = About("UnregisterProcess", p, "ok")
     /\ UNCHANGED <<pid, ringVars, notificationEnabled, subscribedNotifications,
                    semaphore, woken, panicked>>

\* srv: 2.  A section 0 module is registered on its first call.
EnableNotification(p) ==
  \/ /\ Found(p)
     /\ notificationEnabled' = [notificationEnabled EXCEPT ![findProcessData(p)] = TRUE]
     /\ result' = About("EnableNotification", p, "ok")
     /\ UNCHANGED <<listVars, ringVars, subscribedNotifications, semaphore,
                    woken, panicked>>
  \/ /\ ~Found(p) /\ p \in Section0
     /\ doRegisterProcess(p, TRUE, About("EnableNotification", p, "ok"))
  \/ ~Found(p) /\ p \notin Section0 /\ Reply(About("EnableNotification", p, "notFound"))

-----------------------------------------------------------------------------
(* Subscriptions                                                           *)

Subscribe(p, n) ==
  LET Is(reply) == Result("Subscribe", p, n, NoFlags, reply) IN
  \/ ~Enabled(p) /\ Reply(Is("notFound"))
  \/ /\ Enabled(p)
     /\ LET node == findProcessData(p)
            subs == subscribedNotifications[node]
        IN \/ n \in Elements(subs) /\ Reply(Is("already"))
           \/ /\ n \notin Elements(subs)
              /\ Len(subs) < MaxSubscribed
              /\ subscribedNotifications' =
                   [subscribedNotifications EXCEPT ![node] = Append(subs, n)]
              /\ result' = Is("ok")
              /\ UNCHANGED <<listVars, ringVars, notificationEnabled, semaphore,
                             woken, panicked>>
           \/ n \notin Elements(subs) /\ Len(subs) >= MaxSubscribed /\ Reply(Is("outOfRange"))

\* Mutant: the table does not shrink.
SwapRemoveKeepingLength(s, i) == [s EXCEPT ![i] = s[Len(s)]]

\* The entry at i takes the value of the last one, and the table shrinks.
SwapRemove(s, i) == SubSeq([s EXCEPT ![i] = s[Len(s)]], 1, Len(s) - 1)

Unsubscribe(p, n) ==
  LET Is(reply) == Result("Unsubscribe", p, n, NoFlags, reply) IN
  \/ ~Enabled(p) /\ Reply(Is("notFound"))
  \/ /\ Enabled(p)
     /\ LET node == findProcessData(p)
            subs == subscribedNotifications[node]
        IN \/ n \notin Elements(subs) /\ Reply(Is("notFound"))
           \/ \E i \in DOMAIN subs :
                /\ subs[i] = n
                /\ \A j \in 1 .. i - 1 : subs[j] # n
                /\ subscribedNotifications' =
                     [subscribedNotifications EXCEPT ![node] = SwapRemove(subs, i)]
                /\ result' = Is("ok")
                /\ UNCHANGED <<listVars, ringVars, notificationEnabled, semaphore,
                               woken, panicked>>

-----------------------------------------------------------------------------
(* Publication                                                             *)

\* Mutant: the scan misses the newest notification.
IsPendingButNewest(node, n) ==
  \E i \in 1 .. nbPendingNotifications[node] - 1 :
    pendingNotifications[node][(receivedNotificationIndex[node] + i - 1) % RingSize] = n

IsPending(node, n) ==
  \E i \in 0 .. nbPendingNotifications[node] - 1 :
    pendingNotifications[node][(receivedNotificationIndex[node] + i) % RingSize] = n

\* doPublishNotification returns early: the notification is already there.
Skipped(node, n, flags) ==
  flags.onlyIfNotPending /\ IsPending(node, n)

\* Mutant: one notification too many.
HasRoomOffByOne(node) == nbPendingNotifications[node] <= RingSize

HasRoom(node) == nbPendingNotifications[node] < RingSize

\* doPublishNotification returns false.
Fails(node, n, flags) ==
  ~Skipped(node, n, flags) /\ ~HasRoom(node) /\ ~flags.ignoreFull

\* The loops over the list stop at the first node doPublishNotification
\* fails for: Reached are the positions they get to.
Reached(targets, n, flags) ==
  {i \in targets : \A j \in targets :
     j < i => ~Fails(processDataInUseList[j], n, flags)}

\* Mutant: the index wraps one slot late.
AdvanceLate(i) == (i + 1) % (RingSize + 1)

Advance(i) == (i + 1) % RingSize

\* Mutant: the notification is stored, but nobody is woken.
NotReleased(nodes) == semaphore

\* svcReleaseSemaphore for each node of the set.
Released(nodes) ==
  [node \in Nodes |-> IF node \in nodes THEN semaphore[node] + 1 ELSE semaphore[node]]

\* Store n in the ring of each node of the set and release its semaphore,
\* which the kernel refuses above its maximum count (RingSize).
Push(nodes, n) ==
  IF \E node \in nodes : semaphore[node] >= RingSize
  THEN panicked' = "semaphore" /\ UNCHANGED procVars
  ELSE /\ pendingNotifications' = [node \in Nodes |->
            IF node \in nodes
            THEN [pendingNotifications[node] EXCEPT ![pendingNotificationIndex[node]] = n]
            ELSE pendingNotifications[node]]
       /\ pendingNotificationIndex' = [node \in Nodes |->
            IF node \in nodes
            THEN Advance(pendingNotificationIndex[node])
            ELSE pendingNotificationIndex[node]]
       /\ nbPendingNotifications' = [node \in Nodes |->
            IF node \in nodes
            THEN nbPendingNotifications[node] + 1
            ELSE nbPendingNotifications[node]]
       /\ semaphore' = Released(nodes)
       /\ UNCHANGED <<listVars, notificationEnabled, subscribedNotifications,
                      receivedNotificationIndex, woken, panicked>>

\* One loop of doPublishNotification over the given positions of the list.
Publish(cmd, p, targets, n, flags) ==
  LET reached == {processDataInUseList[i] : i \in Reached(targets, n, flags)} IN
  /\ Push({node \in reached : ~Skipped(node, n, flags) /\ HasRoom(node)}, n)
  /\ result' = Result(cmd, p, n, flags,
                 IF \E node \in reached : Fails(node, n, flags) THEN "full" ELSE "ok")

EnabledPositions ==
  {i \in DOMAIN processDataInUseList : notificationEnabled[processDataInUseList[i]]}

Subscribers(n) ==
  {i \in EnabledPositions :
     n \in Elements(subscribedNotifications[processDataInUseList[i]])}

PublishToSubscriber(n, flags) ==
  Publish("PublishToSubscriber", NoPid, Subscribers(n), n, flags)

PublishAndGetSubscriber(n) ==
  Publish("PublishAndGetSubscriber", NoPid, Subscribers(n), n, NoFlags)

PublishToAll(n) ==
  Publish("PublishToAll", NoPid, EnabledPositions, n, NoFlags)

PublishToProcess(p, n) ==
  \/ /\ ~Enabled(p)
     /\ Reply(Result("PublishToProcess", p, n, NoFlags, "notFound"))
  \/ /\ Enabled(p)
     /\ Publish("PublishToProcess", p,
                {i \in DOMAIN processDataInUseList :
                   processDataInUseList[i] = findProcessData(p)}, n, NoFlags)

-----------------------------------------------------------------------------
(* Reception                                                               *)

\* The client's svcWaitSynchronization on the semaphore it was given.
WaitNotification(p) ==
  /\ Enabled(p)
  /\ LET node == findProcessData(p) IN
     /\ semaphore[node] > 0
     /\ semaphore' = [semaphore EXCEPT ![node] = @ - 1]
     /\ woken' = [woken EXCEPT ![node] = @ + 1]
  /\ UNCHANGED <<listVars, ringVars, notificationEnabled, subscribedNotifications,
                 result, panicked>>

\* srv: 11, which clients send after a wait has returned.
ReceiveNotification(p) ==
  \/ ~Enabled(p) /\ Reply(About("ReceiveNotification", p, "notFound"))
  \/ /\ Enabled(p)
     /\ LET node == findProcessData(p) IN
        /\ woken[node] > 0
        /\ woken' = [woken EXCEPT ![node] = @ - 1]
        /\ IF nbPendingNotifications[node] = 0
           THEN /\ result' = About("ReceiveNotification", p, "notFound")
                /\ UNCHANGED ringVars
           ELSE /\ nbPendingNotifications' =
                     [nbPendingNotifications EXCEPT ![node] = @ - 1]
                /\ receivedNotificationIndex' =
                     [receivedNotificationIndex EXCEPT ![node] = Advance(@)]
                /\ result' = Result("ReceiveNotification", p,
                     pendingNotifications[node][receivedNotificationIndex[node]],
                     NoFlags, "ok")
                /\ UNCHANGED <<pendingNotifications, pendingNotificationIndex>>
     /\ UNCHANGED <<listVars, notificationEnabled, subscribedNotifications,
                    semaphore, panicked>>

-----------------------------------------------------------------------------
Running == panicked = "no"

Command ==
  \/ \E p \in Pids : Running /\ RegisterProcess(p)
  \/ \E p \in Pids : Running /\ UnregisterProcess(p)
  \/ \E p \in Pids : Running /\ EnableNotification(p)
  \/ \E p \in Pids, n \in NotifIds : Running /\ Subscribe(p, n)
  \/ \E p \in Pids, n \in NotifIds : Running /\ Unsubscribe(p, n)
  \/ \E n \in NotifIds, flags \in Flags : Running /\ PublishToSubscriber(n, flags)
  \/ \E n \in NotifIds : Running /\ PublishAndGetSubscriber(n)
  \/ \E n \in NotifIds : Running /\ PublishToAll(n)
  \/ \E p \in Pids, n \in NotifIds : Running /\ PublishToProcess(p, n)

Client ==
  \/ \E p \in Pids : Running /\ WaitNotification(p)
  \/ \E p \in Pids : Running /\ ReceiveNotification(p)

Next == Command \/ Client

Spec == Init /\ [][Next]_vars

\* A client that is woken or can be woken goes on: every notification loop
\* of the repository waits, asks for the notification and waits again.
ClientFairness ==
  \A p \in Pids : /\ WF_vars(Running /\ WaitNotification(p))
                  /\ WF_vars(Running /\ Enabled(p) /\ ReceiveNotification(p))

FairSpec == Spec /\ ClientFairness

-----------------------------------------------------------------------------
(* Properties                                                              *)

\* Type invariant of the process table, the rings and the semaphores.
TypeOK ==
  /\ processDataInUseList \in Seq(Nodes)
  /\ freeProcessDataList \in Seq(Nodes)
  /\ pid \in [Nodes -> Pids \cup {NoPid}]
  /\ notificationEnabled \in [Nodes -> BOOLEAN]
  /\ pendingNotifications \in [Nodes -> [Slots -> NotifIds \cup {NoNotif}]]
  /\ receivedNotificationIndex \in [Nodes -> Slots]
  /\ pendingNotificationIndex \in [Nodes -> Slots]
  /\ nbPendingNotifications \in [Nodes -> 0 .. RingSize]
  /\ subscribedNotifications \in [Nodes -> Seq(NotifIds)]
  /\ semaphore \in [Nodes -> 0 .. RingSize]
  /\ woken \in [Nodes -> Nat]
  /\ result \in Results
  /\ panicked \in {"no", "pool", "semaphore"}

\* A node is either free or registered, once, and no process has two nodes:
\* RegisterProcess by pm and the self-registration of EnableNotification
\* never both succeed for one process (processes.c:RegisterProcess,
\* notifications.c:EnableNotification).
NodesPartitioned ==
  LET all == processDataInUseList \o freeProcessDataList IN
  /\ Elements(all) = Nodes
  /\ \A i, j \in DOMAIN all : all[i] = all[j] => i = j
  /\ \A m, node \in InUse : pid[m] = pid[node] => m = node

\* The semaphore and the ring agree: what the client may still be woken for
\* and what it was woken for but has not fetched is exactly what the ring
\* holds.  A woken client therefore always finds a notification, and
\* svcReleaseSemaphore in doPublishNotification never overflows.
SemaphoreMatchesRing ==
  \A node \in Nodes :
    semaphore[node] + woken[node] = nbPendingNotifications[node]

\* The write index of the ring is the read index plus the pending count:
\* the oldest pending notification is never overwritten.
RingIndicesAgree ==
  \A node \in Nodes :
    pendingNotificationIndex[node] =
      (receivedNotificationIndex[node] + nbPendingNotifications[node]) % RingSize

\* assertSuccess(svcReleaseSemaphore(...)) in doPublishNotification never
\* traps, in spite of clients that consume the semaphore and the ring at
\* different moments.
SemaphoreNeverOverflows == panicked # "semaphore"

\* allocateNode never finds the pool empty when there are at least as many
\* nodes as processes: both registration paths and UnregisterProcess keep
\* one node per process and return it (list.c panics).
PoolNeverExhausted == panicked # "pool"

\* A subscription table never lists a notification twice, whatever
\* Unsubscribe's swap with the last entry does to its order, and never
\* exceeds its array.
SubscriptionsAreASet ==
  \A node \in Nodes :
    LET subs == subscribedNotifications[node] IN
    /\ Len(subs) <= MaxSubscribed
    /\ \A i, j \in DOMAIN subs : subs[i] = subs[j] => i = j

\* The table of processes is whole: types, nodes, pool and subscriptions.
TableConsistent ==
  TypeOK /\ NodesPartitioned /\ PoolNeverExhausted /\ SubscriptionsAreASet

\* The oldest notification pending for a registered process is fetched
\* sooner or later, or the process dies.
PendingIsReceived ==
  \A node \in Nodes, i \in Slots :
    (node \in InUse /\ nbPendingNotifications[node] > 0
       /\ receivedNotificationIndex[node] = i)
      ~> (node \notin InUse \/ receivedNotificationIndex[node] # i)

-----------------------------------------------------------------------------
(* The promise of SmMailbox                                                *)

\* What the ring of a node holds, oldest first.
Pending(node) ==
  [i \in 1 .. nbPendingNotifications[node] |->
     pendingNotifications[node][(receivedNotificationIndex[node] + i - 1) % RingSize]]

Mailbox == INSTANCE SmMailbox WITH
  Capacity <- RingSize,
  MaxWanted <- MaxSubscribed,
  known <- {p \in Pids : Found(p)},
  listening <- {p \in Pids : Enabled(p)},
  wanted <- [p \in Pids |->
               IF Found(p) THEN Elements(subscribedNotifications[findProcessData(p)])
                           ELSE {}],
  box <- [p \in Pids |-> IF Found(p) THEN Pending(findProcessData(p)) ELSE <<>>],
  answer <- result

\* The rings, lists and subscription tables implement mailboxes: a
\* notification is received in the order it was published, by the processes
\* that subscribed to it, and a publisher told of success has reached all of
\* them but those its flags excuse (doPublishNotification and the loops
\* around it).
ImplementsMailbox == Mailbox!Spec
=============================================================================
