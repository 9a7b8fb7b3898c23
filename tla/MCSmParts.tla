----------------------------- MODULE MCSmParts -----------------------------
(* Three questions about sm on instances small enough for liveness: the    *)
(* pointers of list.c implement sequences, a pending notification is       *)
(* received, a client that was woken is served.  The parts do not interact *)
(* here: a behaviour is one of part, and leaves the others as they begin.  *)
EXTENDS SmListImpl

CONSTANTS
  None, NoPid, NoNotif, NoPort, Garbled,
  node1, node2, pid1, pid2, s1, s2, s3, s4, server, other, ab, a, p1, p2

VARIABLES
  part,
  processDataInUseList, freeProcessDataList, nodePid, notificationEnabled,
  pendingNotifications, receivedNotificationIndex, pendingNotificationIndex,
  nbPendingNotifications, subscribedNotifications, semaphore, woken, result, nodePanicked,
  lists, pid, isSrvPm, replayCmdbuf, busyClientPortHandle, servicesInfo, processes,
  cmdbuf4, replyTarget, resumeSemaphore, panicked, owner, client, request,
  maxSessions, portSessions, serverAlive, portOpen

notificationVars ==
  <<processDataInUseList, freeProcessDataList, nodePid, notificationEnabled,
    pendingNotifications, receivedNotificationIndex, pendingNotificationIndex,
    nbPendingNotifications, subscribedNotifications, semaphore, woken, result, nodePanicked>>
serverVars ==
  <<lists, pid, isSrvPm, replayCmdbuf, busyClientPortHandle, servicesInfo, processes,
    cmdbuf4, replyTarget, resumeSemaphore, panicked, owner, client, request,
    maxSessions, portSessions, serverAlive, portOpen>>

Notifications == INSTANCE MCSmNotifications WITH
  Nodes <- {node1, node2}, FreeOrder <- <<node1, node2>>,
  Pids <- {pid1, pid2}, Section0 <- {pid1}, NotifIds <- {"n1"},
  RingSize <- 3, MaxSubscribed <- 1, pid <- nodePid, panicked <- nodePanicked

\* Three clients and a named port they register and wait for.
Wake(c, w) == [cmd |-> c, name |-> a, word4 |-> w, pid |-> NoPid]
Server == INSTANCE MCSmServer WITH
  Sessions <- {s1, s2, s3}, FreeOrder <- <<s1, s2, s3>>,
  Pids <- {server}, Names <- {a}, Prefixes <- {<<a, a>>}, Ports <- {p1},
  Requests <- {Wake("RegisterPort", 0), Wake("UnregisterPort", 0), Wake("GetPort", 1)},
  MaxServices <- 2, MaxSrv <- 3, MaxSrvPm <- 0, PRE_7X <- FALSE

PartsInit ==
  /\ part \in {"lists", "notifications", "server"}
  /\ Init /\ Notifications!Init /\ Server!Init

PartsNext ==
  \/ part = "lists" /\ Next /\ UNCHANGED <<part, notificationVars, serverVars>>
  \/ part = "notifications" /\ Notifications!Next /\ UNCHANGED <<part, vars, serverVars>>
  \/ part = "server" /\ Server!Next /\ UNCHANGED <<part, vars, notificationVars>>

\* No action of this fairness is enabled in the initial states.
PartsSpec ==
  /\ PartsInit /\ [][PartsNext]_<<part, vars, notificationVars, serverVars>>
  /\ Notifications!ClientFairness
  /\ Server!LoopFairness

PendingIsReceived == Notifications!PendingIsReceived
WokenIsReplayed == Server!WokenIsReplayed

PartsView == <<part, vars, Notifications!MCView, Server!MCView>>
=============================================================================
