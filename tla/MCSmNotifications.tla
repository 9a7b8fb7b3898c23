------------------------- MODULE MCSmNotifications -------------------------
(* SmNotifications on a small instance: as many nodes as processes, a ring *)
(* of two or three slots, one process of section 0.                        *)
EXTENDS SmNotifications

CONSTANTS node1, node2, pid1, pid2

MCNodes == {node1, node2}
MCFreeOrder == <<node1, node2>>
MCPids == {pid1, pid2}
MCSection0 == {pid1}

\* What the next step may depend on: the fields of a free node and the ring
\* slots outside the pending range are overwritten before they are read,
\* and no command reads the previous reply.  Every action either sets the
\* reply whatever it was or leaves it, so the check of a step of SmMailbox
\* does not depend on it either.
MCView ==
  <<processDataInUseList, freeProcessDataList, panicked,
    [node \in InUse |->
       <<pid[node], notificationEnabled[node], Pending(node),
         receivedNotificationIndex[node], pendingNotificationIndex[node],
         nbPendingNotifications[node], subscribedNotifications[node],
         semaphore[node], woken[node]>>]>>
=============================================================================
