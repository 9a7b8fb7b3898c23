---------------------------- MODULE MCSmServer ----------------------------
(* SmServer on small instances: one server process, one or two clients and *)
(* pm, with the commands a run is about.                                    *)
EXTENDS SmServer, TLC

CONSTANTS s1, s2, s3, s4, server, other, ab, a, p1, p2

MCSessions2 == {s1, s2}
MCFreeOrder2 == <<s1, s2>>
MCSessions3 == {s1, s2, s3}
MCFreeOrder3 == <<s1, s2, s3>>
MCSessions4 == {s1, s2, s3, s4}
MCFreeOrder4 == <<s1, s2, s3, s4>>

\* a is a prefix of ab.
MCPrefixes == {<<a, a>>, <<ab, ab>>, <<a, ab>>}
MCPrefixes1 == {<<a, a>>}

Cmd(c, n, w) == [cmd |-> c, name |-> n, word4 |-> w, pid |-> NoPid]
Pm(c, p) == [cmd |-> c, name |-> Garbled, word4 |-> 0, pid |-> p]

\* Named ports and one service with one session: registration, waiting for
\* it and for the full port.
MCClientRequests ==
  {Cmd("RegisterPort", a, 0), Cmd("RegisterPort", ab, 0), Cmd("UnregisterPort", a, 0),
   Cmd("GetPort", a, 1),
   Cmd("RegisterService", a, 1), Cmd("UnregisterService", a, 0),
   Cmd("GetServiceHandle", a, 0), Cmd("GetServiceHandle", a, 1)}

\* One service with one session, its full port and its clients.
MCPortRequests ==
  {Cmd("RegisterService", a, 1), Cmd("UnregisterService", a, 0),
   Cmd("GetServiceHandle", a, 0), Cmd("GetServiceHandle", a, 1)}

\* Processes with their services, and pm.
MCProcessRequests ==
  {Cmd("RegisterClient", a, 0), Cmd("RegisterService", a, 4),
   Cmd("RegisterService", ab, 4), Cmd("UnregisterService", a, 0),
   Cmd("IsServiceRegistered", a, 0),
   Pm("RegisterProcess", server), Pm("UnregisterProcess", server)}

\* Waiters for one named port, for the liveness run.
MCWakeRequests ==
  {Cmd("RegisterPort", a, 0), Cmd("UnregisterPort", a, 0), Cmd("GetPort", a, 1)}

\* Many clients of a service of two sessions, none of which wants to wait.
MCNonBlockingRequests ==
  {Cmd("RegisterService", a, 2), Cmd("GetServiceHandle", a, 1)}

PortSymmetry == Permutations(Ports)

\* What the next step may depend on: the fields of a free node, the last
\* request of a client that is not waiting for sm, and the kernel's record of
\* a port sm has closed are not read again.
MCView ==
  <<lists, servicesInfo, processes, cmdbuf4, replyTarget, resumeSemaphore, panicked,
    [s \in Sessions \ In("free") |->
       <<pid[s], isSrvPm[s], owner[s], client[s],
         IF s \in Waiting THEN <<replayCmdbuf[s], busyClientPortHandle[s]>> ELSE <<>>,
         IF s \in Waiting \/ client[s] = "sent" THEN request[s] ELSE NoRequest>>],
    [p \in {q \in Ports : portOpen[q]} |->
       <<maxSessions[p], portSessions[p], serverAlive[p]>>]>>
=============================================================================
