--------------------------- MODULE ServiceManager ---------------------------
(***************************************************************************)
(* ServiceManager_Run (service_manager.c, of which loader, pm and rosalina *)
(* have a copy each): one thread that serves the sessions of several       *)
(* services.  Three arrays are kept in step: the handles it waits on, the  *)
(* service and the context of each session.  When a session ends its place *)
(* is taken by the last one, in all three.                                 *)
(*                                                                         *)
(* svcReplyAndReceive is two steps, the reply and the event: clients run   *)
(* in between.  Of several events the kernel reports the one with the      *)
(* lowest index.  The kernel counts a session against the maximum of its   *)
(* service until the server has closed its end.                            *)
(***************************************************************************)
EXTENDS Naturals, Sequences, FiniteSets

CONSTANTS
  Services,      \* the entries of services[]
  MaxSessions,   \* their maxSessions
  Clients,       \* what the kernel names a session by
  Notifications, \* what may be published to the process
  Exit,          \* notification 0x100
  Allocator,     \* an allocator of contexts was given
  MayFail,       \* the kernel, sm and the allocator may refuse a call
  Null

ASSUME ManagerAssumption ==
  /\ MaxSessions \in [Services -> Nat]
  /\ Exit \in Notifications
  /\ Allocator \in BOOLEAN /\ MayFail \in BOOLEAN
  /\ Null \notin Clients \cup Services

VARIABLES
  waitHandles,   \* from index 1 + numServices on: the sessions
  handlerIds,
  ctxs,
  replyTarget,
  cmdbuf,        \* who computed what is in the command buffer, and for whom
  pc,
  session,       \* of each client, in the kernel
  service,       \* the service it is a session of
  request,
  answer,        \* the last one it got, as long as it has the session
  published      \* notifications not yet received

serverVars == <<waitHandles, handlerIds, ctxs, replyTarget, cmdbuf, pc>>
kernelVars == <<session, service, request, answer, published>>
vars == <<serverVars, kernelVars>>

Init ==
  /\ waitHandles = <<>> /\ handlerIds = <<>> /\ ctxs = <<>>
  /\ replyTarget = Null
  /\ cmdbuf = Null
  /\ pc = "receive"
  /\ session = [c \in Clients |-> "none"]
  /\ service = [c \in Clients |-> Null]
  /\ request = [c \in Clients |-> FALSE]
  /\ answer = [c \in Clients |-> Null]
  /\ published = {}

numActiveSessions == Len(waitHandles)

-----------------------------------------------------------------------------
(* The clients and the kernel, as long as there is a server *)

\* A connection to a service that is not full; svcAcceptSession comes later.
Connect(c, s) ==
  /\ pc = "receive" /\ session[c] = "none"
  /\ Cardinality({d \in Clients : service[d] = s}) < MaxSessions[s]
  /\ session' = [session EXCEPT ![c] = "queued"]
  /\ service' = [service EXCEPT ![c] = s]
  /\ UNCHANGED <<serverVars, request, answer, published>>

\* A client waits for the answer to its request before it sends another.
SendRequest(c) ==
  /\ pc = "receive" /\ session[c] = "open" /\ ~request[c]
  /\ request' = [request EXCEPT ![c] = TRUE]
  /\ UNCHANGED <<serverVars, session, service, answer, published>>

\* A client closes its session, or ends, be it waiting or not.
CloseClient(c) ==
  /\ pc = "receive" /\ session[c] = "open"
  /\ session' = [session EXCEPT ![c] = "ended"]
  /\ request' = [request EXCEPT ![c] = FALSE]
  /\ answer' = [answer EXCEPT ![c] = Null]
  /\ UNCHANGED <<serverVars, service, published>>

PublishNotification(n) ==
  /\ pc = "receive" /\ n \notin published
  /\ published' = published \cup {n}
  /\ UNCHANGED <<serverVars, session, service, request, answer>>

\* svcCloseHandle of the server's ends.
Closed(cs) ==
  /\ answer' = [c \in Clients |-> IF c \in cs THEN Null ELSE answer[c]]
  /\ session' = [c \in Clients |-> IF c \in cs THEN "none" ELSE session[c]]
  /\ service' = [c \in Clients |-> IF c \in cs THEN Null ELSE service[c]]
  /\ request' = [c \in Clients |-> c \notin cs /\ request[c]]

-----------------------------------------------------------------------------
(* svcReplyAndReceive and what is done about its result *)

\* The element at off is replaced by the last one, which goes.
CloseUp(array, off) ==
  [i \in 1..(Len(array) - 1) |-> IF i = off THEN array[Len(array)] ELSE array[i]]

\* Mutant: the services stay where they were.
DropLast(array) == SubSeq(array, 1, Len(array) - 1)
SessionEndsAt(off) ==
  /\ waitHandles' = CloseUp(waitHandles, off)
  /\ handlerIds' = DropLast(handlerIds)
  /\ ctxs' = CloseUp(ctxs, off)
  /\ Closed({waitHandles[off]})
  /\ replyTarget' = Null
  /\ UNCHANGED <<cmdbuf, pc, published>>

SessionEnds(off) ==
  /\ waitHandles' = CloseUp(waitHandles, off)
  /\ handlerIds' = CloseUp(handlerIds, off)
  /\ ctxs' = CloseUp(ctxs, off)
  /\ Closed({waitHandles[off]})
  /\ replyTarget' = Null
  /\ UNCHANGED <<cmdbuf, pc, published>>

\* The answer reaches its client.
Deliver ==
  /\ pc = "receive" /\ replyTarget # Null
  /\ session[replyTarget] = "open"
  /\ answer' = [answer EXCEPT ![replyTarget] = cmdbuf]
  /\ request' = [request EXCEPT ![replyTarget] = FALSE]
  /\ replyTarget' = Null
  /\ UNCHANGED <<waitHandles, handlerIds, ctxs, cmdbuf, pc, session, service, published>>

\* The client has closed its session: id is -1, the session is looked for.
ReplyFailed ==
  /\ pc = "receive" /\ replyTarget # Null
  /\ session[replyTarget] # "open"
  /\ LET found == {i \in 1..numActiveSessions : waitHandles[i] = replyTarget}
     IN IF found = {}
        THEN pc' = "returned" /\ UNCHANGED <<waitHandles, handlerIds, ctxs, replyTarget,
                                             cmdbuf, kernelVars>>
        ELSE SessionEnds(CHOOSE i \in found : \A j \in found : i <= j)

\* No event has a lower index.
NoNotification == published = {}
NoConnection == \A c \in Clients : session[c] # "queued"
Signalled(i) ==
  session[waitHandles[i]] = "ended" \/ request[waitHandles[i]]
Receives == pc = "receive" /\ replyTarget = Null

Notification(n) ==
  /\ Receives /\ n \in published
  /\ published' = published \ {n}
  /\ pc' = IF n = Exit THEN "cleanup" ELSE pc
  /\ UNCHANGED <<waitHandles, handlerIds, ctxs, replyTarget, cmdbuf, session, service,
                 request, answer>>

NewSession(c) ==
  /\ Receives /\ NoNotification
  /\ session[c] = "queued"
  /\ waitHandles' = Append(waitHandles, c)
  /\ handlerIds' = Append(handlerIds, service[c])
  /\ ctxs' = Append(ctxs, IF Allocator THEN c ELSE Null)
  /\ session' = [session EXCEPT ![c] = "open"]
  /\ UNCHANGED <<replyTarget, cmdbuf, pc, service, request, answer, published>>

\* newSessionContext returns NULL: the function returns as it stands.
NoContext(c) ==
  /\ Receives /\ NoNotification /\ MayFail /\ Allocator
  /\ session[c] = "queued"
  /\ Closed({c})
  /\ pc' = "returned"
  /\ UNCHANGED <<waitHandles, handlerIds, ctxs, replyTarget, cmdbuf, published>>

\* srvReceiveNotification or svcAcceptSession fails.
CallFails ==
  /\ Receives /\ MayFail
  /\ ~NoNotification \/ ~NoConnection
  /\ pc' = "cleanup"
  /\ UNCHANGED <<waitHandles, handlerIds, ctxs, replyTarget, cmdbuf, kernelVars>>

Command(i) ==
  /\ Receives /\ NoNotification /\ NoConnection
  /\ request[waitHandles[i]]
  /\ \A j \in 1..(i - 1) : ~Signalled(j)
  /\ cmdbuf' = <<handlerIds[i], ctxs[i]>>
  /\ replyTarget' = waitHandles[i]
  /\ UNCHANGED <<waitHandles, handlerIds, ctxs, pc, kernelVars>>

SessionClosed(i) ==
  /\ Receives /\ NoNotification /\ NoConnection
  /\ session[waitHandles[i]] = "ended"
  /\ \A j \in 1..(i - 1) : ~Signalled(j)
  /\ SessionEnds(i)

\* The ports and all sessions are closed, a second time after a failure
\* below; whoever waits gets an error.
Cleanup ==
  /\ pc = "cleanup"
  /\ Closed(Clients)
  /\ pc' = "unsubscribe"
  /\ UNCHANGED <<waitHandles, handlerIds, ctxs, replyTarget, cmdbuf, published>>

\* srvUnsubscribe fails: TRY jumps back to cleanup.
UnsubscribeFails ==
  /\ pc = "unsubscribe" /\ MayFail
  /\ pc' = "cleanup"
  /\ UNCHANGED <<waitHandles, handlerIds, ctxs, replyTarget, cmdbuf, kernelVars>>

Return ==
  /\ pc = "unsubscribe"
  /\ pc' = "returned"
  /\ UNCHANGED <<waitHandles, handlerIds, ctxs, replyTarget, cmdbuf, kernelVars>>

Next ==
  \/ \E c \in Clients, s \in Services : Connect(c, s)
  \/ \E c \in Clients : SendRequest(c)
  \/ \E c \in Clients : CloseClient(c)
  \/ \E n \in Notifications : PublishNotification(n)
  \/ Deliver
  \/ ReplyFailed
  \/ \E n \in Notifications : Notification(n)
  \/ \E c \in Clients : NewSession(c)
  \/ \E c \in Clients : NoContext(c)
  \/ CallFails
  \/ \E i \in 1..numActiveSessions : Command(i)
  \/ \E i \in 1..numActiveSessions : SessionClosed(i)
  \/ Cleanup
  \/ UnsubscribeFails
  \/ Return

Spec == Init /\ [][Next]_vars
-----------------------------------------------------------------------------
(* Properties *)

TypeOK ==
  /\ waitHandles \in Seq(Clients)
  /\ handlerIds \in Seq(Services)
  /\ ctxs \in Seq(Clients \cup {Null})
  /\ replyTarget \in Clients \cup {Null}
  /\ cmdbuf \in (Services \X (Clients \cup {Null})) \cup {Null}
  /\ pc \in {"receive", "cleanup", "unsubscribe", "returned"}
  /\ session \in [Clients -> {"none", "queued", "open", "ended"}]
  /\ service \in [Clients -> Services \cup {Null}]
  /\ request \in [Clients -> BOOLEAN]
  /\ answer \in [Clients -> (Services \X (Clients \cup {Null})) \cup {Null}]
  /\ published \in SUBSET Notifications

CtxOf(c) == IF Allocator THEN c ELSE Null

\* The three arrays speak of the same sessions, each of which is there once.
ArraysAgree ==
  /\ Len(handlerIds) = numActiveSessions /\ Len(ctxs) = numActiveSessions
  /\ \A i, j \in 1..numActiveSessions :
       waitHandles[i] = waitHandles[j] => i = j
  /\ pc = "receive" =>
       \A i \in 1..numActiveSessions :
         /\ session[waitHandles[i]] \in {"open", "ended"}
         /\ handlerIds[i] = service[waitHandles[i]]
         /\ ctxs[i] = CtxOf(waitHandles[i])

\* The session that is to be answered is one of those that are waited for,
\* and what is in the command buffer was computed for it.
TargetIsActive ==
  replyTarget # Null =>
    /\ pc = "receive"
    /\ \E i \in 1..numActiveSessions : waitHandles[i] = replyTarget
    /\ cmdbuf = <<service[replyTarget], CtxOf(replyTarget)>>

\* Whatever order sessions open, send and end in, every client is answered by
\* the service it connected to with its own context, no session is lost from
\* the arrays, in them twice or written past their ends, and the search for the
\* session of an answer that failed finds it ("off >= numActiveSessions").
SessionsServed ==
  /\ ArraysAgree
  /\ TargetIsActive
  /\ \A c \in Clients :
       /\ answer[c] # Null => answer[c] = <<service[c], CtxOf(c)>>
       /\ pc = "receive" /\ session[c] \in {"open", "ended"} =>
            \E i \in 1..numActiveSessions : waitHandles[i] = c
  /\ \A s \in Services :
       Cardinality({i \in 1..numActiveSessions : handlerIds[i] = s}) <= MaxSessions[s]
=============================================================================
