----------------------------- MODULE SockServer -----------------------------
(***************************************************************************)
(* The socket server under the debugger (rosalina/source/sock_util.c) and  *)
(* how debugger.c starts and stops it.  Its thread binds the ports, polls  *)
(* the descriptors, visits the slots, and closes the gaps that connections *)
(* left; the thread of the menu signals the end and closes all descriptors *)
(* while the first one is still at work.                                   *)
(*                                                                         *)
(* A slot is an index of poll_fds and of ctx_ptrs.  A step is what a       *)
(* thread does between two calls at which it can wait.                     *)
(***************************************************************************)
EXTENDS Naturals, FiniteSets

CONSTANTS
  Listeners,       \* serv_ctxs, one per port: 1 .. n
  Clients,         \* the contexts that alloc may return
  Fds,             \* descriptors of soc:U: 1 .. n
  MAX_CTXS,
  ClientsPerServer,
  AttachSucceeds   \* accept_cb never fails

VARIABLES
  poll_fds,        \* per slot: fd, events (input is asked for), revents
  ctx_ptrs,        \* per slot: a context or NULL
  nfds, compact_needed,
  context,         \* the contexts
  used,            \* the clients between alloc and close_cb
  open,            \* descriptors that are open
  thread,          \* where the server's thread is, and its locals
  killer,          \* server_kill_connections, per thread that is inside
  shall_terminate, preTermination

serv == <<poll_fds, ctx_ptrs, nfds, compact_needed>>
vars == <<serv, context, used, open, thread, killer, shall_terminate, preTermination>>

SockAssumption ==
  /\ Listeners = 1 .. Cardinality(Listeners) /\ Fds = 1 .. Cardinality(Fds)
  /\ Clients \cap Listeners = {} /\ 0 \notin Clients
  /\ MAX_CTXS \in Nat \ {0} /\ ClientsPerServer \in Nat \ {0}
  /\ AttachSucceeds \in BOOLEAN

NoFd == 0
NULL == 0
Slots == 1 .. MAX_CTXS
Listed == 1 .. nfds
Contexts == Listeners \cup Clients
EmptySlot == [fd |-> NoFd, events |-> FALSE, revents |-> "none"]
FreshContext == [type |-> "none", should_close |-> FALSE, serv |-> NULL, n |-> 0, i |-> 0]

\* fd: a descriptor that is in no slot yet, or that is about to be closed;
\* ctx: the context it belongs to.
ThreadAt(at, i) == [at |-> at, i |-> i, fd |-> NoFd, ctx |-> NULL]
NotKilling == [at |-> "none", i |-> 0, n |-> 0]

Init ==
  /\ poll_fds = [s \in Slots |-> EmptySlot]
  /\ ctx_ptrs = [s \in Slots |-> NULL]
  /\ nfds = 0 /\ compact_needed = FALSE
  /\ context = [c \in Contexts |-> FreshContext]
  /\ used = {} /\ open = {}
  /\ thread = ThreadAt("bind", 1)
  /\ killer = [who \in {"server", "menu"} |-> NotKilling]
  /\ shall_terminate = FALSE /\ preTermination = FALSE

\* soc:U gives the lowest number, so that numbers are used again at once.
Least(S) == CHOOSE x \in S : \A y \in S : x <= y
NewFd == Least(Fds \ open)

server_should_exit == shall_terminate \/ preTermination

Thread(at) == thread.at = at /\ killer["server"].at = "none"
GoTo(at, i) == thread' = ThreadAt(at, i)
NextSlot == GoTo("visit", thread.i + 1)
Occupied(s, fd) == poll_fds' = [poll_fds EXCEPT ![s] = [EmptySlot EXCEPT !.fd = fd, !.events = TRUE]]

\* abort_connections: the thread kills the connections itself.
AbortConnections ==
  /\ killer' = [killer EXCEPT !["server"] = [at |-> "next", i |-> 1, n |-> nfds]]
  /\ GoTo("finalize", 1)

-----------------------------------------------------------------------------
(* Start *)

\* server_bind of the next port, after its retries; a socket that could not
\* be bound stays open.
Bind ==
  /\ Thread("bind") /\ thread.i \in Listeners
  /\ open' = open \cup {NewFd}
  /\ nfds' = nfds + 1
  /\ Occupied(nfds + 1, NewFd)
  /\ ctx_ptrs' = [ctx_ptrs EXCEPT ![nfds + 1] = thread.i]
  /\ context' = [context EXCEPT ![thread.i] =
       [FreshContext EXCEPT !.type = "server", !.i = nfds + 1]]
  /\ GoTo("bind", thread.i + 1)
  /\ UNCHANGED <<compact_needed, used, killer, shall_terminate, preTermination>>

BindFails ==
  /\ Thread("bind") /\ thread.i \in Listeners
  /\ open' \in {open, open \cup {NewFd}}
  /\ shall_terminate' = TRUE
  /\ GoTo("finalize", 1)
  /\ UNCHANGED <<serv, context, used, killer, preTermination>>

ServerRuns ==
  /\ Thread("bind") /\ thread.i \notin Listeners
  /\ GoTo("top", 0)
  /\ UNCHANGED <<serv, context, used, open, killer, shall_terminate, preTermination>>

-----------------------------------------------------------------------------
(* A pass of server_run *)

\* The flag of the pre-termination is tested before its event.
BeginPass ==
  /\ Thread("top") /\ ~server_should_exit /\ nfds > 0
  /\ poll_fds' = [s \in Slots |-> [poll_fds[s] EXCEPT !.revents = IF s \in Listed THEN "none" ELSE @]]
  /\ GoTo("poll", 0)
  /\ UNCHANGED <<ctx_ptrs, nfds, compact_needed, context, used, open, killer, shall_terminate,
                 preTermination>>

PassAborted ==
  /\ Thread("top") /\ shall_terminate /\ ~preTermination
  /\ AbortConnections
  /\ UNCHANGED <<serv, context, used, open, shall_terminate, preTermination>>

\* Clean up: the descriptors are closed, and stay in their slots.
CleanUp ==
  /\ Thread("top") /\ preTermination
  /\ open' = open \ {poll_fds[s].fd : s \in Listed}
  /\ GoTo("finalize", 1)
  /\ UNCHANGED <<serv, context, used, killer, shall_terminate, preTermination>>

\* socPoll reports input where it is asked for, and the end of a connection;
\* a wait of 50 ms without either changes nothing.
Poll ==
  /\ Thread("poll") /\ ~server_should_exit
  /\ \E input \in SUBSET {s \in Listed : poll_fds[s].events /\ poll_fds[s].fd \in open},
        hangup \in SUBSET {s \in Listed : poll_fds[s].fd # NoFd} :
       /\ input \cup hangup # {} /\ input \cap hangup = {}
       /\ poll_fds' = [s \in Slots |-> [poll_fds[s] EXCEPT !.revents =
            IF s \in input THEN "in" ELSE IF s \in hangup THEN "hup" ELSE "none"]]
  /\ GoTo("visit", 1)
  /\ UNCHANGED <<ctx_ptrs, nfds, compact_needed, context, used, open, killer, shall_terminate,
                 preTermination>>

\* soc:U is broken, or the end was signalled.
PollAborted ==
  /\ Thread("poll")
  /\ AbortConnections
  /\ UNCHANGED <<serv, context, used, open, shall_terminate, preTermination>>

\* server_close_ctx up to close_cb, which may wait.
BeginClose(c, i) ==
  /\ compact_needed' = TRUE
  /\ thread' = [at |-> "closing", i |-> i, fd |-> poll_fds[context[c].i].fd, ctx |-> c]

\* data_cb may return -1.
PacketFails(c, ready) == ready = "in" /\ context[c].type # "server"

\* The visit of a slot.  The context is read without a test for NULL.
Visit ==
  LET i == thread.i
      c == ctx_ptrs[i]
      ready == poll_fds[i].revents
  IN /\ Thread("visit") /\ i <= nfds
     /\ IF c = NULL THEN GoTo("crashed", i) /\ UNCHANGED compact_needed
        ELSE \/ /\ ready = "hup" \/ context[c].should_close \/ PacketFails(c, ready)
                /\ BeginClose(c, i)
             \/ /\ ready # "hup" /\ ~context[c].should_close
                /\ IF ready = "in" /\ context[c].type = "server" THEN GoTo("accept", i)
                   ELSE NextSlot
                /\ UNCHANGED compact_needed
     /\ UNCHANGED <<poll_fds, ctx_ptrs, nfds, context, used, open, killer, shall_terminate,
                    preTermination>>

\* One client fewer for the listener of a client's context.
Uncounted(c) ==
  IF context[c].type = "client" THEN [context EXCEPT ![context[c].serv].n = @ - 1] ELSE context

EmptiedSlot(c) ==
  /\ poll_fds' = [poll_fds EXCEPT ![context[c].i] = EmptySlot]
  /\ ctx_ptrs' = [ctx_ptrs EXCEPT ![context[c].i] = NULL]

\* The rest of server_close_ctx; close_cb releases the client.
EndClose ==
  LET c == thread.ctx IN
  /\ Thread("closing")
  /\ used' = used \ {c}
  /\ open' = open \ {thread.fd}
  /\ context' = [Uncounted(c) EXCEPT ![c].type = "none", ![c].should_close = FALSE]
  /\ EmptiedSlot(c)
  /\ NextSlot
  /\ UNCHANGED <<nfds, compact_needed, killer, shall_terminate, preTermination>>

\* socAccept returns.  A client that comes when the end was signalled is
\* neither listed nor closed.
Accept ==
  /\ Thread("accept")
  /\ \E fd \in {NewFd, NoFd} :
       IF server_should_exit
       THEN /\ open' = open \cup ({fd} \ {NoFd})
            /\ AbortConnections
       ELSE /\ UNCHANGED killer
            /\ IF \/ fd = NoFd
                  \/ context[ctx_ptrs[thread.i]].n = ClientsPerServer
                  \/ nfds = MAX_CTXS
               THEN NextSlot /\ UNCHANGED open
               ELSE /\ thread' = [thread EXCEPT !.at = "alloc", !.fd = fd]
                    /\ open' = open \cup {fd}
  /\ UNCHANGED <<serv, context, used, shall_terminate, preTermination>>

\* GDB_GetClient has found no context.
Refuse ==
  /\ Thread("alloc")
  /\ open' = open \ {thread.fd}
  /\ NextSlot
  /\ UNCHANGED <<serv, context, used, killer, shall_terminate, preTermination>>

Admit ==
  LET listener == ctx_ptrs[thread.i] IN
  /\ Thread("alloc") /\ nfds < MAX_CTXS
  /\ \E c \in Clients \ used :
       /\ used' = used \cup {c}
       /\ Occupied(nfds + 1, thread.fd)
       /\ ctx_ptrs' = [ctx_ptrs EXCEPT ![nfds + 1] = c]
       /\ context' = [context EXCEPT
            ![listener].n = @ + 1,
            ![c] = [type |-> "client", should_close |-> FALSE, serv |-> listener, n |-> 0,
                    i |-> nfds + 1]]
       /\ thread' = [at |-> "accepted", i |-> thread.i, fd |-> NoFd, ctx |-> c]
  /\ nfds' = nfds + 1
  /\ UNCHANGED <<compact_needed, open, killer, shall_terminate, preTermination>>

\* accept_cb: the debugger may fail to attach.
AcceptReturns ==
  /\ Thread("accepted")
  /\ \E attached \in {TRUE, AttachSucceeds} :
       IF attached THEN NextSlot /\ UNCHANGED compact_needed
       ELSE BeginClose(thread.ctx, thread.i)
  /\ UNCHANGED <<poll_fds, ctx_ptrs, nfds, context, used, open, killer, shall_terminate,
                 preTermination>>

EndPass ==
  /\ Thread("visit") /\ thread.i > nfds
  /\ IF server_should_exit THEN AbortConnections ELSE GoTo("compact", 0) /\ UNCHANGED killer
  /\ UNCHANGED <<serv, context, used, open, shall_terminate, preTermination>>

\* The slots that hold a descriptor, in order: Kept[k] is the k-th.
Kept ==
  LET kept == {s \in Listed : poll_fds[s].fd # NoFd}
  IN [k \in 1 .. Cardinality(kept) |->
        CHOOSE s \in kept : Cardinality({t \in kept : t < s}) = k - 1]


ContextsMoved ==
  [c \in Contexts |->
     LET at == {k \in DOMAIN Kept : ctx_ptrs[Kept[k]] = c}
     IN IF at = {} THEN context[c] ELSE [context[c] EXCEPT !.i = CHOOSE k \in at : TRUE]]

\* compact.  The descriptors move, what is asked for them does not, and the
\* slots beyond keep what they held.
Compact ==
  /\ Thread("compact")
  /\ IF compact_needed
     THEN /\ poll_fds' = [s \in Slots |->
               IF s \in DOMAIN Kept THEN [poll_fds[s] EXCEPT !.fd = poll_fds[Kept[s]].fd]
               ELSE poll_fds[s]]
          /\ ctx_ptrs' = [s \in Slots |-> IF s \in DOMAIN Kept THEN ctx_ptrs[Kept[s]] ELSE ctx_ptrs[s]]
          /\ context' = ContextsMoved
          /\ nfds' = Cardinality(DOMAIN Kept)
          /\ compact_needed' = FALSE
     ELSE UNCHANGED <<serv, context>>
  /\ GoTo("top", 0)
  /\ UNCHANGED <<used, open, killer, shall_terminate, preTermination>>

-----------------------------------------------------------------------------
(* The end *)

\* debuggerDisable; the pre-termination signals its own event before.
Disable ==
  /\ ~shall_terminate /\ killer["menu"].at = "none"
  /\ shall_terminate' = TRUE
  /\ killer' = [killer EXCEPT !["menu"] = [at |-> "next", i |-> 1, n |-> nfds]]
  /\ UNCHANGED <<serv, context, used, open, thread, preTermination>>

PreTerminate ==
  /\ ~preTermination /\ ~shall_terminate
  /\ preTermination' = TRUE
  /\ UNCHANGED <<serv, context, used, open, thread, killer, shall_terminate>>

\* server_kill_connections: a slot is tested before the connection is told
\* not to linger, read again to close the descriptor, and then emptied.
KillNext(who) ==
  LET k == killer[who] IN
  /\ killer[who].at = "next"
  /\ killer' = [killer EXCEPT ![who] =
       IF k.i > k.n THEN NotKilling
       ELSE IF poll_fds[k.i].fd = NoFd THEN [k EXCEPT !.i = @ + 1] ELSE [k EXCEPT !.at = "close"]]
  /\ shall_terminate' = (shall_terminate \/ (who = "server" /\ k.i > k.n))
  /\ UNCHANGED <<serv, context, used, open, thread, preTermination>>

KillClose(who) ==
  /\ killer[who].at = "close"
  /\ open' = open \ {poll_fds[killer[who].i].fd}
  /\ killer' = [killer EXCEPT ![who].at = "mark"]
  /\ UNCHANGED <<serv, context, used, thread, shall_terminate, preTermination>>

KillMark(who) ==
  LET i == killer[who].i IN
  /\ killer[who].at = "mark"
  /\ poll_fds' = [poll_fds EXCEPT ![i].fd = NoFd]
  /\ context' = IF ctx_ptrs[i] = NULL THEN context
                ELSE [context EXCEPT ![ctx_ptrs[i]].should_close = TRUE]
  /\ killer' = [killer EXCEPT ![who].at = "next", ![who].i = i + 1]
  /\ UNCHANGED <<ctx_ptrs, nfds, compact_needed, used, open, thread, shall_terminate,
                 preTermination>>

\* server_finalize closes every context a slot still points to; slots beyond
\* nfds may point to one a second time.
Finalize ==
  /\ Thread("finalize") /\ thread.i \in Slots
  /\ LET c == ctx_ptrs[thread.i] IN
     IF c = NULL THEN UNCHANGED <<poll_fds, ctx_ptrs, context, used, open>>
     ELSE /\ EmptiedSlot(c)
          /\ open' = open \ {poll_fds[context[c].i].fd}
          /\ used' = IF context[c].type = "client" THEN used \ {c} ELSE used
          /\ context' = [Uncounted(c) EXCEPT ![c].type = "none", ![c].should_close = FALSE]
  /\ GoTo("finalize", thread.i + 1)
  /\ UNCHANGED <<nfds, compact_needed, killer, shall_terminate, preTermination>>

Finalized ==
  /\ Thread("finalize") /\ thread.i \notin Slots
  /\ GoTo("done", 0)
  /\ UNCHANGED <<serv, context, used, open, killer, shall_terminate, preTermination>>

Next ==
  \/ Bind \/ BindFails \/ ServerRuns
  \/ BeginPass \/ PassAborted \/ CleanUp
  \/ Poll \/ PollAborted
  \/ Visit \/ EndClose
  \/ Accept \/ Refuse \/ Admit \/ AcceptReturns
  \/ EndPass \/ Compact
  \/ Disable \/ PreTerminate
  \/ \E who \in {"server", "menu"} : KillNext(who) \/ KillClose(who) \/ KillMark(who)
  \/ Finalize \/ Finalized

Spec == Init /\ [][Next]_vars

-----------------------------------------------------------------------------
(* Properties *)

Serving ==
  ~server_should_exit /\ thread.at \notin {"bind", "finalize", "done", "crashed"}

\* Slots and contexts name each other, and a gap is known to be one.
SlotsAgree ==
  /\ \A s \in Listed :
       /\ poll_fds[s].fd = NoFd <=> ctx_ptrs[s] = NULL
       /\ ctx_ptrs[s] = NULL => compact_needed
       /\ ctx_ptrs[s] # NULL => context[ctx_ptrs[s]].i = s
  /\ {c \in Contexts : context[c].type # "none"} = {ctx_ptrs[s] : s \in Listed} \ {NULL}
  /\ thread.at = "poll" => \A s \in Listed : poll_fds[s].fd # NoFd

\* No descriptor is leaked, shared or closed too early, and each listener
\* knows how many clients it has.
DescriptorsAccounted ==
  /\ open = ({poll_fds[s].fd : s \in Listed} \cup {thread.fd}) \ {NoFd}
  /\ \A s, t \in Listed : poll_fds[s].fd = poll_fds[t].fd /\ s # t => poll_fds[s].fd = NoFd
  /\ \A l \in Listeners :
       /\ context[l].n = Cardinality({c \in used : context[c].serv = l})
       /\ context[l].n <= ClientsPerServer


\* soc's poll is given all descriptors, "compacted together": it is asked for
\* the input of each.
EveryoneIsHeard ==
  Serving /\ thread.at = "poll" => \A s \in Listed : poll_fds[s].events
=============================================================================
