----------------------------- MODULE GdbServer -----------------------------
(***************************************************************************)
(* The debugger's server (rosalina/source/gdb/server.c, monitor.c, the     *)
(* commands of debug.c that begin or end a session, gdb.c, debugger.c, and *)
(* of sock_util.c the loop and the end of a connection).  Two threads      *)
(* share the contexts: "socket" accepts clients and handles their packets, *)
(* and the monitor waits for what each context has to wait for: that a     *)
(* process is attached, that it is continued, or a debug event.  The menus *)
(* select processes for contexts, and the next application.                *)
(*                                                                         *)
(* Each context has a recursive lock.  A step is what is done under locks; *)
(* only two places keep them while they wait: the commands that detach,    *)
(* and the menu that unselects a process.                                  *)
(***************************************************************************)
EXTENDS Naturals, FiniteSets

CONSTANTS
  Ctxs,       \* the contexts: 1 .. MAX_DEBUG
  BasePorts,  \* GDB_PORT_BASE and the following, one per context
  NextPort,   \* the port of the next application
  Procs,      \* processes
  NextApp,    \* the process the next application will be
  Prompt      \* neither thread is preempted by the other

GdbAssumption ==
  /\ Ctxs \subseteq Nat \ {0} /\ Ctxs # {} /\ IsFiniteSet(Ctxs)
  /\ BasePorts \subseteq Nat \ {0} /\ IsFiniteSet(BasePorts)
  /\ NextPort \in Nat \ ({0} \cup BasePorts)
  /\ NextApp \notin Procs /\ "none" \notin Procs \cup {NextApp}
  /\ Prompt \in BOOLEAN

VARIABLES
  ctx,                   \* the contexts
  client,                \* the context of the client of each port, or 0
  statusUpdated,         \* one-shot
  statusUpdateReceived,  \* sticky
  shall_terminate,
  nextApplicationGdbCtx,
  monitor, socket, menu, \* where the threads are
  proc                   \* the processes and their pending debug events

vars == <<ctx, client, statusUpdated, statusUpdateReceived, shall_terminate,
          nextApplicationGdbCtx, monitor, socket, menu, proc>>

status == <<statusUpdated, statusUpdateReceived>>
outside == <<nextApplicationGdbCtx, menu>>

Ports == BasePorts \cup {NextPort}
Debuggable == Procs \cup {NextApp}
Least(S) == CHOOSE x \in S : \A y \in S : x <= y
Greatest(S) == CHOOSE x \in S : \A y \in S : x >= y

NoProc == "none"
AllocatedMask == {"selected", "used"}
RestartMask == {"noack", "extended", "used"}
AllFlags == AllocatedMask \cup RestartMask \cup {"continuing", "terminate", "atStart"}

\* handles: the copies of eventToWaitFor, used in the wait only; c: the context
\* that was signalled.
MonitorAt(at, c) == [at |-> at, handles |-> [x \in Ctxs |-> "attached"], c |-> c]

\* GDB_InitializeContext.  attached, continued: the two events; lost: the
\* connection is broken.
FreshContext ==
  [flags |-> {}, state |-> "disconnected", localPort |-> 0, pid |-> NoProc, debug |-> NoProc,
   eventToWaitFor |-> "attached", attached |-> FALSE, continued |-> FALSE, lost |-> FALSE]

Init ==
  /\ ctx = [c \in Ctxs |-> FreshContext]
  /\ client = [p \in Ports |-> 0]
  /\ statusUpdated = FALSE /\ statusUpdateReceived = FALSE
  /\ shall_terminate = FALSE
  /\ nextApplicationGdbCtx = 0
  /\ monitor = MonitorAt("start", 0)
  /\ socket = [at |-> "poll", c |-> 0]
  /\ menu = 0
  /\ proc = [p \in Debuggable |-> [run |-> "running", pending |-> "none"]]

Allocated(c) == ctx[c].flags \cap AllocatedMask # {}
Free == {c \in Ctxs : ~Allocated(c)}

\* Who keeps the lock of a context while it waits.
Locked(c) == menu # 0 \/ (socket.at = "detachAck" /\ socket.c = c)
CanLockAll == \A c \in Ctxs : ~Locked(c)

referenceCount ==
  Cardinality({monitor.at} \ {"start", "ended"}) + Cardinality({socket.at} \ {"ended"})

\* The event a copied handle stands for is signalled.
Signalled(c) ==
  CASE monitor.handles[c] = "attached" -> ctx[c].attached
    [] monitor.handles[c] = "continued" -> ctx[c].continued
    [] monitor.handles[c] = "debug" ->
         ctx[c].debug # NoProc /\ proc[ctx[c].debug].pending # "none"
    [] OTHER -> FALSE

\* The two threads have one priority and one core: one runs while the other
\* waits for soc:U, a lock or an event; or they are preempted.
MonitorRuns ==
  Prompt => socket.at \in {"poll", "awaitDebug", "detachAck", "closeAck", "ended"}

MonitorWaits ==
  Prompt => \/ monitor.at = "ended"
            \/ monitor.at = "read" /\ ~CanLockAll
            \/ monitor.at = "lock" /\ Locked(monitor.c)
            \/ /\ monitor.at = "waiting" /\ ~statusUpdated /\ ~shall_terminate
               /\ \A c \in Ctxs : ~Signalled(c)

SocketAt(at) == socket' = [socket EXCEPT !.at = at]
Debugged(p) == \E c \in Ctxs : ctx[c].debug = p

-----------------------------------------------------------------------------
(* Attaching and detaching *)

\* svcDebugActiveProcess succeeds, and the process stops.
CanAttach(p) == p \in Debuggable /\ ~Debugged(p) /\ proc[p].run = "running"

\* GDB_AttachToProcess has got the first debug events.
AttachedTo(x, p) ==
  [x EXCEPT !.pid = p, !.debug = p, !.attached = TRUE, !.state = "attached"]

Stopped(p) == [proc EXCEPT ![p] = [run |-> "stopped", pending |-> "none"]]

\* GDB_DetachFromProcess: the pending events are dropped, the process goes on
\* or ends, and the handle is closed.
Detached(x) == [x EXCEPT !.debug = NoProc, !.pid = NoProc, !.eventToWaitFor = "attached"]

\* In extended mode the connection and its flags are kept.
DetachedExtended(x, s) == [Detached(x) EXCEPT !.state = s, !.flags = x.flags \cap RestartMask]

Released(c) ==
  IF ctx[c].debug = NoProc THEN proc
  ELSE [proc EXCEPT ![ctx[c].debug] =
         [run |-> IF "terminate" \in ctx[c].flags \/ @.run = "ended" THEN "ended" ELSE "running",
          pending |-> "none"]]

\* What becomes of the monitor's copy of the handle: closed before the wait
\* begins, or while it goes on.
HandleClosed(c) ==
  IF monitor.handles[c] = "debug"
  THEN [monitor EXCEPT !.handles[c] = IF monitor.at = "waiting" THEN "dead" ELSE "closed"]
  ELSE monitor

-----------------------------------------------------------------------------
(* The monitor *)

MonitorStarts ==
  /\ MonitorRuns /\ monitor.at = "start"
  /\ monitor' = MonitorAt("read", 0)
  /\ UNCHANGED <<ctx, client, status, shall_terminate, outside, socket, proc>>

\* The handles to wait for are read under all locks.
ReadHandles ==
  /\ MonitorRuns /\ monitor.at = "read"
  /\ CanLockAll
  /\ monitor' = [monitor EXCEPT !.at = "wait", !.handles = [c \in Ctxs |->
       IF ctx[c].eventToWaitFor = "debug" /\ ctx[c].debug = NoProc THEN "closed"
       ELSE ctx[c].eventToWaitFor]]
  /\ UNCHANGED <<ctx, client, status, shall_terminate, outside, socket, proc>>

\* svcWaitSynchronizationN fails when one of the handles is not valid, and
\* the monitor ends.
BeginWait ==
  /\ MonitorRuns /\ monitor.at = "wait"
  /\ monitor' = IF \E c \in Ctxs : monitor.handles[c] = "closed" THEN MonitorAt("ended", 0)
                ELSE [monitor EXCEPT !.at = "waiting"]
  /\ UNCHANGED <<ctx, client, status, shall_terminate, outside, socket, proc>>

MonitorTerminated ==
  /\ MonitorRuns /\ monitor.at = "waiting" /\ shall_terminate
  /\ monitor' = MonitorAt("ended", 0)
  /\ UNCHANGED <<ctx, client, status, shall_terminate, outside, socket, proc>>

\* Mutant: the update is not acknowledged.
AcknowledgesNothing == FALSE

Acknowledges == TRUE

StatusWasUpdated ==
  /\ MonitorRuns /\ monitor.at = "waiting" /\ ~shall_terminate /\ statusUpdated
  /\ statusUpdated' = FALSE
  /\ statusUpdateReceived' = (statusUpdateReceived \/ Acknowledges)
  /\ monitor' = MonitorAt(IF socket.at = "ended" THEN "ended" ELSE "read", 0)
  /\ UNCHANGED <<ctx, client, shall_terminate, outside, socket, proc>>

\* The first of the contexts with something to do; continuedEvent is one-shot.
WakeForContext ==
  /\ MonitorRuns /\ monitor.at = "waiting" /\ ~shall_terminate /\ ~statusUpdated
  /\ LET signalled == {c \in Ctxs : Signalled(c)} IN
       /\ signalled # {}
       /\ monitor' = MonitorAt("lock", Least(signalled))
       /\ IF monitor.handles[Least(signalled)] = "continued"
          THEN ctx' = [ctx EXCEPT ![Least(signalled)].continued = FALSE]
          ELSE UNCHANGED ctx
  /\ UNCHANGED <<client, status, shall_terminate, outside, socket, proc>>

NowWaitsFor(c, event) == ctx' = [ctx EXCEPT ![c].eventToWaitFor = event]

\* The process is gone, or the client did not take the report of an event
\* that is continued without it: remaining events are dropped, and only in
\* extended mode the process is detached.
ProcessGone(c) ==
  /\ ctx' = [ctx EXCEPT ![c] =
       IF "extended" \in @.flags
       THEN [DetachedExtended(@, "detaching") EXCEPT !.attached = FALSE]
       ELSE [@ EXCEPT !.attached = FALSE, !.eventToWaitFor = "attached"]]
  /\ proc' = IF "extended" \in ctx[c].flags THEN Released(c)
             ELSE [proc EXCEPT ![ctx[c].debug].pending = "none"]

\* GDB_HandleDebugEvents with what the monitor makes of its result; sent: the
\* client took the report.
HandleDebugEvent(c, sent) ==
  LET p == ctx[c].debug
      event == IF p = NoProc THEN "none" ELSE proc[p].pending
      continued == [proc EXCEPT ![p] = [run |-> "running", pending |-> "none"]]
  IN CASE event = "none" -> UNCHANGED <<ctx, proc>>
       [] event = "stop" ->
            /\ ctx' = [ctx EXCEPT ![c].flags = @ \ {"continuing"}, ![c].lost = ~sent,
                                  ![c].eventToWaitFor = IF sent THEN "continued" ELSE @]
            /\ proc' = [proc EXCEPT ![p].pending = "none"]
       [] event = "output" ->
            /\ proc' = continued
            /\ IF sent THEN UNCHANGED ctx
               ELSE ctx' = [ctx EXCEPT ![c].attached = FALSE, ![c].eventToWaitFor = "attached",
                                       ![c].lost = TRUE]
       [] event = "exit" -> ProcessGone(c)

\* The monitor has the lock.  What it does depends on the context as it is
\* now, not on the handle that was signalled.
HandleContext ==
  /\ MonitorRuns /\ monitor.at = "lock" /\ ~Locked(monitor.c)
  /\ LET c == monitor.c IN
     IF ctx[c].state \in {"disconnected", "detaching"}
     THEN /\ ctx' = [ctx EXCEPT ![c].attached = FALSE, ![c].eventToWaitFor = "attached"]
          /\ UNCHANGED proc
     ELSE IF ctx[c].eventToWaitFor = "attached" THEN NowWaitsFor(c, "continued") /\ UNCHANGED proc
     ELSE IF ctx[c].eventToWaitFor = "continued" THEN NowWaitsFor(c, "debug") /\ UNCHANGED proc
     ELSE \E sent \in BOOLEAN : HandleDebugEvent(c, sent)
  /\ monitor' = MonitorAt(IF socket.at = "ended" THEN "ended" ELSE "read", 0)
  /\ UNCHANGED <<client, status, shall_terminate, outside, socket>>

Monitor ==
  \/ MonitorStarts \/ ReadHandles \/ BeginWait \/ MonitorTerminated
  \/ StatusWasUpdated \/ WakeForContext \/ HandleContext

-----------------------------------------------------------------------------
(* The socket thread: clients come *)

\* GDB_GetClient: the context that was selected for the port, or a free one.
Accept(port) ==
  LET tied == {c \in Ctxs : ctx[c].localPort = port}
      c == IF tied # {} THEN Least(tied) ELSE Least(Free)
  IN /\ socket.at = "poll" /\ ~shall_terminate /\ MonitorWaits
     /\ client[port] = 0
     /\ CanLockAll
     /\ IF tied # {} THEN "used" \notin ctx[c].flags ELSE port \in BasePorts /\ Free # {}
     /\ ctx' = [ctx EXCEPT ![c].flags = @ \cup {"used"}, ![c].state = "connected",
                           ![c].localPort = port]
     /\ client' = [client EXCEPT ![port] = c]
     /\ socket' = [at |-> IF port = NextPort THEN "awaitDebug" ELSE "accept", c |-> c]
     /\ UNCHANGED <<status, shall_terminate, outside, monitor, proc>>

\* The client of the next application waits for it, and everything with it.
NextApplicationArrived ==
  /\ socket.at = "awaitDebug" /\ ~Locked(socket.c) /\ MonitorWaits
  /\ ctx[socket.c].debug # NoProc
  /\ SocketAt("accept")
  /\ UNCHANGED <<ctx, client, status, shall_terminate, outside, monitor, proc>>

\* GDB_AcceptClient.  A process that was started for the debugger has its
\* handle already; then the first events may fail to come.
AcceptClient ==
  LET c == socket.c
      started == "atStart" \in ctx[c].flags
      p == IF started THEN ctx[c].debug ELSE ctx[c].pid
  IN /\ socket.at = "accept" /\ ~Locked(c)
     /\ \E attaches \in BOOLEAN :
          /\ attaches => "selected" \in ctx[c].flags
          /\ ~started => attaches = ("selected" \in ctx[c].flags /\ CanAttach(p))
          /\ IF attaches
             THEN ctx' = [ctx EXCEPT ![c] = AttachedTo(@, p)] /\ proc' = Stopped(p)
             ELSE UNCHANGED <<ctx, proc>>
          /\ SocketAt(IF "selected" \in ctx[c].flags /\ ~attaches THEN "closing" ELSE "poll")
     /\ UNCHANGED <<client, status, shall_terminate, outside, monitor>>

-----------------------------------------------------------------------------
(* Packets: GDB_DoPacket and the handlers that move a session *)

\* The context of a client whose packet is handled.
Packet(c) ==
  /\ socket.at = "poll" /\ ~shall_terminate /\ MonitorWaits
  /\ \E port \in Ports : client[port] = c
  /\ ~Locked(c) /\ ~ctx[c].lost

\* GDB_ContinueExecution; continuedEvent is signalled if it did not continue.
Continue(c) ==
  /\ Packet(c) /\ ctx[c].state = "attached"
  /\ ctx' = [ctx EXCEPT ![c].flags = @ \cup {"continuing"},
                        ![c].continued = @ \/ "continuing" \notin ctx[c].flags]
  /\ proc' = IF proc[ctx[c].debug] = [run |-> "stopped", pending |-> "none"]
             THEN [proc EXCEPT ![ctx[c].debug].run = "running"] ELSE proc
  /\ UNCHANGED <<client, status, shall_terminate, outside, monitor, socket>>

\* GDB_HandleBreak: svcBreakDebugProcess stops a process that runs.
Break(c) ==
  /\ Packet(c) /\ "continuing" \in ctx[c].flags /\ ctx[c].debug # NoProc
  /\ IF proc[ctx[c].debug].run = "running"
     THEN /\ ctx' = [ctx EXCEPT ![c].flags = @ \ {"continuing"}]
          /\ proc' = [proc EXCEPT ![ctx[c].debug] = [run |-> "stopped", pending |-> "stop"]]
     ELSE UNCHANGED <<ctx, proc>>
  /\ UNCHANGED <<client, status, shall_terminate, outside, monitor, socket>>

EnableExtendedMode(c) ==
  /\ Packet(c) /\ ctx[c].state # "detaching" /\ ctx[c].localPort \in BasePorts
  /\ ctx' = [ctx EXCEPT ![c].flags = @ \cup {"extended"}]
  /\ UNCHANGED <<client, status, shall_terminate, outside, monitor, socket, proc>>

\* GDB_DetachImmediatelyExtended begins: its own lock is given back, that of
\* GDB_DoPacket is not.
DetachImmediatelyExtended(x) ==
  [x EXCEPT !.state = "detaching", !.attached = FALSE, !.eventToWaitFor = "attached"]

\* vAttach, by a client that debugs nothing.
Attach(c, p) ==
  /\ Packet(c) /\ "extended" \in ctx[c].flags
  /\ ctx[c].state = "connected" /\ ctx[c].debug = NoProc
  /\ IF CanAttach(p)
     THEN /\ ctx' = [ctx EXCEPT ![c] = AttachedTo(@, p)]
          /\ proc' = Stopped(p)
          /\ UNCHANGED <<status, socket>>
     ELSE /\ ctx' = [ctx EXCEPT ![c] = [DetachImmediatelyExtended(@) EXCEPT !.pid = p]]
          /\ statusUpdateReceived' = FALSE /\ statusUpdated' = TRUE
          /\ socket' = [at |-> "detachAck", c |-> c]
          /\ UNCHANGED proc
  /\ UNCHANGED <<client, shall_terminate, outside, monitor>>

\* D and k.  Without extended mode the connection is closed.
DetachOrKill(c, kill) ==
  LET flags == ctx[c].flags \cup (IF kill THEN {"terminate"} ELSE {})
  IN /\ Packet(c) /\ ctx[c].state # "detaching"
     /\ IF "extended" \in flags
        THEN /\ ctx' = [ctx EXCEPT ![c] = [DetachImmediatelyExtended(@) EXCEPT !.flags = flags]]
             /\ statusUpdateReceived' = FALSE /\ statusUpdated' = TRUE
             /\ socket' = [at |-> "detachAck", c |-> c]
        ELSE /\ ctx' = [ctx EXCEPT ![c].state = "detaching", ![c].flags = flags]
             /\ socket' = [at |-> "closing", c |-> c]
             /\ UNCHANGED status
     /\ UNCHANGED <<client, shall_terminate, outside, monitor, proc>>

\* The monitor has acknowledged; then GDB_DoPacket ends.
FinishDetach ==
  LET c == socket.c IN
  /\ socket.at = "detachAck" /\ statusUpdateReceived /\ MonitorWaits
  /\ ctx' = [ctx EXCEPT ![c] = DetachedExtended(@, "connected")]
  /\ proc' = Released(c)
  /\ monitor' = HandleClosed(c)
  /\ SocketAt("poll")
  /\ UNCHANGED <<client, status, shall_terminate, outside>>

\* Any other packet; in extended mode it ends the state in which the end of
\* the process has left the context.
OtherPacket(c) ==
  /\ Packet(c) /\ ctx[c].state = "detaching"
  /\ ctx' = [ctx EXCEPT ![c].state = "connected"]
  /\ UNCHANGED <<client, status, shall_terminate, outside, monitor, socket, proc>>

-----------------------------------------------------------------------------
(* The socket thread: clients go *)

Hangup(port) ==
  /\ socket.at = "poll" /\ ~shall_terminate /\ MonitorWaits
  /\ client[port] # 0
  /\ socket' = [at |-> "closing", c |-> client[port]]
  /\ UNCHANGED <<ctx, client, status, shall_terminate, outside, monitor, proc>>

\* GDB_CloseClient: the monitor is told that there is nothing to wait for,
BeginClose ==
  LET c == socket.c IN
  /\ socket.at = "closing" /\ ~Locked(c)
  /\ ctx' = [ctx EXCEPT ![c].attached = FALSE, ![c].eventToWaitFor = "attached"]
  /\ statusUpdateReceived' = FALSE /\ statusUpdated' = TRUE
  /\ SocketAt("closeTest")
  /\ UNCHANGED <<client, shall_terminate, outside, monitor, proc>>

TestReferences ==
  /\ socket.at = "closeTest"
  /\ SocketAt(IF referenceCount >= 2 THEN "closeAck" ELSE "close")
  /\ UNCHANGED <<ctx, client, status, shall_terminate, outside, monitor, proc>>

CloseAcknowledged ==
  /\ socket.at = "closeAck" /\ statusUpdateReceived /\ MonitorWaits
  /\ SocketAt("close")
  /\ UNCHANGED <<ctx, client, status, shall_terminate, outside, monitor, proc>>

\* Mutant: the handle is not closed.
DetachedKeepingHandle(c) == ctx[c]

DetachedIfDebugging(c) ==
  IF ctx[c].state \in {"attached", "detaching"} \/ ctx[c].debug # NoProc
  THEN Detached(ctx[c]) ELSE ctx[c]

Closed(c) ==
  [DetachedIfDebugging(c) EXCEPT !.localPort = 0, !.flags = {}, !.state = "disconnected",
                                 !.lost = FALSE]

\* and then the session ends.
CloseClient ==
  LET c == socket.c IN
  /\ socket.at = "close" /\ ~Locked(c)
  /\ ctx' = [ctx EXCEPT ![c] = Closed(c)]
  /\ proc' = Released(c)
  /\ monitor' = HandleClosed(c)
  /\ client' = [p \in Ports |-> IF client[p] = c THEN 0 ELSE client[p]]
  /\ socket' = [at |-> "poll", c |-> 0]
  /\ UNCHANGED <<status, shall_terminate, outside>>

SocketTerminated ==
  /\ socket.at = "poll" /\ shall_terminate
  /\ SocketAt("ended")
  /\ UNCHANGED <<ctx, client, status, shall_terminate, outside, monitor, proc>>

\* What the socket thread does without a client.
Socket ==
  \/ NextApplicationArrived \/ AcceptClient \/ FinishDetach
  \/ BeginClose \/ TestReferences \/ CloseAcknowledged \/ CloseClient
  \/ SocketTerminated

-----------------------------------------------------------------------------
(* The menus and the service of the debugger *)

\* GDB_SelectAvailableContext: the free context and the ports not used.
FreePorts(ports) == {p \in ports : \A c \in Ctxs : ~(Allocated(c) /\ ctx[c].localPort = p)}

\* GDB_FindAllocatedContextByPid.
FoundByPid(p) ==
  LET with == {c \in Ctxs : ctx[c].pid = p /\
                 ("selected" \in ctx[c].flags \/ ctx[c].state = "attached")}
  IN IF with = {} THEN 0 ELSE Greatest(with)

\* ProcessListMenu_HandleSelected: a process is selected, or unselected;
Select(p) ==
  LET c == FoundByPid(p) IN
  /\ menu = 0 /\ CanLockAll /\ ~shall_terminate
  /\ IF c = 0
     THEN /\ Free # {} /\ FreePorts(BasePorts) # {}
          /\ ctx' = [ctx EXCEPT ![Least(Free)].flags = @ \cup {"selected"},
                                ![Least(Free)].localPort = Least(FreePorts(BasePorts)),
                                ![Least(Free)].pid = p]
     ELSE /\ "selected" \in ctx[c].flags /\ "used" \notin ctx[c].flags
          /\ ctx[c].localPort \in BasePorts
          /\ ctx' = [ctx EXCEPT ![c].flags = @ \ {"selected"}, ![c].localPort = 0]
  /\ UNCHANGED <<client, status, shall_terminate, nextApplicationGdbCtx, menu, monitor, socket,
                 proc>>

\* a client is to be closed, which the menu awaits with all locks.
Unselect(p) ==
  LET c == FoundByPid(p) IN
  /\ menu = 0 /\ CanLockAll /\ ~shall_terminate
  /\ c # 0 /\ AllocatedMask \subseteq ctx[c].flags
  /\ menu' = c
  /\ UNCHANGED <<ctx, client, status, shall_terminate, nextApplicationGdbCtx, monitor, socket,
                 proc>>

\* should_close is reset when the client is closed.
Unselected ==
  /\ menu # 0
  /\ \A port \in Ports : client[port] # menu
  /\ menu' = 0
  /\ UNCHANGED <<ctx, client, status, shall_terminate, nextApplicationGdbCtx, monitor, socket,
                 proc>>

\* debugNextApplicationByForce.  When the port is used still, the context
\* that was found gets every flag but one.
DebugNextApplication ==
  /\ menu = 0 /\ CanLockAll /\ ~shall_terminate
  /\ nextApplicationGdbCtx = 0 /\ Free # {}
  /\ LET c == Least(Free) IN
     IF FreePorts({NextPort}) = {}
     THEN /\ ctx' = [ctx EXCEPT ![c].flags = AllFlags \ {"selected"}]
          /\ UNCHANGED nextApplicationGdbCtx
     ELSE \E accepted \in BOOLEAN :
          IF accepted
          THEN /\ ctx' = [ctx EXCEPT ![c].flags = @ \cup {"selected"}, ![c].localPort = NextPort,
                                     ![c].debug = NoProc, ![c].pid = NoProc]
               /\ nextApplicationGdbCtx' = c
          ELSE /\ ctx' = [ctx EXCEPT ![c].flags = {}, ![c].localPort = 0,
                                     ![c].debug = NoProc, ![c].pid = NoProc]
               /\ UNCHANGED nextApplicationGdbCtx
  /\ UNCHANGED <<client, status, shall_terminate, menu, monitor, socket, proc>>

\* debuggerFetchAndSetNextApplicationDebugHandleTask.
NextApplicationLaunched ==
  LET c == nextApplicationGdbCtx IN
  /\ c # 0 /\ CanLockAll /\ ~shall_terminate
  /\ \E launched \in BOOLEAN :
       /\ launched => ~Debugged(NextApp) /\ proc[NextApp].run # "ended"
       /\ ctx' = IF launched
                 THEN [ctx EXCEPT ![c].debug = NextApp, ![c].flags = @ \cup {"atStart"}]
                 ELSE [ctx EXCEPT ![c].debug = NoProc, ![c].flags = {}]
       /\ proc' = IF launched THEN Stopped(NextApp) ELSE proc
  /\ nextApplicationGdbCtx' = 0
  /\ UNCHANGED <<client, status, shall_terminate, menu, monitor, socket>>

\* debuggerDisable; the menu thread joins the two others.
Disable ==
  /\ menu = 0 /\ ~shall_terminate
  /\ shall_terminate' = TRUE
  /\ nextApplicationGdbCtx' = 0
  /\ UNCHANGED <<ctx, client, status, menu, monitor, socket, proc>>

\* GDB_FinalizeServer, by the thread that ends last: with no reference left
\* nothing is awaited.
FinalizeServer ==
  /\ monitor.at = "ended" /\ socket.at = "ended"
  /\ \E c \in Ctxs : ctx[c].debug # NoProc \/ \E p \in Ports : client[p] = c
  /\ ctx' = [c \in Ctxs |->
       IF ctx[c].debug # NoProc \/ \E p \in Ports : client[p] = c
       THEN [Closed(c) EXCEPT !.attached = FALSE] ELSE ctx[c]]
  /\ proc' = [p \in Debuggable |->
       LET by == {c \in Ctxs : ctx[c].debug = p}
       IN IF by = {} THEN proc[p] ELSE Released(Least(by))[p]]
  /\ client' = [p \in Ports |-> 0]
  /\ UNCHANGED <<status, shall_terminate, outside, monitor, socket>>

-----------------------------------------------------------------------------
(* The processes *)

\* An event that stops the process and is reported, a message, or its end.
DebugEvent(p, event) ==
  /\ Debugged(p)
  /\ proc[p] = [run |-> "running", pending |-> "none"]
  /\ proc' = [proc EXCEPT ![p] =
       [run |-> IF event = "exit" THEN "ended" ELSE "stopped", pending |-> event]]
  /\ UNCHANGED <<ctx, client, status, shall_terminate, outside, monitor, socket>>

Next ==
  \/ MonitorStarts
  \/ ReadHandles
  \/ BeginWait
  \/ MonitorTerminated
  \/ StatusWasUpdated
  \/ WakeForContext
  \/ HandleContext
  \/ \E port \in Ports : Accept(port)
  \/ NextApplicationArrived
  \/ AcceptClient
  \/ \E c \in Ctxs :
       \/ Continue(c)
       \/ Break(c)
       \/ EnableExtendedMode(c)
       \/ \E p \in Procs : Attach(c, p)
       \/ \E kill \in BOOLEAN : DetachOrKill(c, kill)
       \/ OtherPacket(c)
  \/ FinishDetach
  \/ \E port \in Ports : Hangup(port)
  \/ BeginClose
  \/ TestReferences
  \/ CloseAcknowledged
  \/ CloseClient
  \/ SocketTerminated
  \/ \E p \in Procs : Select(p)
  \/ \E p \in Procs : Unselect(p)
  \/ Unselected
  \/ DebugNextApplication
  \/ NextApplicationLaunched
  \/ Disable
  \/ FinalizeServer
  \/ \E p \in Debuggable, event \in {"stop", "output", "exit"} : DebugEvent(p, event)

Spec == Init /\ [][Next]_vars

BrokenIsNoticed ==
  \E port \in Ports : client[port] # 0 /\ ctx[client[port]].lost /\ Hangup(port)

\* The two threads of the server are scheduled, and the loop of the menu; a
\* connection that is broken is noticed.
Fairness ==
  /\ SF_vars(BrokenIsNoticed)
  /\ WF_vars(Monitor)
  /\ WF_vars(Socket)
  /\ WF_vars(Unselected)
  /\ WF_vars(FinalizeServer)

FairSpec == Spec /\ Fairness

-----------------------------------------------------------------------------
(* Properties *)

\* Type invariant.
TypeOK ==
  /\ \A c \in Ctxs :
       /\ ctx[c].flags \subseteq AllFlags
       /\ ctx[c].localPort \in Ports \cup {0}
       /\ ctx[c].debug \in Debuggable \cup {NoProc}
  /\ \A port \in Ports : client[port] \in Ctxs \cup {0}
  /\ menu \in Ctxs \cup {0} /\ nextApplicationGdbCtx \in Ctxs \cup {0}

\* The monitor never waits for a handle that was closed: it ends only when
\* the server is to end.  It copies the handles under the locks and waits for
\* them without; statusUpdated and its answer make the threads that close a
\* debug handle wait until the copy is thrown away.
MonitorSurvives == monitor.at = "ended" => shall_terminate

\* A context that no client uses and no menu has selected is as it was at
\* first, whichever way the last session ended: detached by the client or by
\* the end of the process, broken off, or refused.
FreeContextIsClean ==
  \A c \in Free \ (IF socket.at = "awaitDebug" THEN {socket.c} ELSE {}) :
    /\ ctx[c].debug = NoProc /\ ctx[c].state = "disconnected"
    /\ \A port \in Ports : client[port] # c

\* The contexts, with their types, and the monitor that watches them.
ContextsConsistent == TypeOK /\ FreeContextIsClean /\ MonitorSurvives

\* When the server has ended, no process is left stopped.
NothingStaysStopped ==
  (monitor.at = "ended" /\ socket.at = "ended" /\ \A c \in Ctxs : ctx[c].debug = NoProc)
    => \A p \in Debuggable : proc[p].run # "stopped"

\* A client that goes is closed: the monitor answers, unless it ends at the
\* same time, or the menu keeps all locks.
CloseCompletes ==
  socket.at = "closeAck" ~> socket.at # "closeAck" \/ shall_terminate \/ menu # 0

\* The menu says how to free a slot: "Please unselect a process in the
\* process list first".  So a process can be unselected.
UnselectCompletes == menu # 0 ~> menu = 0

\* A debug event of a process is handled, by the monitor or by the end of the
\* session: the monitor comes to wait for the process whenever it was
\* attached and continued, whatever it has missed of the sessions before.
\* Not so while the menu or a command that detaches keeps its locks for ever.
EventsAreHandled ==
  \A p \in Procs :
    proc[p].pending # "none"
      ~> \/ proc[p].pending = "none"
         \/ shall_terminate \/ menu # 0 \/ socket.at = "detachAck"

\* The threads of the server answer each other.
ServerAnswers == CloseCompletes /\ EventsAreHandled
=============================================================================
