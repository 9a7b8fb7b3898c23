--------------------------- MODULE PmProcessData ---------------------------
(***************************************************************************)
(* The state of the process manager (sysmodules/pm/source) and what its    *)
(* parts do with it: the process list, the recursive lock, the             *)
(* notifications and the reference counts.  PmLaunch, PmTermination and    *)
(* PmMonitor have the steps of the three threads,                          *)
(*   "srv"   serves pm:app and pm:dbg, one command at a time               *)
(*   "task"  the task runner, executes one deferred call at a time         *)
(*   "mon"   the process monitor                                           *)
(* and PmProcesses puts them together.  A section between ProcessList_Lock *)
(* and ProcessList_Unlock is one step; what a thread does outside of them  *)
(* is a step of its own, so that the others act in between.  The list is   *)
(* a linked list like those of sm, and of SmLists only Without is used.    *)
(***************************************************************************)
EXTENDS SmLists, Integers, FiniteSets, Functions

CONSTANTS
  Nodes,      \* processDataBuffer
  FreeOrder,  \* the order IntrusiveList_CreateFromBuffer links it in
  MaxPid,     \* bound: the processes of a behaviour
  Titles,     \* title identifiers
  Kips,       \* the titles of the processes that run from the beginning and
              \* that terminateAllProcesses ends last (PXI, Rosalina)
  Deps,       \* the dependencies in the extended header of each title
  Listens,    \* the titles that enable notifications, and so receive 0x100
  MayExit,    \* the titles whose processes may end without being asked to
  Commands,   \* what the clients of pm may ask for
  Failures,   \* <<call, title>>: the calls that may fail for a title
  Patient,    \* whether clients wait until pm is quiet
  Null

Pids == 1 .. MaxPid

ASSUME PoolAssumption ==
  /\ FreeOrder \in Seq(Nodes) /\ Range(FreeOrder) = Nodes
  /\ IsInjective(FreeOrder)
  /\ Null \notin Nodes /\ Null \notin Titles
ASSUME TitlesAssumption ==
  /\ MaxPid \in Nat
  /\ Kips \in Seq(Titles) /\ Len(Kips) <= MaxPid /\ Len(Kips) <= Len(FreeOrder)
  /\ Deps \in [Titles -> Seq(Titles)]
  /\ Listens \subseteq Titles /\ MayExit \subseteq Titles

Launches == {"LaunchApp", "LaunchTitle", "LaunchTitleUpdate", "LaunchTitleDebug"}
Reboots == {"PrepareForReboot", "LaunchFirm"}
Calls == Launches \cup Reboots \cup
           {"RunQueuedProcess", "DebugNextApplicationByForce", "UnregisterProcess",
            "TerminateApplication", "TerminateTitle", "ChainloadHomebrewDirty"}
LaunchFlags == {"app", "loadDeps", "notify", "queue", "update", "fake", "debug"}
ASSUME CommandsAssumption ==
  /\ Null \notin Calls
  /\ Commands \subseteq [call : Calls, title : Titles \cup {Null},
                         flags : SUBSET LaunchFlags, timeout : Int]
  /\ \A c \in Commands : c.call \in Launches => c.title \in Titles

VARIABLES
  list,        \* g_manager.processList, first to last
  free,        \* its free list
  proc,        \* the ProcessData of every node
  g_manager,   \* the other fields of the Manager
  g_debugNextApplication,
  lock,        \* the list's recursive lock between two sections
  posted,      \* the call the task runner was handed, or Null
  th,          \* where srv and task are
  mon,         \* where the monitor is
  kernel,      \* the state of each process
  registered   \* the processes sm knows

listVars == <<list, free, proc>>
managerVars == <<g_manager, g_debugNextApplication>>
kernelVars == <<kernel, registered>>
vars == <<listVars, managerVars, lock, posted, th, mon, kernelVars>>

Listed == Range(list)

NewProcess(pid, title, launch) ==
  [pid |-> pid, title |-> title, launchFlags |-> launch, flags |-> {},
   status |-> "running", refcount |-> 1]

\* No process: what a node of the buffer holds before its first use.
NoProcess == [NewProcess(0, Null, {}) EXCEPT !.refcount = 0]

\* A thread that has nothing to do, and its local variables: the arguments
\* of the call; the process it launches and the dependency, if any, and the
\* process id of the last one it had loaded; the merged dependencies with
\* their processes and missing references.
Idle == [pc |-> "idle", call |-> Null, title |-> Null, flags |-> {}, timeout |-> 0,
         prevdbg |-> FALSE, process |-> Null, dep |-> Null, pid |-> 0,
         dependencies |-> <<>>, depProcs |-> <<>>, remrefcounts |-> <<>>,
         i |-> 0, failed |-> FALSE]

NoCleanup == [pc |-> "rebuild", handles |-> {}, terminating |-> FALSE,
              id |-> 0, backup |-> NoProcess]

Init ==
  LET Kip(i) == [NewProcess(i, Kips[i], {}) EXCEPT !.flags = {"kip"}] IN
  /\ list = SubSeq(FreeOrder, 1, Len(Kips))
  /\ free = SubSeq(FreeOrder, Len(Kips) + 1, Len(FreeOrder))
  /\ proc = [n \in Nodes |->
               LET i == CHOOSE j \in DOMAIN FreeOrder : FreeOrder[j] = n
               IN IF i <= Len(Kips) THEN Kip(i) ELSE NoProcess]
  /\ g_manager = [runningApplicationData |-> Null, debugData |-> Null,
                  newProcessEvent |-> FALSE, allNotifiedTerminationEvent |-> FALSE,
                  waitingForTermination |-> FALSE, preparingForReboot |-> FALSE]
  /\ g_debugNextApplication = FALSE
  /\ lock = [counter |-> 0, owner |-> Null]
  /\ posted = Null
  /\ th = [t \in {"srv", "task"} |-> Idle]
  /\ mon = NoCleanup
  /\ kernel = [p \in Pids |-> IF p <= Len(Kips) THEN "running" ELSE "none"]
  /\ registered = 1 .. Len(Kips)

-----------------------------------------------------------------------------
(* The lock of the list, a RecursiveLock: owner and counter.  A section    *)
(* that does not bring the counter back to zero never gives the lock back. *)

Section(t) ==
  /\ lock.owner \in {Null, t}
  /\ lock' = [lock EXCEPT !.owner = IF lock.counter = 0 THEN Null ELSE t]

\* Unlocking what is not locked.
StrayUnlocks(n) == lock' = [lock EXCEPT !.counter = @ - n]

-----------------------------------------------------------------------------
(* The process list *)

\* The first process at one of some positions of the list.
First(positions) ==
  IF positions = {} THEN Null
  ELSE list[CHOOSE i \in positions : \A j \in positions : i <= j]

ProcessById(pid) == First({i \in DOMAIN list : proc[list[i]].pid = pid})
ProcessByTitleId(title) == First({i \in DOMAIN list : proc[list[i]].title = title})

\* ProcessList_New takes the first free node.
New(p) ==
  /\ free # <<>>
  /\ list' = Append(list, Head(free))
  /\ free' = Tail(free)
  /\ proc' = [proc EXCEPT ![Head(free)] = p]

\* ProcessList_Delete puts the node behind the first free one, with all that
\* it holds.
Delete(n) ==
  /\ list' = Without(list, n)
  /\ free' = IF free = <<>> THEN <<n>> ELSE <<Head(free), n>> \o Tail(free)

-----------------------------------------------------------------------------
(* Processes *)

\* svcTerminateProcess on the processes of some nodes.
Terminate(nodes) ==
  LET pids == {proc[n].pid : n \in nodes}
  IN [p \in Pids |-> IF p \in pids /\ kernel[p] # "none" THEN "dead" ELSE kernel[p]]

\* Notification 0x100: sm delivers it to a process it knows and that enabled
\* notifications.
Notified(p) ==
  [p EXCEPT !.status =
     IF p.title \in Listens /\ p.pid \in registered /\ kernel[p.pid] # "created"
     THEN "sent" ELSE "failed"]

\* The count is a byte: pm panics, and nothing follows, when more is added than
\* it holds.
Incref(p, amount) ==
  IF "autoloaded" \in p.flags THEN [p EXCEPT !.refcount = @ + amount] ELSE p
CountsFit(pr) == \A n \in Nodes : pr[n].refcount \in 0 .. 255

Decref(p) == [p EXCEPT !.refcount = (@ + 255) % 256]


StillUsed(p) == Decref(p).refcount > 0

\* terminateUnusedDependencies.
Released(pr, titles) ==
  [n \in Nodes |->
     LET p == pr[n] IN
     IF ~(n \in Listed /\ p.status = "running" /\ "autoloaded" \in p.flags
            /\ p.title \in titles) THEN p
     ELSE IF StillUsed(p) THEN Decref(p) ELSE Notified(Decref(p))]

\* terminateProcessImpl: the dependencies are released with the process.
Terminated(pr, n) ==
  LET p == [pr[n] EXCEPT !.flags = @ \ {"dependenciesLoaded"}]
      told == [pr EXCEPT ![n] = Notified(p)]
  IN IF "dependenciesLoaded" \in pr[n].flags
     THEN Released(told, Range(Deps[pr[n].title])) ELSE told

-----------------------------------------------------------------------------
(* Threads *)

Step(t, r) == th' = [th EXCEPT ![t] = r]
Goto(t, pc) == Step(t, [th[t] EXCEPT !.pc = pc])

\* TaskRunner_RunTask: the task runner has one place, free when its task has
\* returned.  The caller returns to its client.
RunTask(t) ==
  /\ th[t].pc = "post"
  /\ posted = Null /\ th["task"] = Idle
  /\ posted' = [th[t] EXCEPT !.pc = IF th[t].call = "LaunchTitleAsync" THEN "check" ELSE "begin"]
  /\ Step(t, Idle)
  /\ UNCHANGED <<listVars, managerVars, lock, mon, kernelVars>>

TaskBegins ==
  /\ posted # Null /\ th["task"] = Idle
  /\ th' = [th EXCEPT !["task"] = posted]
  /\ posted' = Null
  /\ UNCHANGED <<listVars, managerVars, lock, mon, kernelVars>>

\* A command arrives at the service thread.  Patient clients wait until
\* nothing that pm was asked to do, or has to do, is left, and until every
\* process that was told to end has; and they unregister a process of whose
\* end they were told before they ask for anything else.
Quiet ==
  /\ th = [t \in {"srv", "task"} |-> Idle]
  /\ posted = Null
  /\ mon.pc = "wait" /\ ~g_manager.newProcessEvent
  /\ \A n \in Listed : kernel[proc[n].pid] = "dead" => proc[n].status = "terminated"

Settled == Quiet /\ \A n \in Listed : proc[n].status \in {"running", "terminated"}

Receive(c) ==
  /\ c \in Commands
  /\ th["srv"] = Idle
  /\ Patient =>
       /\ Settled
       /\ \/ c.call = "UnregisterProcess"
          \/ \A n \in Listed : proc[n].status # "terminated"

\* The caller's side of a command, and the processes left for it to create.
Unused == {p \in Pids : kernel[p] = "none"}
Launching(c) ==
  /\ Receive(c)
  /\ Cardinality(Unused) > Len(Deps[c.title])
Call(c, pc) ==
  [Idle EXCEPT !.pc = pc, !.call = c.call, !.title = c.title, !.flags = c.flags,
               !.timeout = c.timeout]
=============================================================================
