---------------------------- MODULE PmProcesses ----------------------------
(***************************************************************************)
(* The process manager: its three threads, the processes and what pm       *)
(* promises about them.                                                    *)
(***************************************************************************)
EXTENDS PmLaunch, PmTermination, PmMonitor

Alive(p) == kernel[p] \in {"created", "running"}

\* A process ends: because it was told to, or because it wants to.
ProcessEnds ==
  \E p \in Pids :
    /\ kernel[p] = "running"
    /\ \E n \in Nodes :
         /\ proc[n].pid = p
         /\ \/ proc[n].status = "sent"
            \/ proc[n].title \in MayExit /\ (Patient => Settled)
    /\ kernel' = [kernel EXCEPT ![p] = "dead"]
    /\ UNCHANGED <<listVars, managerVars, lock, posted, th, mon, registered>>

Command(c) ==
  \/ LaunchApp(c) \/ LaunchTitle(c) \/ LaunchTitleUpdate(c)
  \/ LaunchAppDebug(c) \/ LaunchTitleDebug(c) \/ RunQueuedProcess(c)
  \/ DebugNextApplicationByForce(c) \/ UnregisterProcess(c)
  \/ TerminateApplication(c) \/ TerminateTitle(c) \/ TerminateTitleDuringReboot(c)
  \/ PrepareForReboot(c) \/ LaunchFirm(c) \/ ChainloadHomebrewDirty(c)

\* What both threads may do.
Launch(t) ==
  \/ LookUp(t) \/ Found(t) \/ CheckApplication(t)
  \/ RegisterProgramFails(t) \/ LoadProcessFails(t) \/ LoadProcess(t)
  \/ SetUpFails(t) \/ SetUp(t)
  \/ MergeDependencies(t) \/ MarkDependencies(t) \/ MarkAutoloaded(t)
  \/ Queue(t) \/ Run(t) \/ RunFails(t) \/ Cleanup(t)

Termination(t) ==
  \/ Begin(t) \/ Commit(t) \/ AllNotifiedEnded(t) \/ Timeout(t) \/ End(t)

Srv == RunTask("srv") \/ Launch("srv") \/ RunQueuedInstead
         \/ NotifyApplication \/ Termination("srv")

Task == TaskBegins \/ Launch("task") \/ NotifyTitle \/ NotifyChainloaded
          \/ ListCaller \/ NotifyAll \/ BeginKips \/ NotifyKips
          \/ Termination("task") \/ Relaunch

Monitor ==
  \/ Rebuild \/ Signal \/ NewProcessArrived \/ ProcessEnded
  \/ Ended \/ ReleaseDependencies \/ Unregister \/ Forget

Next ==
  \/ \E c \in Commands : Command(c)
  \/ \E t \in {"srv", "task"} : Launch(t)
  \/ \E t \in {"srv", "task"} : Termination(t)
  \/ RunTask("srv") \/ TaskBegins
  \/ RunQueuedInstead \/ NotifyApplication
  \/ NotifyTitle \/ NotifyChainloaded
  \/ ListCaller \/ NotifyAll \/ BeginKips \/ NotifyKips \/ Relaunch
  \/ Rebuild \/ Signal \/ NewProcessArrived \/ ProcessEnded
  \/ Ended \/ ReleaseDependencies \/ Unregister \/ Forget
  \/ ProcessEnds

Spec == Init /\ [][Next]_vars

\* The threads are scheduled and the calls they make return; nothing is
\* assumed of clients and processes.
Fairness == WF_vars(Srv) /\ WF_vars(Task) /\ WF_vars(Monitor)

FairSpec == Spec /\ Fairness

-----------------------------------------------------------------------------
(* Properties *)

Threads == {"srv", "task"}
ThreadPcs ==
  {"idle", "lookUp", "found", "check", "create", "setUp", "merge", "mark", "launched",
   "run", "cleanup", "runQueued", "post", "begin", "notify", "commit", "wait",
   "waitForKilled", "end", "listCaller", "notifyAll", "beginKips", "notifyKips",
   "waitGone", "rebooted"}
ProcessFlags == {"app", "notify", "notifyTerminated", "autoloaded", "dependenciesLoaded", "kip"}
Processes ==
  [pid : 0 .. MaxPid, title : Titles \cup {Null}, launchFlags : SUBSET LaunchFlags,
   flags : SUBSET ProcessFlags, status : {"running", "sent", "failed", "terminated"},
   refcount : 0 .. 255]
NodeOrNull == Nodes \cup {Null}
Managers ==
  [runningApplicationData : NodeOrNull, debugData : NodeOrNull,
   newProcessEvent : BOOLEAN, allNotifiedTerminationEvent : BOOLEAN,
   waitingForTermination : BOOLEAN, preparingForReboot : BOOLEAN]
ThreadStates ==
  [pc : ThreadPcs, call : Calls \cup {"LaunchTitleAsync", "LaunchAppDebug", Null},
   title : Titles \cup {Null}, flags : SUBSET LaunchFlags, timeout : Int,
   prevdbg : BOOLEAN, process : NodeOrNull, dep : NodeOrNull, pid : 0 .. MaxPid,
   dependencies : Seq(Titles), depProcs : Seq(NodeOrNull), remrefcounts : Seq(Nat),
   i : Nat, failed : BOOLEAN]
MonitorStates ==
  [pc : {"rebuild", "signal", "wait", "ended", "release", "unregister", "forget"},
   handles : SUBSET Pids, terminating : BOOLEAN, id : 0 .. MaxPid, backup : Processes]

\* Type invariant of the process manager.
TypeOK ==
  /\ list \in Seq(Nodes) /\ free \in Seq(Nodes)
  /\ proc \in [Nodes -> Processes]
  /\ g_manager \in Managers /\ g_debugNextApplication \in BOOLEAN
  /\ lock \in [counter : Int, owner : Threads \cup {"mon", Null}]
  /\ posted \in ThreadStates \cup {Null}
  /\ th \in [Threads -> ThreadStates]
  /\ mon \in MonitorStates
  /\ kernel \in [Pids -> {"none", "created", "running", "dead"}]
  /\ registered \subseteq Pids

\* Every node is in the process list or in the free list, once, whoever
\* deletes it: the monitor or UnregisterProcess.
NodesPartitioned ==
  /\ Range(list) \cup Range(free) = Nodes
  /\ Len(list) + Len(free) = Cardinality(Nodes)

\* A process whose end the monitor has to notice: one that has not ended, and
\* one that has unless a client is to be told.  Those a client was told of stay
\* in the list for UnregisterProcess, and terminateAllProcesses overwrites
\* their status.
ToBeWatched(n) ==
  /\ proc[n].status # "terminated"
  /\ kernel[proc[n].pid] # "dead" \/ "notifyTerminated" \notin proc[n].flags

\* No process escapes the monitor: while it waits, every process in the list
\* whose end it has to notice is in its array of handles, or it is going to be
\* woken by newProcessEvent, or the thread that put the process into the list
\* is about to signal it (launch.c, 66-67).
EveryProcessIsWatched ==
  mon.pc \in {"signal", "wait"} =>
    \A n \in Listed :
      ToBeWatched(n) =>
        \/ proc[n].pid \in mon.handles
        \/ g_manager.newProcessEvent
        \/ \E t \in Threads : th[t].pc = "setUp" /\ LaunchedProcess(th[t]) = n

\* How often the processes that loaded their dependencies list a title.
UsesBy(m, title) ==
  IF "dependenciesLoaded" \in proc[m].flags /\ proc[m].status # "terminated"
  THEN Occurrences(title, Deps[proc[m].title]) ELSE 0
Uses(title) ==
  LET sum[i \in 0 .. Len(list)] == IF i = 0 THEN 0 ELSE sum[i - 1] + UsesBy(list[i], title)
  IN sum[Len(list)]

Autoloaded == {n \in Listed : "autoloaded" \in proc[n].flags /\ proc[n].status = "running"}

\* Once pm is settled, the reference count of every dependency it loaded is the
\* number of its uses, whatever was launched, found, merged, terminated or
\* failed to run on the way (info.c, 88-95; termination.c, 25-45).
RefcountsExact ==
  Settled /\ ~g_manager.preparingForReboot
    => \A n \in Autoloaded : proc[n].refcount = Uses(proc[n].title)


\* Never do two applications run (launch.c, 295: "we need to check here as
\* well to avoid a race condition").
Applications ==
  {n \in Listed : "app" \in proc[n].flags /\ kernel[proc[n].pid] = "running"}
OneApplication == Cardinality(Applications) <= 1

\* The list with its types: every node is in it or free, once, and at most one
\* of those that run is an application, however the service thread, the task
\* runner and the monitor interleave.
ListConsistent == TypeOK /\ NodesPartitioned /\ OneApplication

\* Once pm is settled, runningApplicationData says whether an application runs
\* and which one, whoever launched it and however the last one ended.
RunningApplicationKnown ==
  Settled => Applications = {g_manager.runningApplicationData} \ {Null}

\* Once pm is settled, sm knows the processes of the list that have not ended,
\* and no others but those that were there from the beginning.
SmKnowsTheProcesses ==
  Settled => registered \ 1 .. Len(Kips) =
    {proc[n].pid : n \in {m \in Listed : /\ proc[m].status # "terminated"
                                       /\ "kip" \notin proc[m].flags}}

\* Once pm is settled, it and sm know what runs and nothing else.
ProcessesKnown == RunningApplicationKnown /\ SmKnowsTheProcesses

\* The lock is given back (launch.c, 44-47, says of failing calls in
\* loadWithoutDependencies that the official program does not clean up after
\* them).
LockGivenBack == lock.owner = Null

\* Whatever pm was asked for is done: launches and terminations return, and
\* processes that ended are cleaned up.
QuietAgain == []<>Quiet

\* What prepares for a reboot keeps the processes it needs to go on: no step of
\* the termination stops a dependency of the caller, also when the caller or
\* another user of that dependency ends on the way (termination.c, 307-326).
RebootSparesDependencies ==
  [][th["task"].call = "PrepareForReboot" =>
       \A n \in Listed :
         proc[n].title \in Range(th["task"].dependencies) /\ proc[n].status = "running"
           => proc'[n].status = "running"]_vars

WaitsForAll(calls) ==
  \A t \in Threads :
    th[t].call \in calls /\ th[t].pc \in {"wait", "waitForKilled"} /\ th'[t].pc = "end" =>
      ~\E n \in Listed : proc[n].status = "sent" /\ Alive(proc[n].pid)


\* The same of the two waits before a reboot, for everything but what the
\* caller needs, and then for PXI (termination.c, 91 and 356).
RebootTerminationsComplete == [][WaitsForAll({"PrepareForReboot", "LaunchFirm"})]_vars

\* Two processes never have the same title (termination.c, 163: "two processes
\* can't have the same titleId").
TitlesAreUnique ==
  \A m, n \in {k \in Listed : kernel[proc[k].pid] = "running"} :
    proc[m].title = proc[n].title => m = n
=============================================================================
