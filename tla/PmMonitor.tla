----------------------------- MODULE PmMonitor -----------------------------
(***************************************************************************)
(* process_monitor.c: the thread that waits for the end of every process   *)
(* in the list, cleans up after it, and tells those who wait for           *)
(* terminations.  A handle is named by its process.                        *)
(***************************************************************************)
EXTENDS PmProcessData

Monitored == {n \in Listed : proc[n].status # "terminated"}

\* The handle array is rebuilt.
Rebuild ==
  /\ mon.pc = "rebuild"
  /\ Section("mon")
  /\ mon' = [NoCleanup EXCEPT !.pc = "signal",
               !.handles = {proc[n].pid : n \in Monitored},
               !.terminating = \E n \in Monitored : proc[n].status = "sent"]
  /\ UNCHANGED <<listVars, managerVars, posted, th, kernelVars>>

Signal ==
  /\ mon.pc = "signal"
  /\ g_manager' = [g_manager EXCEPT !.allNotifiedTerminationEvent =
                     @ \/ (g_manager.waitingForTermination /\ ~mon.terminating)]
  /\ mon' = [mon EXCEPT !.pc = "wait"]
  /\ UNCHANGED <<listVars, g_debugNextApplication, lock, posted, th, kernelVars>>

\* svcWaitSynchronizationN returns the first of its handles: the event ...
NewProcessArrived ==
  /\ mon.pc = "wait"
  /\ g_manager.newProcessEvent
  /\ g_manager' = [g_manager EXCEPT !.newProcessEvent = FALSE]
  /\ mon' = NoCleanup
  /\ UNCHANGED <<listVars, g_debugNextApplication, lock, posted, th, kernelVars>>

\* ... or a process that ended.  No handle in the array is closed before that:
\* UnregisterProcess closes those of processes the monitor has seen end.
ProcessEnded ==
  /\ mon.pc = "wait" /\ ~g_manager.newProcessEvent
  /\ \E p \in mon.handles :
       /\ kernel[p] = "dead"
       /\ mon' = [mon EXCEPT !.pc = "ended", !.id = p]
  /\ UNCHANGED <<listVars, managerVars, lock, posted, th, kernelVars>>

\* The process is marked, and deleted unless a client asked to be told of
\* its end.
Ended ==
  LET n == ProcessById(mon.id)
      p == [proc[n] EXCEPT !.status = "terminated",
              !.flags = @ \cup IF "notify" \in @ THEN {"notifyTerminated"} ELSE {}] IN
  /\ mon.pc = "ended"
  /\ Section("mon")
  /\ IF n = Null
     THEN mon' = NoCleanup /\ UNCHANGED listVars
     ELSE /\ proc' = [proc EXCEPT ![n] = p]
          /\ IF "notifyTerminated" \in p.flags THEN UNCHANGED <<list, free>> ELSE Delete(n)
          /\ mon' = [NoCleanup EXCEPT !.backup = p,
                       !.pc = IF "dependenciesLoaded" \in p.flags THEN "release" ELSE "unregister"]
  /\ UNCHANGED <<managerVars, posted, th, kernelVars>>

-----------------------------------------------------------------------------
(* cleanupProcess *)

ReleaseDependencies ==
  /\ mon.pc = "release"
  /\ Section("mon")
  /\ proc' = Released(proc, Range(Deps[mon.backup.title]))
  /\ mon' = [mon EXCEPT !.pc = "unregister"]
  /\ UNCHANGED <<list, free, managerVars, posted, th, kernelVars>>

\* Mutant: a process that is kept for its client stays registered.
UnregisterDeleted ==
  /\ mon.pc = "unregister"
  /\ registered' = IF mon.backup.flags \cap {"kip", "notifyTerminated"} # {} THEN registered
                   ELSE registered \ {mon.backup.pid}
  /\ mon' = [mon EXCEPT !.pc = "forget"]
  /\ UNCHANGED <<listVars, managerVars, lock, posted, th, kernel>>

Unregister ==
  /\ mon.pc = "unregister"
  /\ registered' = IF "kip" \in mon.backup.flags THEN registered
                   ELSE registered \ {mon.backup.pid}
  /\ mon' = [mon EXCEPT !.pc = "forget"]
  /\ UNCHANGED <<listVars, managerVars, lock, posted, th, kernel>>

\* Mutant: only a process that is deleted is forgotten.
ForgottenIfDeleted(n) ==
  IF n # Null /\ proc[n].pid = mon.backup.pid /\ n \notin Listed THEN Null ELSE n

\* The handles are compared, through the nodes.
Forgotten(n) == IF n # Null /\ proc[n].pid = mon.backup.pid THEN Null ELSE n

Forget ==
  /\ mon.pc = "forget"
  /\ Section("mon")
  /\ g_manager' = [g_manager EXCEPT !.runningApplicationData = Forgotten(@),
                                    !.debugData = Forgotten(@)]
  /\ mon' = NoCleanup
  /\ UNCHANGED <<listVars, g_debugNextApplication, posted, th, kernelVars>>
=============================================================================
