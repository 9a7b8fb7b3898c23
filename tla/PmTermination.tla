--------------------------- MODULE PmTermination ---------------------------
(***************************************************************************)
(* termination.c and the calls of firmlaunch.c that end in it: clients     *)
(* have the application, a title, a process or everything terminated.      *)
(* Whoever terminates announces it (waitingForTermination), sends          *)
(* notification 0x100, kills what cannot receive it, and waits for the     *)
(* event that the monitor signals when no notified process is left.        *)
(***************************************************************************)
EXTENDS PmProcessData

Status(s) == {n \in Listed : proc[n].status = s}

-----------------------------------------------------------------------------
(* The commands *)

\* A timeout of -1 is infinite, one of 0 or 1 may pass.
TerminateApplication(c) ==
  /\ c.call = "TerminateApplication" /\ Receive(c)
  /\ ~g_manager.preparingForReboot
  /\ Step("srv", Call(c, "begin"))
  /\ UNCHANGED <<listVars, managerVars, lock, posted, mon, kernelVars>>

TerminateTitle(c) ==
  /\ c.call = "TerminateTitle" /\ Receive(c)
  /\ ~g_manager.preparingForReboot
  /\ Step("srv", Call(c, "post"))
  /\ UNCHANGED <<listVars, managerVars, lock, posted, mon, kernelVars>>

TerminateTitleDuringReboot(c) ==
  /\ c.call = "TerminateTitle" /\ c.timeout = 0 /\ Receive(c)
  /\ g_manager.preparingForReboot
  /\ Section("srv")
  /\ kernel' = Terminate({n \in Listed : proc[n].title = c.title})
  /\ UNCHANGED <<listVars, managerVars, posted, th, mon, registered>>

PrepareForReboot(c) ==
  /\ c.call = "PrepareForReboot" /\ Receive(c)
  /\ ~g_manager.preparingForReboot
  /\ g_manager' = [g_manager EXCEPT !.preparingForReboot = TRUE]
  /\ Step("srv", Call(c, "post"))
  /\ UNCHANGED <<listVars, g_debugNextApplication, lock, posted, mon, kernelVars>>

LaunchFirm(c) ==
  /\ c.call = "LaunchFirm" /\ Receive(c)
  /\ Step("srv", Call(c, "post"))
  /\ UNCHANGED <<listVars, managerVars, lock, posted, mon, kernelVars>>

ChainloadHomebrewDirty(c) ==
  LET app == g_manager.runningApplicationData IN
  /\ c.call = "ChainloadHomebrewDirty" /\ Receive(c) /\ Unused # {}
  /\ ~g_manager.preparingForReboot
  /\ Section("srv")
  /\ app # Null
  /\ Step("srv", Call(c, "post"))
  /\ UNCHANGED <<listVars, managerVars, posted, mon, kernelVars>>

-----------------------------------------------------------------------------
(* The notifications *)

\* Without a limit of time TerminateTitle does not wait.
Waits(r) == r.call # "TerminateTitle" \/ r.timeout >= 0


Begin(t) ==
  /\ th[t].pc = "begin"
  /\ g_manager' = IF Waits(th[t])
                  THEN [g_manager EXCEPT !.allNotifiedTerminationEvent = FALSE,
                                         !.waitingForTermination = TRUE]
                  ELSE g_manager
  /\ Goto(t, IF th[t].call \in {"PrepareForReboot", "LaunchFirm"} THEN "listCaller" ELSE "notify")
  /\ UNCHANGED <<listVars, g_debugNextApplication, lock, posted, mon, kernelVars>>

NotifyApplication ==
  LET app == g_manager.runningApplicationData IN
  /\ th["srv"].pc = "notify"
  /\ Section("srv")
  /\ proc' = IF app = Null THEN proc ELSE Terminated(proc, app)
  /\ Goto("srv", "commit")
  /\ UNCHANGED <<list, free, managerVars, posted, mon, kernelVars>>

\* TerminateProcessOrTitleAsync takes the flag "notify" from a process it
\* ends: the client is told when the termination is complete.
TakeNotify(p) ==
  IF "notify" \in p.flags
  THEN [p EXCEPT !.flags = (@ \ {"notify"}) \cup {"notifyTerminated"}] ELSE p

NotifyTitle ==
  LET r == th["task"]
      after[i \in 0 .. Len(list)] ==
        IF i = 0 THEN proc
        ELSE IF proc[list[i]].title = r.title
             THEN Terminated([after[i - 1] EXCEPT ![list[i]] = TakeNotify(@)], list[i])
             ELSE after[i - 1] IN
  /\ r.pc = "notify" /\ r.call = "TerminateTitle"
  /\ Section("task")
  /\ proc' = after[Len(list)]
  /\ IF Waits(r) THEN Goto("task", "commit") ELSE Step("task", Idle)
  /\ UNCHANGED <<list, free, managerVars, posted, mon, kernelVars>>

\* ChainloadHomebrewDirtyAsync keeps the dependencies, and nobody is told.
NotifyChainloaded ==
  LET r == th["task"]
      app == g_manager.runningApplicationData IN
  /\ r.pc = "notify" /\ r.call = "ChainloadHomebrewDirty"
  /\ Section("task")
  /\ IF app = Null
     THEN proc' = proc /\ Goto("task", "commit")
     ELSE /\ proc' = Terminated([proc EXCEPT ![app].flags = @ \ {"dependenciesLoaded", "notify"}],
                                app)
          /\ Step("task", [r EXCEPT !.pc = "commit", !.title = proc[app].title,
                                    !.flags = proc[app].launchFlags])
  /\ UNCHANGED <<list, free, managerVars, posted, mon, kernelVars>>

\* terminateAllProcesses; the caller is named by its title.
ListCaller ==
  LET r == th["task"] IN
  /\ r.pc = "listCaller"
  /\ Section("task")
  /\ LET caller == IF r.call = "LaunchFirm" THEN Null ELSE ProcessByTitleId(r.title)
     IN Step("task", [r EXCEPT !.pc = "notifyAll", !.process = caller,
                        !.dependencies = IF caller = Null THEN <<>> ELSE Deps[r.title]])
  /\ UNCHANGED <<listVars, managerVars, posted, mon, kernelVars>>

Needed(n) ==
  \/ n = th["task"].process /\ "autoloaded" \in proc[n].flags
  \/ proc[n].title \in Range(th["task"].dependencies)

\* The application does not release its dependencies.
ApplicationTold ==
  LET app == g_manager.runningApplicationData
      p == [proc[app] EXCEPT !.flags = @ \ {"dependenciesLoaded"}] IN
  IF app = Null THEN proc ELSE [proc EXCEPT ![app] = Notified(p)]

\* Mutant: what the caller needs gets no reference of its own.
NotifyAllWithoutIncref ==
  /\ th["task"].pc = "notifyAll"
  /\ Section("task")
  /\ proc' = [n \in Nodes |->
                LET p == ApplicationTold[n] IN
                IF n \notin Listed \/ "kip" \in p.flags \/ Needed(n) THEN p ELSE Notified(p)]
  /\ Goto("task", "commit")
  /\ UNCHANGED <<list, free, managerVars, posted, mon, kernelVars>>

NotifyAll ==
  /\ th["task"].pc = "notifyAll"
  /\ Section("task")
  /\ proc' = [n \in Nodes |->
                LET p == ApplicationTold[n] IN
                IF n \notin Listed \/ "kip" \in p.flags THEN p
                ELSE IF Needed(n) THEN Incref(p, 1) ELSE Notified(p)]
  /\ CountsFit(proc')
  /\ Goto("task", "commit")
  /\ UNCHANGED <<list, free, managerVars, posted, mon, kernelVars>>

\* Then PXI and Rosalina.
BeginKips ==
  /\ th["task"].pc = "beginKips"
  /\ g_manager' = [g_manager EXCEPT !.allNotifiedTerminationEvent = FALSE,
                                    !.waitingForTermination = TRUE]
  /\ Goto("task", "notifyKips")
  /\ UNCHANGED <<listVars, g_debugNextApplication, lock, posted, mon, kernelVars>>

\* pm panics, and nothing follows, when one of them has ended.
NotifyKips ==
  /\ th["task"].pc = "notifyKips"
  /\ \A pid \in 1 .. Len(Kips) : ProcessById(pid) # Null
  /\ Section("task")
  /\ proc' = [n \in Nodes |-> IF n \in Listed /\ "kip" \in proc[n].flags
                              THEN Notified(proc[n]) ELSE proc[n]]
  /\ Step("task", [th["task"] EXCEPT !.pc = "commit", !.i = 1])
  /\ UNCHANGED <<list, free, managerVars, posted, mon, kernelVars>>

-----------------------------------------------------------------------------
(* commitPendingTerminations *)

Commit(t) ==
  /\ th[t].pc = "commit"
  /\ Section(t)
  /\ kernel' = Terminate(Status("failed"))
  /\ Goto(t, IF Status("sent") # {} THEN "wait" ELSE "end")
  /\ UNCHANGED <<listVars, managerVars, posted, mon, registered>>

AllNotifiedEnded(t) ==
  /\ th[t].pc \in {"wait", "waitForKilled"}
  /\ g_manager.allNotifiedTerminationEvent
  /\ g_manager' = [g_manager EXCEPT !.allNotifiedTerminationEvent = FALSE]
  /\ Goto(t, "end")
  /\ UNCHANGED <<listVars, g_debugNextApplication, lock, posted, mon, kernelVars>>

\* Mutant: the wait times out, and nobody is killed.
TimeoutWithoutKilling(t) ==
  /\ th[t].pc = "wait" /\ th[t].timeout >= 0
  /\ Section(t)
  /\ Goto(t, "waitForKilled")
  /\ UNCHANGED <<listVars, managerVars, posted, mon, kernelVars>>

\* The wait times out: the processes that were notified are killed.
Timeout(t) ==
  /\ th[t].pc = "wait" /\ th[t].timeout >= 0
  /\ Section(t)
  /\ kernel' = Terminate(Status("sent"))
  /\ Goto(t, "waitForKilled")
  /\ UNCHANGED <<listVars, managerVars, posted, mon, registered>>

\* The termination is complete.  LaunchFirmAsync then leaves the program.
End(t) ==
  LET r == th[t]
      reboot == r.call \in {"PrepareForReboot", "LaunchFirm"} IN
  /\ r.pc = "end"
  /\ g_manager' = [g_manager EXCEPT !.waitingForTermination = FALSE]
  /\ IF reboot /\ r.i = 0 THEN Goto(t, "beginKips")
     ELSE IF r.call = "LaunchFirm" THEN Goto(t, "rebooted")
     ELSE IF r.call = "ChainloadHomebrewDirty" /\ r.title # Null THEN Goto(t, "waitGone")
     ELSE Step(t, Idle)
  /\ UNCHANGED <<listVars, g_debugNextApplication, lock, posted, mon, kernelVars>>

\* ChainloadHomebrewDirtyAsync polls until the monitor has cleaned up, then
\* launches the title again.
Relaunch ==
  LET r == th["task"] IN
  /\ r.pc = "waitGone"
  /\ g_manager.runningApplicationData = Null
  /\ Section("task")
  /\ Step("task", [r EXCEPT !.pc = "lookUp", !.call = "LaunchTitle",
                            !.flags = (@ \ {"update", "queue"}) \cup {"fake"}])
  /\ UNCHANGED <<listVars, managerVars, posted, mon, kernelVars>>
=============================================================================
