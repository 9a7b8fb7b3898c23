------------------------------ MODULE PmLaunch ------------------------------
(***************************************************************************)
(* launch.c: what the service thread and the task runner do to launch a    *)
(* title and its dependencies, and to run a process that waits for its     *)
(* debugger.  Launch flags: "app" (NORMAL_APPLICATION), "loadDeps",        *)
(* "notify" (NOTIFY_TERMINATION), "queue" (QUEUE_DEBUG_APPLICATION),       *)
(* "update" (USE_UPDATE_TITLE), "fake" (FAKE_DEPENDENCY_LOADING).          *)
(* LOADER_*, FSREG_*, SRVPM_* and svcRun fail for the titles Failures      *)
(* names; each failure takes the path the code takes.                      *)
(***************************************************************************)
EXTENDS PmProcessData

\* Mutant: the application that waits for its debugger is looked at.
NoApplicationQueued(flags) == g_manager.debugData = Null \/ "app" \notin flags

NoApplication(flags) == g_manager.runningApplicationData = Null \/ "app" \notin flags

\* A call returns: what LaunchTitle, LaunchTitleUpdate and LaunchAppDebug do
\* with the result.
Return(t, ok) ==
  LET r == th[t] IN
  /\ Step(t, Idle)
  /\ g_debugNextApplication' =
       IF ok /\ \/ r.call = "LaunchTitleUpdate"
                \/ r.call = "LaunchTitle" /\ "app" \in r.flags
       THEN FALSE
       ELSE IF ~ok /\ r.call = "LaunchAppDebug" THEN r.prevdbg
       ELSE g_debugNextApplication

-----------------------------------------------------------------------------
(* The commands *)

\* LaunchApp.
LaunchApp(c) ==
  /\ c.call = "LaunchApp" /\ Launching(c)
  /\ Section("srv")
  /\ g_manager.runningApplicationData = Null
  /\ Step("srv", [Call(c, "lookUp") EXCEPT !.call = "LaunchTitle",
                                           !.flags = @ \cup {"app", "loadDeps"}])
  /\ UNCHANGED <<listVars, managerVars, posted, mon, kernelVars>>

\* LaunchTitle begins.
LaunchTitle(c) ==
  /\ c.call = "LaunchTitle" /\ Launching(c)
  /\ Step("srv", Call(c, "lookUp"))
  /\ UNCHANGED <<listVars, managerVars, lock, posted, mon, kernelVars>>

\* LaunchTitle, until it has looked for a process of the title (in the task
\* runner it is the chainloader's, which does not allow it to be deferred).
LookUp(t) ==
  LET r == th[t]
      flags == (r.flags \ {"update"}) \cup
                 (IF g_debugNextApplication /\ "app" \in r.flags THEN {"queue"} ELSE {})
      found == ProcessByTitleId(r.title)
      deferred == t = "srv" /\ "queue" \notin flags /\ "app" \in flags IN
  /\ r.pc = "lookUp"
  /\ IF g_manager.preparingForReboot
     THEN Return(t, FALSE) /\ UNCHANGED lock
     ELSE /\ Section(t)
          /\ IF ~NoApplication(flags)
             THEN Return(t, FALSE)
             ELSE /\ Step(t, [r EXCEPT !.flags = flags, !.process = found,
                                       !.pc = IF found # Null THEN "found"
                                              ELSE IF deferred THEN "post" ELSE "check",
                                       !.call = IF found = Null /\ deferred
                                                THEN "LaunchTitleAsync" ELSE @])
                  /\ UNCHANGED g_debugNextApplication
  /\ UNCHANGED <<listVars, g_manager, posted, mon, kernelVars>>

\* LaunchTitle of a title that has a process, which stays for good.
Found(t) ==
  /\ th[t].pc = "found"
  /\ proc' = [proc EXCEPT ![th[t].process].flags = @ \ {"autoloaded"}]
  /\ Step(t, Idle)
  /\ UNCHANGED <<list, free, managerVars, lock, posted, mon, kernelVars>>

LaunchTitleUpdate(c) ==
  LET queue == g_debugNextApplication \/ "queue" \in c.flags
      flags == c.flags \cup {"update"} \cup (IF queue THEN {"queue"} ELSE {}) IN
  /\ c.call = "LaunchTitleUpdate" /\ Launching(c)
  /\ Section("srv")
  /\ ~g_manager.preparingForReboot /\ g_manager.runningApplicationData = Null
  /\ c.flags \ {"app"} # {}
  /\ Step("srv", IF queue THEN [Call(c, "check") EXCEPT !.flags = flags]
                 ELSE [Call(c, "post") EXCEPT !.call = "LaunchTitleAsync", !.flags = flags])
  /\ UNCHANGED <<listVars, managerVars, posted, mon, kernelVars>>

\* LaunchAppDebug, and LaunchTitleDebug of an application.
LaunchAppDebug(c) ==
  /\ c.call = "LaunchTitleDebug" /\ "app" \in c.flags /\ Launching(c)
  /\ Section("srv")
  /\ IF g_manager.debugData # Null
     THEN Step("srv", Call(c, "runQueued")) /\ UNCHANGED g_debugNextApplication
     ELSE /\ g_manager.runningApplicationData = Null
          /\ Step("srv", [Call(c, "check") EXCEPT !.call = "LaunchAppDebug",
                                                  !.flags = @ \ {"update"},
                                                  !.prevdbg = g_debugNextApplication])
          /\ g_debugNextApplication' = FALSE
  /\ UNCHANGED <<listVars, g_manager, posted, mon, kernelVars>>

LaunchTitleDebug(c) ==
  /\ c.call = "LaunchTitleDebug" /\ "app" \notin c.flags /\ Launching(c)
  /\ Section("srv")
  /\ Step("srv", [Call(c, IF g_manager.debugData # Null THEN "runQueued" ELSE "check")
                    EXCEPT !.flags = @ \ {"update"}])
  /\ UNCHANGED <<listVars, managerVars, posted, mon, kernelVars>>

DebugNextApplicationByForce(c) ==
  /\ c.call = "DebugNextApplicationByForce" /\ Receive(c)
  /\ g_debugNextApplication' = ("debug" \in c.flags)
  /\ UNCHANGED <<listVars, g_manager, lock, posted, th, mon, kernelVars>>

\* UnregisterProcess of manager.c: the client was told that the process ended.
UnregisterProcess(c) ==
  LET n == ProcessByTitleId(c.title)
      forgotten(m) == IF m = n THEN Null ELSE m IN
  /\ c.call = "UnregisterProcess" /\ Receive(c)
  /\ n # Null /\ proc[n].status = "terminated"
  /\ Section("srv")
  /\ g_manager' = [g_manager EXCEPT !.runningApplicationData = forgotten(@),
                                    !.debugData = forgotten(@)]
  /\ Delete(n)
  /\ UNCHANGED <<proc, g_debugNextApplication, posted, th, mon, kernelVars>>

-----------------------------------------------------------------------------
(* launchTitleImpl: a title, or dependency i of it *)

Launched(r) == IF r.i = 0 THEN r.title ELSE r.dependencies[r.i]
LaunchedFlags(r) == IF r.i = 0 THEN r.flags ELSE {}
LaunchedProcess(r) == IF r.i = 0 THEN r.process ELSE r.dep

\* The loop of loadWithDependencies goes on with the next dependency that
\* has no process.
NextDependency(r) ==
  LET left == {j \in r.i + 1 .. Len(r.dependencies) : r.depProcs[j] = Null} IN
  IF left # {}
  THEN [r EXCEPT !.pc = "create", !.i = CHOOSE j \in left : \A k \in left : j <= k]
  ELSE [r EXCEPT !.pc = IF r.failed THEN "cleanup" ELSE "run", !.i = 0]

\* launchTitleImplWrapper tests again that no application runs.
CheckApplication(t) ==
  /\ th[t].pc = "check"
  /\ Section(t)
  /\ IF NoApplication(th[t].flags)
     THEN /\ Step(t, [th[t] EXCEPT !.pc = "create",
                        !.flags = IF "app" \in @ THEN @ \cup {"loadDeps"} ELSE @ \ {"update"}])
          /\ UNCHANGED g_debugNextApplication
     ELSE Return(t, FALSE)
  /\ UNCHANGED <<listVars, g_manager, posted, mon, kernelVars>>

\* No process came of it.
NotCreated(t) ==
  IF th[t].i = 0
  THEN Return(t, FALSE)
  ELSE /\ Step(t, NextDependency([th[t] EXCEPT !.failed = TRUE]))
       /\ UNCHANGED g_debugNextApplication

\* registerProgram and LOADER_GetProgramInfo.
RegisterProgramFails(t) ==
  /\ th[t].pc = "create"
  /\ <<"register", Launched(th[t])>> \in Failures
  /\ NotCreated(t)
  /\ UNCHANGED <<listVars, g_manager, lock, posted, mon, kernelVars>>

\* LOADER_LoadProcess fails: the jump to cleanup skips the lock.
LoadProcessFails(t) ==
  /\ th[t].pc = "create"
  /\ <<"load", Launched(th[t])>> \in Failures
  /\ StrayUnlocks(1)
  /\ NotCreated(t)
  /\ UNCHANGED <<listVars, g_manager, posted, mon, kernelVars>>

\* The process is created by the loader and put into the list.
LoadProcess(t) ==
  LET r == th[t]
      pid == CHOOSE p \in Unused : \A q \in Unused : p <= q IN
  /\ r.pc = "create" /\ Unused # {}
  /\ Section(t)
  /\ New(NewProcess(pid, Launched(r), LaunchedFlags(r)))
  /\ kernel' = [kernel EXCEPT ![pid] = "created"]
  /\ Step(t, IF r.i = 0
             THEN [r EXCEPT !.pc = "setUp", !.pid = pid, !.process = Head(free)]
             ELSE [r EXCEPT !.pc = "setUp", !.pid = pid, !.dep = Head(free), !.failed = FALSE])
  /\ UNCHANGED <<managerVars, posted, mon, registered>>

\* A failure ends the process that failed and, when it is a dependency, the
\* one that needs it; then every launchTitleImpl left by the jump to cleanup
\* unlocks what it has not locked.
Failed(t, strayUnlocks) ==
  /\ kernel' = Terminate({LaunchedProcess(th[t]), th[t].process})
  /\ StrayUnlocks(strayUnlocks)
  /\ Return(t, FALSE)

\* The process has ended before it was set up: its handle is closed, once the
\* monitor has cleaned up, or it can no longer be debugged.
Lost(r) ==
  \/ /\ r.pid \notin {proc[n].pid : n \in Listed}
     /\ ~(mon.pc \in {"release", "unregister", "forget"} /\ mon.backup.pid = r.pid)
  \/ /\ r.i = 0 /\ r.call \in {"LaunchTitleDebug", "LaunchAppDebug"}
     /\ kernel[r.pid] = "dead"

\* The monitor is told of the process, then FS and sm, then the kernel.
SetUpFails(t) ==
  LET r == th[t] IN
  /\ r.pc = "setUp"
  /\ \/ <<"setUp", Launched(r)>> \in Failures /\ UNCHANGED registered
     \/ Lost(r) /\ registered' = registered \cup {r.pid}
  /\ g_manager' = [g_manager EXCEPT !.newProcessEvent = TRUE]
  /\ Failed(t, IF r.i = 0 THEN 1 ELSE 2)
  /\ UNCHANGED <<listVars, posted, mon>>

\* Mutant: the monitor is not told.
SetUpUnannounced(t) ==
  LET r == th[t]
      n == LaunchedProcess(r) IN
  /\ r.pc = "setUp" /\ ~Lost(r)
  /\ registered' = registered \cup {r.pid}
  /\ proc' = [proc EXCEPT ![n].flags = @ \cup (LaunchedFlags(r) \cap {"app"})]
  /\ Goto(t, IF "loadDeps" \in LaunchedFlags(r) THEN "merge" ELSE "run")
  /\ UNCHANGED <<list, free, managerVars, lock, posted, mon, kernel>>

\* Mutant: the process id was never read.
SetUpWithoutPid(t) ==
  LET r == th[t]
      n == LaunchedProcess(r) IN
  /\ r.pc = "setUp" /\ ~Lost(r)
  /\ g_manager' = [g_manager EXCEPT !.newProcessEvent = TRUE]
  /\ registered' = registered \cup {0}
  /\ proc' = [proc EXCEPT ![n].flags = @ \cup (LaunchedFlags(r) \cap {"app"})]
  /\ Goto(t, IF "loadDeps" \in LaunchedFlags(r) THEN "merge" ELSE "run")
  /\ UNCHANGED <<list, free, g_debugNextApplication, lock, posted, mon, kernel>>

SetUp(t) ==
  LET r == th[t]
      n == LaunchedProcess(r) IN
  /\ r.pc = "setUp" /\ ~Lost(r)
  /\ g_manager' = [g_manager EXCEPT !.newProcessEvent = TRUE]
  /\ registered' = registered \cup {r.pid}
  /\ proc' = [proc EXCEPT ![n].flags = @ \cup (LaunchedFlags(r) \cap {"app"})]
  /\ Goto(t, IF "loadDeps" \in LaunchedFlags(r) THEN "merge" ELSE "run")
  /\ UNCHANGED <<list, free, g_debugNextApplication, lock, posted, mon, kernel>>

-----------------------------------------------------------------------------
(* The dependencies *)

Occurrences(x, s) == Cardinality({i \in DOMAIN s : s[i] = x})

\* The elements of a sequence that another one does not have, once.
NewIn(s, old) ==
  LET firsts == {i \in DOMAIN s : /\ s[i] \notin Range(old)
                                  /\ \A j \in 1 .. i - 1 : s[j] # s[i]}
      positions == Selected([i \in 1 .. Len(s) |-> i], firsts)
  IN [k \in 1 .. Len(positions) |-> s[positions[k]]]

\* listMergeUniqueDependencies: what a title needs is merged into what was
\* found so far, references are added to the processes there are, and those
\* to add to processes still to launch are counted.  There is room for 48: pm
\* panics, and nothing follows, when there are more.
MergedDependencies(r, titles) ==
  LET new == NewIn(titles, r.dependencies)
      all == r.dependencies \o new
      procs == r.depProcs \o [k \in DOMAIN new |-> ProcessByTitleId(new[k])]
      rem == r.remrefcounts \o [k \in DOMAIN new |-> 0]
  IN [r EXCEPT !.dependencies = all, !.depProcs = procs,
               !.remrefcounts = [k \in DOMAIN all |->
                  IF procs[k] = Null THEN rem[k] + Occurrences(all[k], titles) ELSE rem[k]]]

References(r, titles) ==
  [n \in Nodes |->
     LET uses == {k \in DOMAIN r.dependencies : r.depProcs[k] = n}
         k == CHOOSE j \in uses : TRUE
     IN IF uses = {} THEN proc[n] ELSE Incref(proc[n], Occurrences(r.dependencies[k], titles))]

MergeDependencies(t) ==
  LET r == th[t]
      titles == Deps[Launched(r)]
      merged == MergedDependencies(r, titles) IN
  /\ r.pc = "merge"
  /\ Section(t)
  /\ Len(merged.dependencies) <= 48
  /\ proc' = References(merged, titles) /\ CountsFit(proc')
  /\ Step(t, IF r.i = 0 THEN [merged EXCEPT !.pc = "mark"] ELSE NextDependency(merged))
  /\ UNCHANGED <<list, free, managerVars, posted, mon, kernelVars>>

\* The process has dependencies; the chainloader pretends they are loaded.
MarkDependencies(t) ==
  LET r == th[t] IN
  /\ r.pc = "mark"
  /\ proc' = [proc EXCEPT ![r.process].flags =
                IF r.dependencies = <<>> THEN @ ELSE @ \cup {"dependenciesLoaded"}]
  /\ Step(t, IF "fake" \in r.flags THEN [r EXCEPT !.pc = "run"] ELSE NextDependency(r))
  /\ UNCHANGED <<list, free, managerVars, lock, posted, mon, kernelVars>>

\* Mutant: the reference the process was created with is not deducted.
MarkAutoloadedOnceMore(t) ==
  LET r == th[t]
      p == [proc[r.dep] EXCEPT !.flags = @ \cup {"autoloaded", "dependenciesLoaded"}] IN
  /\ r.pc = "launched"
  /\ proc' = [proc EXCEPT ![r.dep] = Incref(p, r.remrefcounts[r.i])]
  /\ CountsFit(proc')
  /\ Step(t, [r EXCEPT !.pc = "merge", !.depProcs[r.i] = r.dep, !.remrefcounts[r.i] = 0])
  /\ UNCHANGED <<list, free, managerVars, lock, posted, mon, kernelVars>>

\* A dependency was launched: it is marked, and gets the references that
\* were counted for it.
MarkAutoloaded(t) ==
  LET r == th[t]
      p == [proc[r.dep] EXCEPT !.flags = @ \cup {"autoloaded", "dependenciesLoaded"}] IN
  /\ r.pc = "launched"
  /\ proc' = [proc EXCEPT ![r.dep] = Incref(p, r.remrefcounts[r.i] - 1)]
  /\ CountsFit(proc')
  /\ Step(t, [r EXCEPT !.pc = "merge", !.depProcs[r.i] = r.dep, !.remrefcounts[r.i] = 0])
  /\ UNCHANGED <<list, free, managerVars, lock, posted, mon, kernelVars>>

-----------------------------------------------------------------------------
(* The process is run *)

\* svcRun runs a process that was not killed meanwhile.
Runs(n) == kernel[proc[n].pid] = "created"

Queue(t) ==
  LET r == th[t] IN
  /\ r.pc = "run" /\ "queue" \in LaunchedFlags(r)
  /\ g_manager.debugData = Null
  /\ Section(t)
  /\ g_manager' = [g_manager EXCEPT !.debugData = r.process]
  /\ proc' = [proc EXCEPT ![r.process].flags = @ \cup (r.flags \cap {"notify"})]
  /\ Return(t, TRUE)
  /\ UNCHANGED <<list, free, posted, mon, kernelVars>>

Run(t) ==
  LET r == th[t]
      n == LaunchedProcess(r)
      flags == LaunchedFlags(r) IN
  /\ r.pc = "run" /\ "queue" \notin flags
  /\ Runs(n)
  /\ Section(t)
  /\ kernel' = [kernel EXCEPT ![proc[n].pid] = "running"]
  /\ g_manager' = [g_manager EXCEPT !.runningApplicationData =
                     IF "app" \in flags THEN n ELSE @]
  /\ proc' = [proc EXCEPT ![n].flags = @ \cup (flags \cap {"notify"})]
  /\ IF r.i = 0 THEN Return(t, TRUE)
     ELSE Goto(t, "launched") /\ UNCHANGED g_debugNextApplication
  /\ UNCHANGED <<list, free, posted, mon, registered>>

\* Another process waits for its debugger already, or svcRun fails.  A
\* dependency's failure is one of loadWithDependencies for its user.
RunFails(t) ==
  LET r == th[t]
      n == LaunchedProcess(r) IN
  /\ r.pc = "run"
  /\ IF "queue" \in LaunchedFlags(r) THEN g_manager.debugData # Null
     ELSE ~Runs(n) \/ <<"run", Launched(r)>> \in Failures
  /\ lock.owner \in {Null, t}
  /\ IF r.i = 0
     THEN /\ Section(t)
          /\ kernel' = Terminate({n})
          /\ Return(t, FALSE)
     ELSE Failed(t, 1)
  /\ UNCHANGED <<listVars, g_manager, posted, mon, registered>>

\* The last dependency that was tried came to nothing.
Cleanup(t) ==
  /\ th[t].pc = "cleanup"
  /\ Failed(t, 1)
  /\ UNCHANGED <<listVars, g_manager, posted, mon, registered>>

\* RunQueuedProcess; Failures decides about LOADER_GetProgramInfo and
\* svcDebugActiveProcess, too.
RunQueued(t, returns) ==
  LET n == g_manager.debugData
      app == "app" \in proc[n].flags IN
  /\ Section(t)
  /\ IF n = Null \/ (app /\ g_manager.runningApplicationData # Null)
     THEN UNCHANGED <<proc, g_manager, kernel>>
     ELSE \/ /\ Runs(n)
             /\ kernel' = [kernel EXCEPT ![proc[n].pid] = "running"]
             /\ g_manager' = [g_manager EXCEPT !.debugData = Null,
                                !.runningApplicationData = IF app THEN n ELSE @]
             /\ UNCHANGED proc
          \/ /\ ~Runs(n) \/ <<"run", proc[n].title>> \in Failures
             /\ kernel' = Terminate({n})
             /\ g_manager' = [g_manager EXCEPT !.debugData = Null]
             /\ proc' = [proc EXCEPT ![n].flags = @ \ {"notify"}]
  /\ returns
  /\ UNCHANGED <<list, free, g_debugNextApplication, posted, mon, registered>>

RunQueuedProcess(c) ==
  /\ c.call = "RunQueuedProcess" /\ Receive(c)
  /\ RunQueued("srv", UNCHANGED th)

RunQueuedInstead ==
  /\ th["srv"].pc = "runQueued"
  /\ RunQueued("srv", Step("srv", Idle))
=============================================================================
