---------------------------- MODULE PluginLoader ----------------------------
(***************************************************************************)
(* The plugin loader of rosalina (plugin/plgloader.c, file_loader.c,       *)
(* memoryblock.c) and the events of the kernel extension (globals.c): a    *)
(* word of configuration memory holds the status of the plugin and, above  *)
(* it, the event that a thread of the application waits to see handled.    *)
(* Rosalina's main thread loads a plugin with its application and handles  *)
(* the events; a task of the task runner waits for the application's end.  *)
(***************************************************************************)
EXTENDS Naturals

CONSTANTS
  OneEvent,  \* the application's threads signal one event at a time
  Graceful,  \* an application with a plugin ends by ExitProcess, in front
  Prompt     \* the task is over before the next application is loaded

PluginAssumption == {OneEvent, Graceful, Prompt} \subseteq BOOLEAN

\* A process is its application's turn; 0 is no process, or no handle.
Processes == {1, 2}
NoProcess == 0

\* The threads of the application that signal: in ExitProcess, and after a
\* parameter of APT arrived.
Signallers == {"EXIT", "HOME"}

VARIABLES
  status, events,   \* the word of configuration memory
  plg,              \* PluginLoaderCtx
  mounted,          \* the process that the memory block is mapped into
  pluginThreads,    \* of the application: none, running or locked
  application,      \* the process, what it does, whether ExitProcess is hooked
  signaller,        \* where each signaller is in PLG_SignalEvent
  notified,         \* notifications 0x1001 not yet received
  signalPluginEvent,
  mainThread, task

vars == <<status, events, plg, mounted, pluginThreads, application, signaller, notified,
          signalPluginEvent, mainThread, task>>

\* memblock.isReady, pluginIsSwapped, pluginIsHome and the memory strategy.
ResetCtx(ready) ==
  [target |-> NoProcess, ready |-> ready, swapped |-> FALSE, home |-> FALSE, strategy |-> "swap"]

Init ==
  /\ status = "none" /\ events = {}
  /\ plg = ResetCtx(FALSE) /\ mounted = NoProcess /\ pluginThreads = "none"
  /\ application = [id |-> 1, pc |-> "none", hooked |-> FALSE]
  /\ signaller = [s \in Signallers |-> "out"]
  /\ notified = 0 /\ signalPluginEvent = FALSE
  /\ mainThread = "idle" /\ task = "idle"

wordVars == <<status, events>>
kernelVars == <<application, signaller, notified, signalPluginEvent>>

-----------------------------------------------------------------------------
(* The application                                                         *)

Exists(id) == application.pc # "none" /\ application.id = id

\* The loader creates the process and asks for its plugin.
Launch ==
  /\ application.pc = "none" /\ (Prompt => task = "idle")
  /\ application' = [id |-> 3 - application.id, pc |-> "loading", hooked |-> FALSE]
  /\ UNCHANGED <<wordVars, plg, mounted, pluginThreads, signaller, notified,
                 signalPluginEvent, mainThread, task>>

\* ExitProcessHook, SendSyncRequestHook: whether there is an event depends on
\* the status.
Signals(s) == status = "running" \/ (s = "HOME" /\ status = "inHome")

SignalEvent(s) ==
  /\ application.pc = "running" /\ signaller[s] = "out"
  /\ OneEvent => \A o \in Signallers : signaller[o] = "out"
  /\ Signals(s) /\ (s = "EXIT" => application.hooked)
  /\ events' = events \cup {s}
  /\ signaller' = [signaller EXCEPT ![s] = "publish"]
  /\ UNCHANGED <<status, plg, mounted, pluginThreads, application, notified,
                 signalPluginEvent, mainThread, task>>

Publish(s) ==
  /\ signaller[s] = "publish"
  /\ notified' = notified + 1
  /\ signaller' = [signaller EXCEPT ![s] = "wait"]
  /\ UNCHANGED <<wordVars, plg, mounted, pluginThreads, application, signalPluginEvent,
                 mainThread, task>>

\* The event is one-shot: it lets one thread go on.
Awoken(s) ==
  /\ signaller[s] = "wait" /\ signalPluginEvent
  /\ signalPluginEvent' = FALSE
  /\ signaller' = [signaller EXCEPT ![s] = IF s = "EXIT" THEN "exit" ELSE "out"]
  /\ UNCHANGED <<wordVars, plg, mounted, pluginThreads, application, notified, mainThread, task>>

\* The process is gone, with its threads and its mappings.
Gone ==
  /\ application' = [application EXCEPT !.pc = "none"]
  /\ signaller' = [s \in Signallers |-> "out"]
  /\ pluginThreads' = "none"
  /\ mounted' = IF mounted = application.id THEN NoProcess ELSE mounted
  /\ UNCHANGED <<wordVars, plg, notified, signalPluginEvent, mainThread, task>>

\* ExitProcess after the event, or without one.
ExitProcess ==
  /\ application.pc = "running"
  /\ \/ signaller["EXIT"] = "exit"
     \/ /\ signaller["EXIT"] = "out" /\ ~(application.hooked /\ Signals("EXIT"))
        /\ OneEvent => signaller["HOME"] = "out"
        /\ Graceful => status # "inHome"
     \/ ~Graceful  \* svcTerminateProcess: no hook is called
  /\ Gone

-----------------------------------------------------------------------------
(* Rosalina's main thread: command 1 of plg:ldr                            *)

LoadPlugin ==
  /\ mainThread = "idle" /\ application.pc = "loading" /\ ~application.hooked
  /\ plg' = [plg EXCEPT !.target = application.id]
  /\ mainThread' = "try"
  /\ UNCHANGED <<wordVars, mounted, pluginThreads, kernelVars, task>>

\* The loader is answered, and the application starts.
Start(hooked, running) ==
  /\ application' = [application EXCEPT !.pc = "running", !.hooked = hooked]
  /\ pluginThreads' = running
  /\ mainThread' = "idle"
  /\ UNCHANGED <<events, signaller, notified, signalPluginEvent, task>>

\* The loader is disabled, or the title has no plugin.
NoPlugin ==
  /\ mainThread = "try"
  /\ plg' = [plg EXCEPT !.target = NoProcess]
  /\ Start(FALSE, "none") /\ UNCHANGED <<status, mounted>>

Strategy(swapNotNeeded) ==
  IF plg.strategy = "swap" /\ swapNotNeeded THEN "none" ELSE plg.strategy

\* TryToLoadPlugin fails, as it does when the memory block is there already,
\* and frees the block.
PluginFails(swapNotNeeded) ==
  /\ mainThread = "try"
  /\ plg' = [plg EXCEPT !.target = NoProcess, !.ready = FALSE, !.strategy = Strategy(swapNotNeeded)]
  /\ Start(FALSE, "none") /\ UNCHANGED <<status, mounted>>

PluginLoaded(swapNotNeeded) ==
  /\ mainThread = "try" /\ ~plg.ready
  /\ plg' = [plg EXCEPT !.ready = TRUE, !.strategy = Strategy(swapNotNeeded)]
  /\ mounted' = plg.target
  /\ status' = "running"
  /\ application' = [application EXCEPT !.pc = "running", !.hooked = TRUE]
  /\ pluginThreads' = "running"
  /\ mainThread' = "idle"
  /\ events' = {}
  /\ UNCHANGED <<signaller, notified, signalPluginEvent, task>>

-----------------------------------------------------------------------------
(* Rosalina's main thread: PluginLoader__HandleKernelEvent                 *)

Goes(pc) == mainThread' = pc

\* Two events at a time are neither of the two.
HandleKernelEvent ==
  /\ mainThread = "idle" /\ notified > 0
  /\ notified' = notified - 1
  /\ IF status # "exiting" /\ events = {"EXIT"}
     THEN /\ status' = "exiting" /\ events' = {}
          /\ Goes(IF plg.swapped THEN "runTask" ELSE "aboutToExit")
     ELSE /\ UNCHANGED wordVars
          /\ Goes(CASE status = "exiting" \/ events # {"HOME"} -> "publish"
                    [] plg.strategy # "swap" -> "home"
                    [] plg.swapped -> "swapIn"
                    [] OTHER -> "aboutToSwap")
  /\ UNCHANGED <<plg, mounted, pluginThreads, application, signaller, signalPluginEvent, task>>

\* PLG__WaitForReply ends by the reply, or after 10 s.
ToldExit ==
  /\ mainThread = "aboutToExit" /\ Goes("runTask")
  /\ UNCHANGED <<wordVars, plg, mounted, pluginThreads, kernelVars, task>>

\* TaskRunner_RunTask waits for the task before.  Mutant: the handler returns
\* from here.
RunTaskAndReturn ==
  /\ mainThread = "runTask" /\ task = "idle"
  /\ task' = "wait" /\ Goes("idle")
  /\ UNCHANGED <<wordVars, plg, mounted, pluginThreads, kernelVars>>

RunTask ==
  /\ mainThread = "runTask" /\ task = "idle"
  /\ task' = "wait" /\ Goes("publish")
  /\ UNCHANGED <<wordVars, plg, mounted, pluginThreads, kernelVars>>

\* PLG__SetConfigMemoryStatus: a plain store, which clears what it overwrites.
SetStatus(s) == status' = s /\ events' = {}

\* Without swapping, as always on the new model: the plugin is told, when it
\* wants to be.
HomeWithoutSwap ==
  /\ mainThread = "home"
  /\ SetStatus(IF plg.home THEN "running" ELSE "inHome")
  /\ plg' = [plg EXCEPT !.home = ~@]
  /\ Goes("publish")
  /\ UNCHANGED <<mounted, pluginThreads, kernelVars, task>>

\* PROCESSOP_SCHEDULE_THREADS on the process that the handle names.
Schedule(threads) ==
  pluginThreads' = IF Exists(plg.target) /\ pluginThreads # "none" THEN threads ELSE pluginThreads

\* Mutant: the threads run on while their memory is taken away.
SwapOutAtOnce == Goes("swapOut") /\ UNCHANGED pluginThreads
LocksThreads == Goes("swapOut") /\ Schedule("locked")

ToldSwap ==
  /\ mainThread = "aboutToSwap" /\ LocksThreads
  /\ UNCHANGED <<wordVars, plg, mounted, kernelVars, task>>

\* MemoryBlock__UnmountFromProcess of the process that the handle names.
Unmount == mounted' = IF mounted = plg.target THEN NoProcess ELSE mounted

SwapOut ==
  /\ mainThread = "swapOut"
  /\ Unmount /\ plg' = [plg EXCEPT !.ready = FALSE, !.swapped = TRUE]
  /\ SetStatus("inHome") /\ Goes("publish")
  /\ UNCHANGED <<pluginThreads, kernelVars, task>>

SwapIn ==
  /\ mainThread = "swapIn"
  /\ plg' = [plg EXCEPT !.ready = TRUE]
  /\ mounted' = IF Exists(plg.target) THEN plg.target ELSE mounted
  /\ Goes("resume")
  /\ UNCHANGED <<wordVars, pluginThreads, kernelVars, task>>

Resume ==
  /\ mainThread = "resume"
  /\ Schedule("running")
  /\ plg' = [plg EXCEPT !.swapped = FALSE]
  /\ SetStatus("running") /\ Goes("publish")
  /\ UNCHANGED <<mounted, kernelVars, task>>

\* Notification 0x1002, which the kernel takes for itself.
WakeAppThread ==
  /\ mainThread = "publish"
  /\ signalPluginEvent' = TRUE
  /\ Goes("idle")
  /\ UNCHANGED <<wordVars, plg, mounted, pluginThreads, application, signaller, notified, task>>

-----------------------------------------------------------------------------
(* The task WaitForProcessTerminated                                       *)

\* When the process that is the target by now has ended, or after 2.5 s.
ProcessTerminated ==
  /\ task = "wait" /\ task' = "release"
  /\ UNCHANGED <<wordVars, plg, mounted, pluginThreads, kernelVars, mainThread>>

Release ==
  /\ task = "release"
  /\ IF plg.swapped THEN UNCHANGED <<plg, mounted>>
     ELSE Unmount /\ plg' = [plg EXCEPT !.ready = FALSE]
  /\ task' = "reset"
  /\ UNCHANGED <<wordVars, pluginThreads, kernelVars, mainThread>>

Reset ==
  /\ task = "reset"
  /\ SetStatus("none")
  /\ plg' = ResetCtx(plg.ready)
  /\ task' = "idle"
  /\ UNCHANGED <<mounted, pluginThreads, kernelVars, mainThread>>

-----------------------------------------------------------------------------

Command ==
  \/ LoadPlugin \/ NoPlugin
  \/ \E swapNotNeeded \in BOOLEAN : PluginFails(swapNotNeeded) \/ PluginLoaded(swapNotNeeded)

Handler ==
  \/ HandleKernelEvent \/ ToldExit \/ RunTask \/ HomeWithoutSwap
  \/ ToldSwap \/ SwapOut \/ SwapIn \/ Resume \/ WakeAppThread

Task == ProcessTerminated \/ Release \/ Reset

Next ==
  \/ Launch \/ ExitProcess
  \/ \E s \in Signallers : SignalEvent(s) \/ Publish(s) \/ Awoken(s)
  \/ Command \/ Handler \/ Task

\* The loops of the main thread and of the task runner; a thread that is in
\* the kernel goes on.
Fairness ==
  /\ WF_vars(Command) /\ WF_vars(Handler) /\ WF_vars(Task)
  /\ \A s \in Signallers : WF_vars(Publish(s)) /\ WF_vars(Awoken(s))

Spec == Init /\ [][Next]_vars /\ Fairness

-----------------------------------------------------------------------------
(* Properties                                                              *)

\* Type invariant of the plugin loader.
TypeOK ==
  /\ status \in {"none", "running", "inHome", "exiting"} /\ events \subseteq Signallers
  /\ plg \in [target : Processes \cup {NoProcess}, ready : BOOLEAN, swapped : BOOLEAN,
              home : BOOLEAN, strategy : {"swap", "none"}]
  /\ mounted \in Processes \cup {NoProcess}
  /\ pluginThreads \in {"none", "running", "locked"}
  /\ notified \in 0 .. 2

\* Until the application exits, threads of a plugin run on memory that is
\* allocated and mapped into their process, whatever order homes and returns
\* come in; and nothing of the application before, however long its exit took,
\* is left when a plugin is loaded, so that its first event means what it says.
PluginConsistent ==
  /\ pluginThreads = "running" /\ signaller["EXIT"] = "out" =>
       plg.ready /\ mounted = application.id
  /\ pluginThreads = "locked" => plg.swapped \/ mainThread \in {"swapOut", "resume", "swapIn"}
  /\ mainThread = "try" =>
       status = "none" /\ events = {} /\ ~plg.ready /\ ~plg.swapped /\ ~plg.home

\* A thread of the application that signals an event and waits in the kernel,
\* without a time limit, is let go: an application in front of the home menu
\* comes back, and one that exits ends.
SignalsReturn == \A s \in Signallers : signaller[s] = "wait" ~> signaller[s] # "wait"
=============================================================================
