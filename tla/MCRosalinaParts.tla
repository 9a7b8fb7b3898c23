-------------------------- MODULE MCRosalinaParts --------------------------
(* The threads of rosalina on instances small enough for liveness: the     *)
(* task runner, the menu with the dialogs of other threads, the debugger's *)
(* server, the plugin loader.  The parts do not interact here: a behaviour *)
(* is one of part, and leaves the others as they begin.                    *)
EXTENDS TaskRunner

VARIABLES
  part,
  menuRefCount, framebufferCache, drawLock, menuShouldExit, preTerminationRequested,
  rosalinaOpen, rosalinaState, paused, app, th, crashed, outOfTurn,
  ctx, gdbClient, statusUpdated, statusUpdateReceived, shall_terminate,
  nextApplicationGdbCtx, monitor, socket, menu, proc,
  status, events, plg, mounted, pluginThreads, application, signaller, notified,
  signalPluginEvent, mainThread, pluginTask

menuVars == <<menuRefCount, framebufferCache, drawLock, menuShouldExit,
              preTerminationRequested, rosalinaOpen, rosalinaState, paused, app, th,
              crashed, outOfTurn>>
gdbVars == <<ctx, gdbClient, statusUpdated, statusUpdateReceived, shall_terminate,
             nextApplicationGdbCtx, monitor, socket, menu, proc>>
pluginVars == <<status, events, plg, mounted, pluginThreads, application, signaller, notified,
                signalPluginEvent, mainThread, pluginTask>>
partsVars == <<part, vars, menuVars, gdbVars, pluginVars>>

Menu == INSTANCE RosalinaMenu WITH
  Preemptible <- FALSE, LateShell <- FALSE, Items <- {"brightness", "power"},
  LeastRefCount <- 0

Gdb == INSTANCE GdbServer WITH
  Ctxs <- {1}, BasePorts <- {1}, NextPort <- 3, Procs <- {"p"}, NextApp <- "app",
  Prompt <- TRUE, client <- gdbClient

Plugin == INSTANCE PluginLoader WITH
  OneEvent <- TRUE, Graceful <- TRUE, Prompt <- TRUE, task <- pluginTask

ASSUME PartsAssumption ==
  Menu!MenuAssumption /\ Gdb!GdbAssumption /\ Plugin!PluginAssumption

PartsInit ==
  /\ part \in {"tasks", "menu", "gdb", "plugin"}
  /\ Init /\ Menu!Init /\ Gdb!Init /\ Plugin!Init

PartsNext ==
  \/ part = "tasks" /\ Next /\ UNCHANGED <<part, menuVars, gdbVars, pluginVars>>
  \/ part = "menu" /\ Menu!Next /\ UNCHANGED <<part, vars, gdbVars, pluginVars>>
  \/ part = "gdb" /\ Gdb!Next /\ UNCHANGED <<part, vars, menuVars, pluginVars>>
  \/ part = "plugin" /\ Plugin!Next /\ UNCHANGED <<part, vars, menuVars, gdbVars>>

\* The fairness of each part, for the part that runs.
PartsFairness ==
  /\ WF_vars(part = "tasks" /\ HandleTasks)
  /\ \A c \in Clients : WF_vars(part = "tasks" /\ Client(c))
  /\ \A t \in Menu!Threads : WF_menuVars(part = "menu" /\ Menu!Proceed(t))
  /\ WF_menuVars(part = "menu" /\ Menu!ThreadEnds)
  /\ SF_menuVars(part = "menu" /\ Menu!RequestTermination)
  /\ WF_menuVars(part = "menu" /\ (Menu!Termination \/ Menu!Join))
  /\ SF_gdbVars(part = "gdb" /\ Gdb!BrokenIsNoticed)
  /\ WF_gdbVars(part = "gdb" /\ Gdb!Monitor)
  /\ WF_gdbVars(part = "gdb" /\ Gdb!Socket)
  /\ WF_gdbVars(part = "gdb" /\ Gdb!Unselected)
  /\ WF_gdbVars(part = "gdb" /\ Gdb!FinalizeServer)
  /\ WF_pluginVars(part = "plugin" /\ Plugin!Command)
  /\ WF_pluginVars(part = "plugin" /\ Plugin!Handler)
  /\ WF_pluginVars(part = "plugin" /\ Plugin!Task)
  /\ \A s \in Plugin!Signallers :
       /\ WF_pluginVars(part = "plugin" /\ Plugin!Publish(s))
       /\ WF_pluginVars(part = "plugin" /\ Plugin!Awoken(s))

PartsSpec == PartsInit /\ [][PartsNext]_partsVars /\ PartsFairness

DialogsConsistent == Menu!DialogsConsistent
TerminationCompletes == Menu!TerminationCompletes
ServerAnswers == Gdb!ServerAnswers
PluginConsistent == Plugin!PluginConsistent
SignalsReturn == Plugin!SignalsReturn
=============================================================================
