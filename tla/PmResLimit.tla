----------------------------- MODULE PmResLimit -----------------------------
(***************************************************************************)
(* What an application may use (pm/source/reslimit.c): its memory and its  *)
(* share of core 1.  Both are set by the launch (launch.c), in the service *)
(* thread or in the task runner; the memory is given back by the monitor   *)
(* when the application has ended (process_monitor.c), the share is asked  *)
(* for by NS on behalf of the application (SetAppResourceLimit).           *)
(*                                                                         *)
(* One step is what lies between two calls into the kernel or two accesses *)
(* to g_manager.  The console is a New 3DS whose application memory may be *)
(* changed (app_memtype is 6); on others nothing sets the memory.          *)
(***************************************************************************)
EXTENDS Integers, FiniteSets

CONSTANTS
  Titles,        \* applications
  Descriptor,    \* of each: what its extended header and its launch say
  Overrides,     \* g_startCpuTimeOverrides: a sequence of [titleUid, value]
  Values,        \* shares that NS asks for
  DefaultMemory, \* MB: appmemalloc at start
  Orderly,       \* one launch at a time, shares are set for who runs
  AlwaysRuns,    \* an application for which the memory was changed comes to run
  Settled,       \* the redirection of threads is switched while no share is set
  None

LimitAssumption ==
  /\ None \notin Titles
  /\ Orderly \in BOOLEAN /\ AlwaysRuns \in BOOLEAN /\ Settled \in BOOLEAN
  /\ DefaultMemory \in Nat \ {0} /\ Values \subseteq Nat
  /\ Descriptor \in [Titles -> [cpuTime : 0..127, multi : BOOLEAN, titleUid : Nat,
                                n3dsSystemMode : {"prod", "other"},
                                o3dsSystemMode : {"prod", "dev1", "dev2", "other"},
                                flags : SUBSET {"o3ds", "max"}]]

VARIABLES
  cpuTimeLimit,   \* RESLIMIT_CPUTIME of the applications, in the kernel
  memoryLimit,    \* RESLIMIT_COMMIT, and APPMEMALLOC
  schedMode,      \* the preemption mode: "multi" or "single"
  maxAppCpuTime, runningApplicationData, debugData,  \* g_manager
  redirectAppThreads,        \* the option, and what switches it off
  disableThreadRedirection,
  th,             \* the service thread and the task runner
  ended,          \* applications the monitor has not yet cleaned up
  panicked

managerVars == <<maxAppCpuTime, runningApplicationData, debugData>>
kernelVars == <<cpuTimeLimit, memoryLimit, schedMode, redirectAppThreads,
                disableThreadRedirection>>
vars == <<kernelVars, managerVars, th, ended, panicked>>

Threads == {"srv", "task"}
Idle == [pc |-> "idle", title |-> None, queue |-> FALSE, value |-> 0]

Init ==
  /\ cpuTimeLimit = 0 /\ memoryLimit = DefaultMemory /\ schedMode = "single"
  /\ maxAppCpuTime = 0 /\ runningApplicationData = None /\ debugData = None
  /\ redirectAppThreads \in BOOLEAN
  /\ disableThreadRedirection = FALSE
  /\ th = [t \in Threads |-> Idle]
  /\ ended = {}
  /\ panicked = FALSE

-----------------------------------------------------------------------------
(* What the functions compute *)

\* setAppCpuTimeLimit(limit) does nothing while threads are redirected.
SetAppCpuTimeLimit(limit) ==
  cpuTimeLimit' = IF redirectAppThreads /\ ~disableThreadRedirection
                  THEN cpuTimeLimit ELSE limit

\* g_currentAppMemLimit, which nothing ever assigns to.
CurrentAppMemLimit == 0
\* setAppMemLimit(limit).
SetAppMemLimit(limit) ==
  memoryLimit' = IF CurrentAppMemLimit = DefaultMemory THEN memoryLimit ELSE limit

\* launchTitleImpl: the memory an application is given, None if it is left.
AppMemory(d) ==
  IF {"o3ds", "max"} \subseteq d.flags THEN 96
  ELSE IF "o3ds" \in d.flags \/ d.n3dsSystemMode = "prod"
       THEN CASE d.o3dsSystemMode = "prod" -> 64
              [] d.o3dsSystemMode = "dev1" -> 96
              [] d.o3dsSystemMode = "dev2" -> 80
              [] OTHER -> 0
       ELSE None

\* The loop declares an i of its own: the entry used is always the first.
OverrideIndex(uid) == 1
Overridden(d) ==
  /\ d.cpuTime = 0
  /\ d.titleUid >= Overrides[1].titleUid
  /\ d.titleUid <= Overrides[Cardinality(DOMAIN Overrides)].titleUid
OverrideValue(d) == Overrides[OverrideIndex(d.titleUid)].value
OverrideIsMulti(d) == Overridden(d) /\ OverrideValue(d) \in 101..199

\* setAppCpuTimeLimitAndSchedModeFromDescriptor: mode, maximum, first value.
SchedMode(d) ==
  IF (d.cpuTime # 0 /\ d.multi) \/ OverrideIsMulti(d) THEN "multi" ELSE "single"
MaxCpuTime(d) == IF d.cpuTime = 0 THEN 80 ELSE d.cpuTime
StartCpuTime(d) ==
  IF ~Overridden(d) THEN 0
  ELSE IF OverrideIsMulti(d) THEN OverrideValue(d) - 100 ELSE OverrideValue(d)

\* The kernel does not switch the mode while there is preemption.
Preemption == cpuTimeLimit \in 1..89

-----------------------------------------------------------------------------
(* Commands *)

Step(t, pc) == th' = [th EXCEPT ![t].pc = pc]
Launching == \E t \in Threads : th[t].pc \notin {"idle", "set"}
MayLaunch ==
  /\ th["srv"] = Idle /\ runningApplicationData = None
  /\ Orderly => ~Launching /\ debugData = None /\ ended = {}

\* LaunchApp, which is deferred unless the application is queued for a
\* debugger.
LaunchApp(title, queue) ==
  LET t == IF queue THEN "srv" ELSE "task" IN
  /\ MayLaunch /\ th[t] = Idle
  /\ SetAppCpuTimeLimit(0)
  /\ th' = [th EXCEPT ![t] = [Idle EXCEPT !.pc = "check", !.title = title, !.queue = queue]]
  /\ UNCHANGED <<memoryLimit, schedMode, redirectAppThreads, disableThreadRedirection,
                 managerVars, ended, panicked>>

\* LaunchTitleUpdate leaves the share as it is.
LaunchTitleUpdate(title) ==
  /\ MayLaunch /\ th["task"] = Idle
  /\ th' = [th EXCEPT !["task"] = [Idle EXCEPT !.pc = "check", !.title = title]]
  /\ UNCHANGED <<kernelVars, managerVars, ended, panicked>>

\* LaunchAppDebug, when nothing is queued.
LaunchAppDebug(title) ==
  /\ MayLaunch /\ debugData = None
  /\ SetAppCpuTimeLimit(0)
  /\ th' = [th EXCEPT !["srv"] = [Idle EXCEPT !.pc = "check", !.title = title]]
  /\ UNCHANGED <<memoryLimit, schedMode, redirectAppThreads, disableThreadRedirection,
                 managerVars, ended, panicked>>

\* The process runs, or it is terminated.
RunQueuedProcess(ok) ==
  /\ th["srv"] = Idle
  /\ debugData # None /\ runningApplicationData = None
  /\ ok \/ ~AlwaysRuns \/ AppMemory(Descriptor[debugData]) = None
  /\ runningApplicationData' = IF ok THEN debugData ELSE None
  /\ debugData' = None
  /\ UNCHANGED <<kernelVars, maxAppCpuTime, th, ended, panicked>>

\* SetAppResourceLimit: the test against the maximum, then the call.
SetAppResourceLimit(value) ==
  /\ th["srv"] = Idle
  /\ Orderly => runningApplicationData # None
  /\ value <= maxAppCpuTime
  /\ th' = [th EXCEPT !["srv"] = [Idle EXCEPT !.pc = "set", !.value = value]]
  /\ UNCHANGED <<kernelVars, managerVars, ended, panicked>>

SetShare ==
  /\ th["srv"].pc = "set"
  /\ SetAppCpuTimeLimit(th["srv"].value)
  /\ th' = [th EXCEPT !["srv"] = Idle]
  /\ UNCHANGED <<memoryLimit, schedMode, redirectAppThreads, disableThreadRedirection,
                 managerVars, ended, panicked>>

-----------------------------------------------------------------------------
(* A launch *)

Check(t) ==
  /\ th[t].pc = "check"
  /\ IF runningApplicationData # None
     THEN th' = [th EXCEPT ![t] = Idle]
     ELSE Step(t, "memory")
  /\ UNCHANGED <<kernelVars, managerVars, ended, panicked>>

SetMemory(t) ==
  /\ th[t].pc = "memory"
  /\ LET limit == AppMemory(Descriptor[th[t].title])
     IN IF limit = None THEN UNCHANGED memoryLimit ELSE SetAppMemLimit(limit)
  /\ Step(t, "preemption")
  /\ UNCHANGED <<cpuTimeLimit, schedMode, redirectAppThreads, disableThreadRedirection,
                 managerVars, ended, panicked>>

\* Loading, registering or a dependency fails; what was set stays.
LaunchFails(t) ==
  /\ th[t].pc \in {"preemption", "run"}
  /\ AlwaysRuns => AppMemory(Descriptor[th[t].title]) = None
  /\ th' = [th EXCEPT ![t] = Idle]
  /\ UNCHANGED <<kernelVars, managerVars, ended, panicked>>

\* Mutant: the preemption of the last application is left on.
KeepPreemption(t) ==
  /\ th[t].pc = "preemption"
  /\ Step(t, "mode")
  /\ UNCHANGED <<kernelVars, managerVars, ended, panicked>>

RemovePreemption(t) ==
  /\ th[t].pc = "preemption"
  /\ SetAppCpuTimeLimit(0)
  /\ Step(t, "mode")
  /\ UNCHANGED <<memoryLimit, schedMode, redirectAppThreads, disableThreadRedirection,
                 managerVars, ended, panicked>>

\* assertSuccess(svcKernelSetState(6, 3, ...)).
SetSchedMode(t) ==
  /\ th[t].pc = "mode"
  /\ IF Preemption
     THEN panicked' = TRUE /\ UNCHANGED <<schedMode, th>>
     ELSE /\ schedMode' = SchedMode(Descriptor[th[t].title])
          /\ Step(t, "maximum")
          /\ UNCHANGED panicked
  /\ UNCHANGED <<cpuTimeLimit, memoryLimit, redirectAppThreads, disableThreadRedirection,
                 managerVars, ended>>

SetMaximum(t) ==
  /\ th[t].pc = "maximum"
  /\ maxAppCpuTime' = MaxCpuTime(Descriptor[th[t].title])
  /\ Step(t, "start")
  /\ UNCHANGED <<kernelVars, runningApplicationData, debugData, ended, panicked>>

SetStart(t) ==
  /\ th[t].pc = "start"
  /\ LET value == StartCpuTime(Descriptor[th[t].title])
     IN IF value = 0 THEN UNCHANGED cpuTimeLimit ELSE SetAppCpuTimeLimit(value)
  /\ Step(t, "run")
  /\ UNCHANGED <<memoryLimit, schedMode, redirectAppThreads, disableThreadRedirection,
                 managerVars, ended, panicked>>

\* The process runs, or is queued, or there is one in the queue already.
Run(t) ==
  /\ th[t].pc = "run"
  /\ IF th[t].queue
     THEN /\ debugData' = IF debugData = None THEN th[t].title ELSE debugData
          /\ UNCHANGED runningApplicationData
     ELSE runningApplicationData' = th[t].title /\ UNCHANGED debugData
  /\ th' = [th EXCEPT ![t] = Idle]
  /\ UNCHANGED <<kernelVars, maxAppCpuTime, ended, panicked>>

-----------------------------------------------------------------------------
(* The end of an application; the redirection of threads *)

End(title) ==
  /\ \/ title = runningApplicationData
     \/ /\ title = debugData
        /\ AlwaysRuns => AppMemory(Descriptor[title]) = None
  /\ ended' = ended \cup {title}
  /\ UNCHANGED <<kernelVars, managerVars, th, panicked>>

\* cleanupProcess gives the memory back if the application was running.
CleanupProcess(title) ==
  /\ title \in ended
  /\ ended' = ended \ {title}
  /\ IF title = runningApplicationData
     THEN SetAppMemLimit(DefaultMemory) /\ runningApplicationData' = None
     ELSE UNCHANGED <<memoryLimit, runningApplicationData>>
  /\ debugData' = IF title = debugData THEN None ELSE debugData
  /\ UNCHANGED <<cpuTimeLimit, schedMode, redirectAppThreads, disableThreadRedirection,
                 maxAppCpuTime, th, panicked>>

\* svcKernelSetState(0x10080, ...), which applications may call.
SwitchRedirection ==
  /\ Settled => cpuTimeLimit = 0 /\ \A t \in Threads : th[t] = Idle
  /\ disableThreadRedirection' = ~disableThreadRedirection
  /\ UNCHANGED <<cpuTimeLimit, memoryLimit, schedMode, redirectAppThreads, managerVars, th,
                 ended, panicked>>

Next ==
  /\ ~panicked
  /\ \/ \E title \in Titles, queue \in BOOLEAN : LaunchApp(title, queue)
     \/ \E title \in Titles : LaunchTitleUpdate(title)
     \/ \E title \in Titles : LaunchAppDebug(title)
     \/ \E ok \in BOOLEAN : RunQueuedProcess(ok)
     \/ \E value \in Values : SetAppResourceLimit(value)
     \/ SetShare
     \/ \E t \in Threads : Check(t)
     \/ \E t \in Threads : SetMemory(t)
     \/ \E t \in Threads : LaunchFails(t)
     \/ \E t \in Threads : RemovePreemption(t)
     \/ \E t \in Threads : SetSchedMode(t)
     \/ \E t \in Threads : SetMaximum(t)
     \/ \E t \in Threads : SetStart(t)
     \/ \E t \in Threads : Run(t)
     \/ \E title \in Titles : End(title)
     \/ \E title \in Titles : CleanupProcess(title)
     \/ SwitchRedirection

Spec == Init /\ [][Next]_vars
-----------------------------------------------------------------------------
(* Properties *)

WantedMemory(d) == IF AppMemory(d) = None THEN DefaultMemory ELSE AppMemory(d)

\* An application runs with the memory, the preemption mode and the maximum of
\* its own descriptor, whatever ran, failed or was asked for before it, its
\* share is one it was given or may ask for, and no launch finds preemption
\* still on when it switches the mode (reslimit.c:372 stops pm then).
LimitsFit ==
  /\ ~panicked
  /\ runningApplicationData # None =>
       LET d == Descriptor[runningApplicationData] IN
       /\ memoryLimit = WantedMemory(d)
       /\ schedMode = SchedMode(d)
       /\ maxAppCpuTime = MaxCpuTime(d)
       /\ cpuTimeLimit \in (0..maxAppCpuTime) \cup {StartCpuTime(d)}

\* The entry of the table for a title is its own, if it has one
\* (the comment above the function, reslimit.c:339: "an hardcoded set of titles").
OverridesAsListed ==
  \A title \in Titles :
    LET d == Descriptor[title]
        own == {i \in DOMAIN Overrides : Overrides[i].titleUid = d.titleUid}
    IN d.cpuTime = 0 =>
         StartCpuTime(d) = IF own = {} THEN 0
                           ELSE Overrides[CHOOSE i \in own : TRUE].value
=============================================================================
