---------------------------- MODULE LoaderCache ----------------------------
(***************************************************************************)
(* The program cache of the loader (sysmodules/loader/source/loader.c) and *)
(* the threads of pm that fill and use it: one header and one file for all *)
(* programs, so that what a command does depends on the commands before    *)
(* it.  The loader is one thread: a command is one step.  A launch of pm,  *)
(* and the end of a process in its monitor, are several commands.          *)
(***************************************************************************)
CONSTANTS
  Modules,      \* titles of system modules, which may have a .cxi file
  Apps,         \* titles of applications
  DefaultHb,    \* the application that homebrew is launched in by default
  Entries,      \* programs that Process9 registers, by handle
  OneLauncher,  \* a launch begins when the other thread is in none
  Settled       \* the homebrew title is not switched during a launch

None == "none"

LoaderAssumption ==
  /\ DefaultHb \in Apps /\ Modules \cap Apps = {}
  /\ Entries \cap Modules = {} /\ None \notin Entries \cup Modules \cup Apps
  /\ {OneLauncher, Settled} \subseteq BOOLEAN

\* A program handle is an entry of Process9, or the cookie of a module: the
\* low word of its title, here the title.
IsSysmoduleCxiCookie(handle) == handle \in Modules

\* The threads of pm that launch: the server, and the tasks it defers.
Launchers == {"srv", "tasks"}

VARIABLES
  cache,           \* g_cached_programHandle, g_exheaderInfo, the cached .cxi
  memoryOverride,  \* g_memoryOverrideConfig
  hbldr_3dsx_tid, selected_hbldr_3dsx_tid,
  registered,      \* the titles of Process9's entries
  launch,          \* the launch, or query, of each launcher
  procs,           \* the processes that exist
  mon,             \* the process that the monitor cleans up
  runningApplicationData,
  menu,            \* what the menu that switches the title was told
  loaded           \* what the last LoadProcess was asked for, and used

configVars == <<hbldr_3dsx_tid, selected_hbldr_3dsx_tid>>
vars == <<cache, memoryOverride, configVars, registered, launch, procs, mon,
          runningApplicationData, menu, loaded>>

NoHeader == [title |-> None, hb |-> FALSE, mode |-> FALSE]
Idle == [pc |-> "idle", title |-> None, handle |-> None, header |-> NoHeader, app |-> None]
NoProcess == [title |-> None, handle |-> None, hb |-> FALSE, ran |-> FALSE]
NotCleaning == [pc |-> "idle", process |-> NoProcess, found |-> NoHeader]
Nothing == [asked |-> NoHeader, used |-> NoHeader, now |-> NoHeader, code |-> None]

Init ==
  /\ cache = [handle |-> None, header |-> NoHeader,
              file |-> None, cookie |-> None, ncch |-> None]
  /\ memoryOverride = FALSE
  /\ hbldr_3dsx_tid = DefaultHb /\ selected_hbldr_3dsx_tid = DefaultHb
  /\ registered = [e \in Entries |-> None]
  /\ launch = [t \in Launchers |-> Idle]
  /\ procs = {} /\ mon = NotCleaning /\ runningApplicationData = None
  /\ menu = "idle" /\ loaded = Nothing

-----------------------------------------------------------------------------
(* What the commands do to the cache                                       *)

TitleOf(handle) ==
  IF IsSysmoduleCxiCookie(handle) THEN handle ELSE registered[handle]

hbldrIs3dsxTitle(title) == title = hbldr_3dsx_tid

InvalidateCachedCxiFile(c) == [c EXCEPT !.file = None, !.cookie = None]

Opened(c, title) == [c EXCEPT !.file = title, !.cookie = title]

\* The header of GetProgramInfoImpl, patched and overridden.
HeaderOf(handle) ==
  [title |-> TitleOf(handle),
   hb |-> hbldrIs3dsxTitle(TitleOf(handle)),
   mode |-> TitleOf(handle) \in Apps /\ memoryOverride]

\* GetProgramInfoImpl: the file is opened unless it is the cached one.
WithFile(c, handle) ==
  IF ~IsSysmoduleCxiCookie(handle) THEN c
  ELSE [IF c.cookie = handle THEN c ELSE Opened(c, TitleOf(handle)) EXCEPT !.ncch = TitleOf(handle)]

WithoutFile(c, handle) ==
  IF IsSysmoduleCxiCookie(handle) /\ c.cookie # handle THEN InvalidateCachedCxiFile(c) ELSE c

MustRead(c, handle) == handle # c.handle \/ hbldrIs3dsxTitle(c.header.title)

\* GetProgramInfo; the program may not be found when it has to be read.
GetProgramInfo(c, handle, found) ==
  IF ~MustRead(c, handle) THEN c
  ELSE IF found
  THEN [WithFile(c, handle) EXCEPT !.handle = handle, !.header = HeaderOf(handle)]
  ELSE [WithoutFile(c, handle) EXCEPT !.handle = None]

MayBeFound(handle, found) == found \/ MustRead(cache, handle)

\* Mutant: the cached header outlives the program.
ForgottenFile(handle) ==
  IF handle = cache.cookie THEN InvalidateCachedCxiFile(cache) ELSE cache

\* The cache after UnregisterProgram.
Forgotten(handle) ==
  LET c == IF cache.handle = handle THEN [cache EXCEPT !.handle = None] ELSE cache IN
  IF IsSysmoduleCxiCookie(handle) /\ handle = c.cookie THEN InvalidateCachedCxiFile(c) ELSE c

UnregisterProgram(handle) ==
  /\ cache' = Forgotten(handle)
  /\ registered' = IF IsSysmoduleCxiCookie(handle) THEN registered
                   ELSE [registered EXCEPT ![handle] = None]

\* What loadCode reads: homebrew, the file that is open at the offsets of the
\* header that was read last, or the program of Process9.
CodeOf(c, handle) ==
  IF hbldrIs3dsxTitle(c.header.title) THEN "3dsx"
  ELSE IF ~IsSysmoduleCxiCookie(handle) THEN registered[handle]
  ELSE IF c.file \in {None, c.ncch} THEN c.file ELSE "mixed"

-----------------------------------------------------------------------------
(* pm: launchTitleImpl of a title, GetTitleExHeaderFlags                   *)

LoaderRuns == loaded.code # None \/ loaded = Nothing

Step(t, r) == launch' = [launch EXCEPT ![t] = r]

Launching(title) == \E t \in Launchers : title \in {launch[t].title, launch[t].app}

InNoLaunch(t) == launch[t].pc \in {"idle", "query", "queried"} /\ launch[t].app = None

\* An application, when none runs; a module, also as a dependency.
Launchable(t, title) ==
  /\ title \notin {p.title : p \in procs} /\ ~Launching(title)
  /\ title \in Apps =>
       /\ runningApplicationData = None /\ \A u \in Launchers : InNoLaunch(u)
       /\ Settled => menu = "idle"

\* RegisterProgram of a module whose .cxi is there, or with Process9; a file
\* that was open for another one is closed first.
Register(t, title, pc) ==
  LET r == [pc |-> pc, title |-> title, handle |-> None, header |-> NoHeader,
            app |-> launch[t].app] IN
  \/ /\ title \in Modules
     /\ cache' = Opened(cache, title)
     /\ Step(t, [r EXCEPT !.handle = title])
     /\ UNCHANGED registered
  \/ \E entry \in Entries :
       /\ registered[entry] = None
       /\ cache' = IF title \in Modules THEN InvalidateCachedCxiFile(cache) ELSE cache
       /\ registered' = [registered EXCEPT ![entry] = title]
       /\ Step(t, [r EXCEPT !.handle = entry])

BeginLaunch(t, title) ==
  /\ LoaderRuns /\ launch[t].pc = "idle" /\ Launchable(t, title)
  /\ launch[t].app # None => title \in Modules
  /\ OneLauncher => \A u \in Launchers \ {t} : InNoLaunch(u)
  /\ Register(t, title, "info")
  /\ UNCHANGED <<memoryOverride, configVars, procs, mon, runningApplicationData, menu, loaded>>

BeginQuery(title) ==
  /\ LoaderRuns /\ launch["srv"] = Idle
  /\ title \in Apps /\ Register("srv", title, "query")
  /\ UNCHANGED <<memoryOverride, configVars, procs, mon, runningApplicationData, menu, loaded>>

\* LOADER_GetProgramInfo.
Info(t, found) ==
  LET r == launch[t] IN
  /\ LoaderRuns /\ r.pc \in {"info", "query"}
  /\ MayBeFound(r.handle, found)
  /\ cache' = GetProgramInfo(cache, r.handle, found)
  /\ Step(t, IF r.pc = "info" /\ found
             THEN [r EXCEPT !.pc = "load", !.header = cache'.header]
             ELSE [r EXCEPT !.pc = "queried"])
  /\ UNCHANGED <<memoryOverride, configVars, registered, procs, mon, runningApplicationData,
                 menu, loaded>>

\* The end of a query, or of a launch whose title was not found.
Unregister(t) ==
  /\ LoaderRuns /\ launch[t].pc = "queried"
  /\ UnregisterProgram(launch[t].handle)
  /\ Step(t, [Idle EXCEPT !.app = launch[t].app])
  /\ UNCHANGED <<memoryOverride, configVars, procs, mon, runningApplicationData, menu, loaded>>

\* LOADER_LoadProcess, and the new process in pm's list.  No file is left open;
\* without one the loader breaks.
Load(t) ==
  LET r == launch[t]
      c == GetProgramInfo(cache, r.handle, TRUE) IN
  /\ LoaderRuns /\ r.pc = "load"
  /\ cache' = IF IsSysmoduleCxiCookie(r.handle) THEN InvalidateCachedCxiFile(c) ELSE c
  /\ loaded' = [asked |-> r.header, used |-> c.header, now |-> HeaderOf(r.handle),
                code |-> CodeOf(c, r.handle)]
  /\ procs' = procs \cup {[title |-> r.title, handle |-> r.handle, hb |-> r.header.hb, ran |-> FALSE]}
  /\ Step(t, [Idle EXCEPT !.app = IF r.title \in Apps THEN r.title ELSE r.app])
  /\ UNCHANGED <<memoryOverride, configVars, registered, mon, runningApplicationData, menu>>

\* LOADER_LoadProcess reads the header again and does not find the program,
\* which stays registered.
LoadFails(t) ==
  LET r == launch[t] IN
  /\ LoaderRuns /\ r.pc = "load" /\ MustRead(cache, r.handle)
  /\ cache' = GetProgramInfo(cache, r.handle, FALSE)
  /\ Step(t, [Idle EXCEPT !.app = r.app])
  /\ UNCHANGED <<memoryOverride, configVars, registered, procs, mon, runningApplicationData,
                 menu, loaded>>

\* svcRun of the application, unless it has ended, after its dependencies.
Run(t) ==
  LET own == {p \in procs : p.title = launch[t].app} IN
  /\ launch[t].pc = "idle" /\ launch[t].app # None
  /\ IF own = {} THEN UNCHANGED <<procs, runningApplicationData>>
     ELSE /\ procs' = (procs \ own) \cup {[p EXCEPT !.ran = TRUE] : p \in own}
          /\ runningApplicationData' = launch[t].app
  /\ Step(t, Idle)
  /\ UNCHANGED <<cache, memoryOverride, configVars, registered, mon, menu, loaded>>

-----------------------------------------------------------------------------
(* pm: the end of a process in the monitor's cleanupProcess                *)

MonitorTakes(p) ==
  /\ mon = NotCleaning /\ p \in procs
  /\ procs' = procs \ {p}
  /\ mon' = [pc |-> IF p.title \in Apps THEN "info" ELSE "unregister", process |-> p, found |-> NoHeader]
  /\ UNCHANGED <<cache, memoryOverride, configVars, registered, launch, runningApplicationData,
                 menu, loaded>>

\* The dependencies are listed from the header, if it can be read.
MonitorInfo(found) ==
  /\ LoaderRuns /\ mon.pc = "info" /\ MayBeFound(mon.process.handle, found)
  /\ cache' = GetProgramInfo(cache, mon.process.handle, found)
  /\ mon' = [mon EXCEPT !.pc = "unregister",
                        !.found = IF found THEN cache'.header ELSE NoHeader]
  /\ UNCHANGED <<memoryOverride, configVars, registered, launch, procs, runningApplicationData,
                 menu, loaded>>

MonitorUnregister ==
  /\ LoaderRuns /\ mon.pc = "unregister"
  /\ UnregisterProgram(mon.process.handle)
  /\ mon' = IF mon.process.ran THEN [mon EXCEPT !.pc = "forget", !.found = NoHeader]
            ELSE NotCleaning
  /\ UNCHANGED <<memoryOverride, configVars, launch, procs, runningApplicationData, menu, loaded>>

\* The end of the running application: the title that was selected meanwhile
\* becomes the one of homebrew.
MonitorForgets ==
  /\ mon.pc = "forget"
  /\ runningApplicationData' = None
  /\ hbldr_3dsx_tid' = selected_hbldr_3dsx_tid
  /\ mon' = NotCleaning
  /\ UNCHANGED <<cache, memoryOverride, selected_hbldr_3dsx_tid, registered, launch, procs,
                 menu, loaded>>

-----------------------------------------------------------------------------
(* rosalina: the title of homebrew, the memory mode of the next launch     *)

ApplicationUnderWay ==
  \/ mon.process.title \in Apps \/ \E p \in procs : p.title \in Apps
  \/ \E t \in Launchers : launch[t].app # None \/ (launch[t].pc \in {"info", "load"} /\ launch[t].title \in Apps)

\* MiscellaneousMenu_SwitchBoot3dsxTargetTitle asks what runs,
AskApplication ==
  /\ menu = "idle"
  /\ Settled => runningApplicationData # None \/ ~ApplicationUnderWay
  /\ menu' = runningApplicationData
  /\ UNCHANGED <<cache, memoryOverride, configVars, registered, launch, procs, mon,
                 runningApplicationData, loaded>>

\* With no application running there is no end of one to wait for.
Applies(title) == hbldr_3dsx_tid' = IF menu = None THEN title ELSE hbldr_3dsx_tid

\* then switches between the default and the application it was told.
SwitchBoot3dsxTargetTitle ==
  LET newTid == IF selected_hbldr_3dsx_tid # DefaultHb \/ menu = None THEN DefaultHb ELSE menu IN
  /\ menu # "idle"
  /\ selected_hbldr_3dsx_tid' = newTid
  /\ Applies(newTid)
  /\ menu' = "idle"
  /\ UNCHANGED <<cache, memoryOverride, registered, launch, procs, mon, runningApplicationData,
                 loaded>>

\* Command 0x101: asked for by an application for the next one, withdrawn by
\* the plugin loader when that one is loaded.
ControlApplicationMemoryModeOverride(on) ==
  /\ LoaderRuns /\ memoryOverride # on
  /\ IF on THEN runningApplicationData # None ELSE \E p \in procs : p.title \in Apps
  /\ memoryOverride' = on
  /\ UNCHANGED <<cache, configVars, registered, launch, procs, mon, runningApplicationData,
                 menu, loaded>>

Next ==
  \/ \E t \in Launchers :
       \/ \E title \in Modules \cup Apps : BeginLaunch(t, title)
       \/ \E found \in BOOLEAN : Info(t, found)
       \/ Unregister(t) \/ Load(t) \/ LoadFails(t) \/ Run(t)
  \/ \E title \in Apps : BeginQuery(title)
  \/ \E p \in procs : MonitorTakes(p)
  \/ \E found \in BOOLEAN : MonitorInfo(found)
  \/ MonitorUnregister \/ MonitorForgets
  \/ AskApplication \/ SwitchBoot3dsxTargetTitle
  \/ \E on \in BOOLEAN : ControlApplicationMemoryModeOverride(on)

Spec == Init /\ [][Next]_vars

-----------------------------------------------------------------------------
(* Properties                                                              *)

\* A process is made of one program: LoadProcess uses the header that pm was
\* given, which is the one that would be read now, and the code it describes,
\* whatever was registered, queried or unregistered between the commands of
\* the launch.  A handle may be one that another program had before.
LoadedAsDescribed ==
  loaded = Nothing \/
  /\ loaded.asked = loaded.used /\ loaded.used = loaded.now
  /\ loaded.code = IF loaded.used.hb THEN "3dsx" ELSE loaded.used.title

\* "the ExHeader at init matches the ExHeader at termination at all times,
\* otherwise the process refcounts of sysmodules get all messed up"
\* (process_monitor.c:38): an application that was launched as homebrew is
\* homebrew when its dependencies are released, and no other is.
HeaderAtEndIsThatAtStart ==
  mon.pc = "unregister" /\ mon.found # NoHeader => mon.found.hb = mon.process.hb

\* pm and the loader agree on the program of a process, from its launch to
\* its end.
ProgramsConsistent == LoadedAsDescribed /\ HeaderAtEndIsThatAtStart
=============================================================================
