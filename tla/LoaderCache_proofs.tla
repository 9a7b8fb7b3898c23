-------------------------- MODULE LoaderCache_proofs --------------------------
(***************************************************************************)
(* The proof that the program cache of the loader gives every launch, and  *)
(* the end of every process, the header, the code and the treatment of     *)
(* that program, for any modules, applications and programs that Process9  *)
(* has entries for.                                                        *)
(***************************************************************************)
EXTENDS LoaderCache, TLAPS

-----------------------------------------------------------------------------
(* The invariant                                                           *)

\* The values that the variables take.
LaunchPcs == {"idle", "info", "load", "query", "queried"}
Programs == Modules \cup Apps
Handles == Entries \cup Modules
Headers == [title : Programs \cup {None}, hb : BOOLEAN, mode : BOOLEAN]
CacheStates ==
  [handle : Handles \cup {None}, header : Headers, file : Modules \cup {None},
   cookie : Modules \cup {None}, ncch : Modules \cup {None}]
LaunchStates ==
  [pc : LaunchPcs, title : Programs \cup {None}, handle : Handles \cup {None}, header : Headers,
   app : Apps \cup {None}]
LoadedProcesses == [title : Programs, handle : Handles, hb : BOOLEAN, ran : BOOLEAN]
LoadedProcess ==
  [title : Programs \cup {None}, handle : Handles \cup {None}, hb : BOOLEAN, ran : BOOLEAN]

\* Type correctness.
CacheTypes ==
  /\ cache \in CacheStates /\ memoryOverride \in BOOLEAN
  /\ hbldr_3dsx_tid \in Apps /\ selected_hbldr_3dsx_tid \in Apps
  /\ registered \in [Entries -> Programs \cup {None}]
  /\ launch \in [Launchers -> LaunchStates]
  /\ procs \subseteq LoadedProcesses
  /\ mon \in [pc : {"idle", "info", "unregister", "forget"}, process : LoadedProcess,
              found : Headers]
  /\ runningApplicationData \in Apps \cup {None}
  /\ menu \in Apps \cup {None, "idle"}

\* A launcher that is in a launch or a query, and so has a handle.
Busy(t) == launch[t].pc # "idle"

\* A process whose program the monitor has still to use.
Cleans == mon.pc \in {"info", "unregister"}

\* A handle is that of the title it is kept with, and an entry of Process9
\* is that of one launch, process or end of a process.
HandlesOwned ==
  /\ \A t \in Launchers : Busy(t) =>
       launch[t].handle \in Handles /\ launch[t].title \in Programs
         /\ TitleOf(launch[t].handle) = launch[t].title
  /\ \A p \in procs : TitleOf(p.handle) = p.title
  /\ Cleans
         => mon.process \in LoadedProcesses /\ TitleOf(mon.process.handle) = mon.process.title
  /\ \A t, u \in Launchers :
       t # u /\ Busy(t) /\ Busy(u) /\ launch[t].handle \in Entries
           => launch[t].handle # launch[u].handle
  /\ \A t \in Launchers, p \in procs :
       Busy(t) /\ launch[t].handle \in Entries => launch[t].handle # p.handle
  /\ \A t \in Launchers :
       Busy(t) /\ Cleans /\ launch[t].handle \in Entries
           => launch[t].handle # mon.process.handle
  /\ \A p, q \in procs : p # q /\ p.handle \in Entries => p.handle # q.handle
  /\ \A p \in procs : Cleans /\ p.handle \in Entries => p.handle # mon.process.handle

\* The launch of an application, and a process of one.
AppLaunch(t) == launch[t].pc \in {"info", "load"} /\ launch[t].title \in Apps
IsApp(p) == p.title \in Apps

\* One application at a time is launched, is started or runs, and the menu
\* waits for it: nothing of the kind while one is launched,
LaunchAlone ==
  \A t \in Launchers : AppLaunch(t) =>
    /\ runningApplicationData = None /\ menu = "idle"
    /\ \A p \in procs : ~IsApp(p)
    /\ \A u \in Launchers : launch[u].app = None /\ (u # t => ~AppLaunch(u))
\* nothing runs while one is started,
StartAlone ==
  \A t \in Launchers : launch[t].app # None =>
    /\ runningApplicationData = None
    /\ \A u \in Launchers : u # t => launch[u].app = None
\* one launcher is in a launch,
LaunchersAlone == \A t, u \in Launchers : t # u /\ ~InNoLaunch(t) => InNoLaunch(u)
\* one process is that of an application, which runs or is started,
ProcessAlone ==
  /\ \A p, q \in procs : IsApp(p) /\ IsApp(q) => p = q
  /\ \A p \in procs :
       IF ~IsApp(p) THEN ~p.ran
       ELSE IF p.ran THEN runningApplicationData = p.title
       ELSE \E t \in Launchers : launch[t].app = p.title
\* what the monitor cleans up as an application is the one that ran,
MonitorAlone ==
  /\ mon.process.ran =>
       /\ IsApp(mon.process) /\ runningApplicationData = mon.process.title
       /\ \A p \in procs : ~IsApp(p)
  /\ mon.pc = "info" => IsApp(mon.process)
  /\ mon.pc = "forget" => mon.process.ran
  /\ mon.pc = "idle" => mon = NotCleaning
\* and the menu that was told that no application runs is right.
MenuAlone == menu = None => ~ApplicationUnderWay
OneApplication ==
  LaunchAlone /\ StartAlone /\ LaunchersAlone /\ ProcessAlone /\ MonitorAlone /\ MenuAlone

\* The header and the file that the loader keeps.
CacheInv ==
  /\ cache.file = cache.cookie
  /\ cache.handle # None
         => cache.header.title \in Programs /\ cache.header.title = TitleOf(cache.handle)
  /\ cache.handle \in Modules => cache.ncch = cache.handle
  /\ cache.handle # None /\ cache.header.title \in Modules
         => ~cache.header.hb /\ ~cache.header.mode
  /\ \A t \in Launchers : launch[t].pc \in {"info", "query"} /\ launch[t].handle \in Entries =>
       cache.handle # launch[t].handle
  /\ \A t \in Launchers :
       launch[t].pc \in {"info", "load"} /\ launch[t].handle \in Modules
         /\ cache.handle = launch[t].handle
         => cache.file = cache.handle
  /\ \A t \in Launchers : launch[t].pc = "load" =>
       /\ launch[t].header = HeaderOf(launch[t].handle)
       /\ cache.handle = launch[t].handle => cache.header = launch[t].header

\* Whether an application is homebrew does not change while it lives.
HomebrewInv ==
  /\ \A p \in procs : IsApp(p) =>
       /\ p.hb = hbldrIs3dsxTitle(p.title)
       /\ cache.handle = p.handle => cache.header.hb = p.hb
  /\ mon.pc = "info" =>
       /\ mon.process.hb = hbldrIs3dsxTitle(mon.process.title)
       /\ cache.handle = mon.process.handle => cache.header.hb = mon.process.hb

\* The inductive invariant.
LoaderInv ==
  CacheTypes /\ HandlesOwned /\ OneApplication /\ CacheInv /\ HomebrewInv /\ ProgramsConsistent

\* A launcher goes on, and the others stay where they are.
LEMMA LaunchGoes ==
  ASSUME CacheTypes, NEW t \in Launchers, NEW r \in LaunchStates, Step(t, r)
  PROVE  /\ launch' \in [Launchers -> LaunchStates] /\ launch'[t] = r
         /\ \A u \in Launchers : u # t => launch'[u] = launch[u]
  BY DEF CacheTypes, Step

\* What the assumption on the constants says of the sets above.
LEMMA NamesDiffer ==
  ASSUME LoaderAssumption
  PROVE  /\ None \notin Handles /\ None \notin Programs /\ Entries \cap Modules = {}
         /\ Modules \cap Apps = {} /\ DefaultHb \in Apps
  BY DEF LoaderAssumption, Handles, Programs

\* A header that is read now.
LEMMA HeaderIsHeader ==
  ASSUME LoaderAssumption, CacheTypes, NEW h \in Handles
  PROVE  /\ HeaderOf(h) \in Headers /\ HeaderOf(h).title = TitleOf(h)
         /\ HeaderOf(h).hb = hbldrIs3dsxTitle(TitleOf(h))
         /\ TitleOf(h) \in Modules => ~HeaderOf(h).hb /\ ~HeaderOf(h).mode
         /\ TitleOf(h) \in Programs \cup {None}
         /\ h \in Modules => TitleOf(h) = h
<1>1. TitleOf(h) \in Programs \cup {None} /\ (h \in Modules => TitleOf(h) = h)
  BY DEF CacheTypes, TitleOf, IsSysmoduleCxiCookie, Handles, Programs
<1>2. hbldr_3dsx_tid \in Apps
  BY DEF CacheTypes
<1> QED
  BY <1>1, <1>2, NamesDiffer DEF HeaderOf, Headers, hbldrIs3dsxTitle

\* Reading a program: the cache has it, or its header is read now, or it is
\* not found.
LEMMA GetProgramInfoGives ==
  ASSUME LoaderAssumption, CacheTypes, CacheInv, NEW h \in Handles, TitleOf(h) \in Programs,
         NEW found
  PROVE  LET c == GetProgramInfo(cache, h, found) IN
         /\ c \in CacheStates /\ c.file = c.cookie
         /\ \/ ~MustRead(cache, h) /\ c = cache
            \/ /\ MustRead(cache, h) /\ found /\ c.handle = h /\ c.header = HeaderOf(h)
               /\ h \in Modules => c.file = h /\ c.ncch = h
               /\ h \in Entries => c.file = cache.file /\ c.ncch = cache.ncch
            \/ MustRead(cache, h) /\ ~found /\ c.handle = None
<1>1. cache \in CacheStates /\ cache.file = cache.cookie /\ HeaderOf(h) \in Headers
      /\ None \notin Handles /\ (h \in Modules => TitleOf(h) = h)
  BY HeaderIsHeader, NamesDiffer DEF CacheTypes, CacheInv
<1>2. CASE ~MustRead(cache, h)
  BY <1>1, <1>2 DEF GetProgramInfo
<1>3. CASE MustRead(cache, h) /\ found /\ h \in Modules
  <2>1. PICK c : c = IF cache.cookie = h THEN cache ELSE Opened(cache, h)
    OBVIOUS
  <2>2. c \in CacheStates /\ c.file = h /\ c.cookie = h
    BY <1>1, <1>3, <2>1 DEF Opened, CacheStates
  <2>3. GetProgramInfo(cache, h, found)
          = [c EXCEPT !.ncch = h, !.handle = h, !.header = HeaderOf(h)]
    BY <1>1, <1>3, <2>1, <2>2 DEF GetProgramInfo, WithFile, IsSysmoduleCxiCookie, CacheStates
  <2> QED
    BY <1>1, <1>3, <2>2, <2>3, NamesDiffer DEF CacheStates
<1>4. CASE MustRead(cache, h) /\ found /\ h \in Entries
  <2>1. GetProgramInfo(cache, h, found) = [cache EXCEPT !.handle = h, !.header = HeaderOf(h)]
    BY <1>4, NamesDiffer DEF GetProgramInfo, WithFile, IsSysmoduleCxiCookie
  <2> QED
    BY <1>1, <1>4, <2>1, NamesDiffer DEF CacheStates
<1>5. CASE MustRead(cache, h) /\ ~found
  <2>1. PICK c : c = WithoutFile(cache, h)
    OBVIOUS
  <2>2. c \in CacheStates /\ c.file = c.cookie
    BY <1>1, <2>1 DEF WithoutFile, InvalidateCachedCxiFile, CacheStates
  <2>3. GetProgramInfo(cache, h, found) = [c EXCEPT !.handle = None]
    BY <1>5, <2>1 DEF GetProgramInfo
  <2> QED
    BY <1>5, <2>2, <2>3 DEF CacheStates
<1> QED
  BY <1>2, <1>3, <1>4, <1>5 DEF Handles

\* Unregistering a program: the cache forgets what it had of it.
LEMMA UnregisterGives ==
  ASSUME LoaderAssumption, CacheTypes, CacheInv, NEW h \in Handles, UnregisterProgram(h)
  PROVE  /\ cache' \in CacheStates /\ cache'.file = cache'.cookie
         /\ cache'.handle = IF cache.handle = h THEN None ELSE cache.handle
         /\ cache'.header = cache.header /\ cache'.ncch = cache.ncch
         /\ cache'.file = IF h \in Modules /\ h = cache.file THEN None ELSE cache.file
         /\ registered' \in [Entries -> Programs \cup {None}]
         /\ \A g \in Handles : (g \notin Entries \/ g # h) => TitleOf(g)' = TitleOf(g)
<1>1. cache \in CacheStates /\ cache.file = cache.cookie
  BY DEF CacheTypes, CacheInv
<1>2. PICK c : c = IF cache.handle = h THEN [cache EXCEPT !.handle = None] ELSE cache
  OBVIOUS
<1>3. /\ c \in CacheStates /\ c.file = cache.file /\ c.cookie = cache.cookie
      /\ c.ncch = cache.ncch
      /\ c.header = cache.header /\ c.handle = IF cache.handle = h THEN None ELSE cache.handle
  BY <1>1, <1>2 DEF CacheStates
<1>4. cache' = IF h \in Modules /\ h = c.cookie THEN InvalidateCachedCxiFile(c) ELSE c
  BY <1>2 DEF UnregisterProgram, Forgotten, IsSysmoduleCxiCookie
<1>5. registered' \in [Entries -> Programs \cup {None}]
      /\ \A g \in Handles : (g \notin Entries \/ g # h) => TitleOf(g)' = TitleOf(g)
  BY NamesDiffer DEF UnregisterProgram, TitleOf, IsSysmoduleCxiCookie, CacheTypes, Handles
<1> QED
  BY <1>1, <1>3, <1>4, <1>5 DEF InvalidateCachedCxiFile, CacheStates

\* Registering a program: a handle nobody has, or the name of a module.
LEMMA RegisterGives ==
  ASSUME LoaderAssumption, CacheTypes, CacheInv, NEW t \in Launchers, NEW title \in Programs,
         NEW pc \in LaunchPcs, Register(t, title, pc)
  PROVE  \E h \in Handles, s \in LaunchStates :
           /\ s.pc = pc /\ s.title = title /\ s.handle = h /\ s.app = launch[t].app
           /\ Step(t, s)
           /\ cache' \in CacheStates /\ cache'.handle = cache.handle
           /\ cache'.header = cache.header /\ cache'.ncch = cache.ncch
           /\ cache'.file = cache'.cookie
           /\ registered' \in [Entries -> Programs \cup {None}]
           /\ TitleOf(h)' = title /\ \A g \in Handles : g # h => TitleOf(g)' = TitleOf(g)
           /\ h \in Modules => cache'.file = h /\ TitleOf(h) = h
           /\ h \in Entries => TitleOf(h) = None /\ (title \in Apps => cache' = cache)
<1>1. PICK r : r = [pc |-> pc, title |-> title, handle |-> None, header |-> NoHeader,
                     app |-> launch[t].app]
  OBVIOUS
<1>2. launch[t].app \in Apps \cup {None} /\ NoHeader \in Headers
  BY DEF CacheTypes, LaunchStates, NoHeader, Headers
<1>3. \A h \in Handles : LET s == [r EXCEPT !.handle = h] IN
        /\ s \in LaunchStates
        /\ s.pc = pc /\ s.title = title /\ s.handle = h /\ s.app = launch[t].app
  BY <1>1, <1>2 DEF LaunchStates
<1>4. cache \in CacheStates /\ cache.file = cache.cookie
  BY DEF CacheTypes, CacheInv
<1>5. CASE /\ title \in Modules /\ cache' = Opened(cache, title)
           /\ Step(t, [r EXCEPT !.handle = title]) /\ UNCHANGED registered
  <2>1. /\ cache' \in CacheStates /\ cache'.handle = cache.handle
        /\ cache'.header = cache.header
        /\ cache'.ncch = cache.ncch /\ cache'.file = title /\ cache'.cookie = title
    BY <1>4, <1>5 DEF Opened, CacheStates
  <2>2. /\ title \in Handles /\ title \notin Entries /\ TitleOf(title) = title
        /\ TitleOf(title)' = title
        /\ \A g \in Handles : g # title => TitleOf(g)' = TitleOf(g)
    BY <1>5, NamesDiffer DEF TitleOf, IsSysmoduleCxiCookie, Handles
  <2>3. registered' \in [Entries -> Programs \cup {None}]
    BY <1>5 DEF CacheTypes
  <2>4. PICK s : s = [r EXCEPT !.handle = title]
    OBVIOUS
  <2> QED
    BY <1>3, <1>5, <2>1, <2>2, <2>3, <2>4
<1>6. ASSUME NEW entry \in Entries, registered[entry] = None,
             cache' = IF title \in Modules THEN InvalidateCachedCxiFile(cache) ELSE cache,
             registered' = [registered EXCEPT ![entry] = title],
             Step(t, [r EXCEPT !.handle = entry])
      PROVE  \E h \in Handles, s \in LaunchStates :
           /\ s.pc = pc /\ s.title = title /\ s.handle = h /\ s.app = launch[t].app
           /\ Step(t, s)
           /\ cache' \in CacheStates /\ cache'.handle = cache.handle
           /\ cache'.header = cache.header /\ cache'.ncch = cache.ncch
           /\ cache'.file = cache'.cookie
           /\ registered' \in [Entries -> Programs \cup {None}]
           /\ TitleOf(h)' = title /\ \A g \in Handles : g # h => TitleOf(g)' = TitleOf(g)
           /\ h \in Modules => cache'.file = h /\ TitleOf(h) = h
           /\ h \in Entries => TitleOf(h) = None /\ (title \in Apps => cache' = cache)
  <2>1. /\ cache' \in CacheStates /\ cache'.handle = cache.handle
        /\ cache'.header = cache.header
        /\ cache'.ncch = cache.ncch /\ cache'.file = cache'.cookie
        /\ title \in Apps => cache' = cache
    BY <1>4, <1>6, NamesDiffer DEF InvalidateCachedCxiFile, CacheStates
  <2>2. /\ entry \in Handles /\ entry \notin Modules /\ TitleOf(entry) = None
        /\ TitleOf(entry)' = title
        /\ \A g \in Handles : g # entry => TitleOf(g)' = TitleOf(g)
    BY <1>6, NamesDiffer DEF TitleOf, IsSysmoduleCxiCookie, Handles, CacheTypes
  <2>3. registered' \in [Entries -> Programs \cup {None}]
    BY <1>6 DEF CacheTypes
  <2>4. PICK s : s = [r EXCEPT !.handle = entry]
    OBVIOUS
  <2> QED
    BY <1>3, <1>6, <2>1, <2>2, <2>3, <2>4
<1> QED
  BY <1>1, <1>5, <1>6 DEF Register

\* Who has a handle has one of a program, with its title.
LEMMA OwnedHandles ==
  ASSUME LoaderAssumption, CacheTypes, HandlesOwned
  PROVE  /\ \A u \in Launchers : Busy(u) =>
              /\ launch[u].handle \in Handles /\ launch[u].title \in Programs
              /\ TitleOf(launch[u].handle) = launch[u].title /\ launch[u].title # None
         /\ \A p \in procs : /\ p.handle \in Handles /\ p.title \in Programs
                             /\ TitleOf(p.handle) = p.title /\ p.title # None
         /\ Cleans =>
              /\ mon.process.handle \in Handles /\ mon.process.title \in Programs
              /\ TitleOf(mon.process.handle) = mon.process.title /\ mon.process.title # None
<1>1. \A u \in Launchers : Busy(u) =>
         /\ launch[u].handle \in Handles /\ launch[u].title \in Programs
         /\ TitleOf(launch[u].handle) = launch[u].title /\ launch[u].title # None
  BY NamesDiffer DEF HandlesOwned
<1>2. \A p \in procs : /\ p.handle \in Handles /\ p.title \in Programs
                       /\ TitleOf(p.handle) = p.title /\ p.title # None
  BY NamesDiffer DEF HandlesOwned, CacheTypes, LoadedProcesses
<1>3. Cleans =>
         /\ mon.process.handle \in Handles /\ mon.process.title \in Programs
         /\ TitleOf(mon.process.handle) = mon.process.title /\ mon.process.title # None
  BY NamesDiffer DEF HandlesOwned, LoadedProcesses
<1> QED
  BY <1>1, <1>2, <1>3

\* A header that would be read now stays the same while nothing it depends on
\* changes.
LEMMA HeaderStays ==
  ASSUME LoaderAssumption, CacheTypes, CacheTypes', NEW h \in Handles,
         TitleOf(h)' = TitleOf(h),
         TitleOf(h) \in Modules \/ UNCHANGED <<hbldr_3dsx_tid, memoryOverride>>
  PROVE  HeaderOf(h)' = HeaderOf(h)
<1>1. hbldr_3dsx_tid \in Apps /\ hbldr_3dsx_tid' \in Apps
  BY DEF CacheTypes
<1> QED
  BY <1>1, NamesDiffer DEF HeaderOf, hbldrIs3dsxTitle

\* A launcher that goes on with less than it was about to do.
LEMMA LaunchShrinks ==
  ASSUME OneApplication, UNCHANGED <<procs, mon, runningApplicationData, menu>>,
         NEW t \in Launchers, \A u \in Launchers : u # t => launch'[u] = launch[u],
         launch'[t].app = launch[t].app, AppLaunch(t)' => AppLaunch(t),
         InNoLaunch(t) => InNoLaunch(t)'
  PROVE  OneApplication'
<1>1. \A u \in Launchers : launch'[u].app = launch[u].app
  OBVIOUS
<1>2. \A u \in Launchers : (AppLaunch(u)' => AppLaunch(u)) /\ (InNoLaunch(u) => InNoLaunch(u)')
  BY DEF AppLaunch, InNoLaunch
<1>3. LaunchAlone' /\ StartAlone' /\ ProcessAlone' /\ MonitorAlone'
  BY <1>1, <1>2 DEF OneApplication, LaunchAlone, StartAlone, ProcessAlone, MonitorAlone, IsApp
<1>4. LaunchersAlone'
  BY <1>2 DEF OneApplication, LaunchersAlone
<1>5. ApplicationUnderWay' => ApplicationUnderWay
  BY <1>1, <1>2 DEF ApplicationUnderWay, AppLaunch
<1>6. MenuAlone'
  BY <1>5 DEF OneApplication, MenuAlone
<1> QED
  BY <1>3, <1>4, <1>6 DEF OneApplication

\* A launch registers its program.
LEMMA BeginLaunchKeeps ==
  ASSUME LoaderAssumption, OneLauncher, Settled, LoaderInv, NEW t \in Launchers,
         NEW title \in Programs,
         BeginLaunch(t, title)
  PROVE  LoaderInv'
<1> USE DEF LoaderInv
<1>a. PICK h \in Handles, s \in LaunchStates :
        /\ s.pc = "info" /\ s.title = title /\ s.handle = h /\ s.app = launch[t].app
        /\ Step(t, s)
        /\ cache' \in CacheStates /\ cache'.handle = cache.handle
        /\ cache'.header = cache.header /\ cache'.ncch = cache.ncch
        /\ cache'.file = cache'.cookie
        /\ registered' \in [Entries -> Programs \cup {None}]
        /\ TitleOf(h)' = title /\ \A g \in Handles : g # h => TitleOf(g)' = TitleOf(g)
        /\ h \in Modules => cache'.file = h /\ TitleOf(h) = h
        /\ h \in Entries => TitleOf(h) = None /\ (title \in Apps => cache' = cache)
  BY RegisterGives DEF BeginLaunch, LaunchPcs
<1>f. /\ memoryOverride' = memoryOverride /\ hbldr_3dsx_tid' = hbldr_3dsx_tid
      /\ selected_hbldr_3dsx_tid' = selected_hbldr_3dsx_tid /\ procs' = procs
      /\ mon' = mon /\ runningApplicationData' = runningApplicationData /\ menu' = menu
      /\ loaded' = loaded
  BY DEF BeginLaunch, configVars
<1>b. /\ launch' \in [Launchers -> LaunchStates] /\ launch'[t] = s
      /\ \A u \in Launchers : u # t => launch'[u] = launch[u]
  BY <1>a, LaunchGoes
<1>c. /\ launch[t].pc = "idle" /\ LoaderRuns /\ \A u \in Launchers : u # t => InNoLaunch(u)
      /\ launch[t].app # None => title \in Modules
      /\ title \in Apps => /\ runningApplicationData = None
                           /\ \A u \in Launchers : launch[u].app = None
                           /\ \A u \in Launchers : launch[u].pc \notin {"info", "load"}
                           /\ menu = "idle"
  BY DEF BeginLaunch, Launchable, InNoLaunch
<1>e. \A g \in Handles : (TitleOf(g) # None \/ g \in Modules) => TitleOf(g)' = TitleOf(g)
  <2>1. h \in Modules => title = h
    BY <1>a DEF TitleOf, IsSysmoduleCxiCookie
  <2> QED
    BY <1>a, <2>1 DEF Handles
<1>g. /\ None \notin Handles /\ None \notin Programs /\ Entries \cap Modules = {}
      /\ Modules \cap Apps = {} /\ None \notin Apps
  BY NamesDiffer DEF Programs
<1>1. CacheTypes'
  BY <1>a, <1>b, <1>f DEF CacheTypes
<1>2. HandlesOwned'
  <2>1. \A u \in Launchers : u # t /\ Busy(u) =>
          TitleOf(launch[u].handle)' = launch[u].title
            /\ (h \in Entries => launch[u].handle # h)
    BY <1>a, <1>b, <1>e, OwnedHandles
  <2>2. \A p \in procs : TitleOf(p.handle)' = p.title /\ (h \in Entries => p.handle # h)
    BY <1>a, <1>e, OwnedHandles
  <2>3. Cleans
            => TitleOf(mon.process.handle)' = mon.process.title
              /\ (h \in Entries => mon.process.handle # h)
    BY <1>a, <1>e, <1>f, OwnedHandles
  <2> QED
    BY <1>a, <1>b, <1>f, <2>1, <2>2, <2>3 DEF HandlesOwned, Busy, Cleans
<1>3. OneApplication'
  <2>1. \A u \in Launchers : launch'[u].app = launch[u].app
    BY <1>a, <1>b
  <2>2. \A u \in Launchers :
            u # t => (AppLaunch(u)' <=> AppLaunch(u)) /\ (InNoLaunch(u)' <=> InNoLaunch(u))
    BY <1>b DEF AppLaunch, InNoLaunch
  <2>3. AppLaunch(t)' <=> title \in Apps
    BY <1>a, <1>b DEF AppLaunch
  <2>4. \A p : IsApp(p)' <=> IsApp(p)
    BY DEF IsApp
  <2>5. title \in Apps => \A p \in procs : ~IsApp(p)
    BY <1>c, <1>g DEF OneApplication, ProcessAlone, IsApp
  <2>6. LaunchAlone'
    BY <1>c, <1>f, <2>1, <2>2, <2>3, <2>4, <2>5 DEF OneApplication, LaunchAlone, AppLaunch,
           IsApp
  <2>7. StartAlone' /\ ProcessAlone' /\ MonitorAlone'
    BY <1>f, <2>1 DEF OneApplication, StartAlone, ProcessAlone, MonitorAlone, IsApp
  <2>8. LaunchersAlone'
    BY <1>c, <2>2 DEF LaunchersAlone
  <2>9. MenuAlone'
    <3>1. ApplicationUnderWay' => ApplicationUnderWay \/ title \in Apps
      BY <1>a, <1>b, <1>f DEF ApplicationUnderWay
    <3> QED
      BY <1>c, <1>f, <1>g, <3>1 DEF OneApplication, MenuAlone, None
  <2> QED
    BY <2>6, <2>7, <2>8, <2>9 DEF OneApplication
<1>4. CacheInv'
  <2>1. cache.handle \in Handles \cup {None}
    BY DEF CacheTypes, CacheStates
  <2>2. cache'.handle # None
            => cache'.header.title \in Programs /\ cache'.header.title = TitleOf(cache.handle)'
    <3>1. cache.handle # None
              => cache.header.title \in Programs /\ cache.header.title = TitleOf(cache.handle)
      BY DEF CacheInv
    <3> QED
      BY <1>a, <1>e, <1>g, <2>1, <3>1
  <2> QED
    BY <1>a, <1>b, <1>c, <1>e, <1>f, <1>g, <2>1, <2>2 DEF CacheInv, InNoLaunch
<1>5. HomebrewInv'
  BY <1>a, <1>f DEF HomebrewInv, IsApp, hbldrIs3dsxTitle
<1>6. ProgramsConsistent'
  BY <1>f DEF ProgramsConsistent, LoadedAsDescribed, HeaderAtEndIsThatAtStart
<1> QED
  BY <1>1, <1>2, <1>3, <1>4, <1>5, <1>6

\* So does a query of the flags of a title.
LEMMA BeginQueryKeeps ==
  ASSUME LoaderAssumption, OneLauncher, Settled, LoaderInv, NEW title \in Apps,
         BeginQuery(title)
  PROVE  LoaderInv'
<1> USE DEF LoaderInv
<1>a. PICK t \in Launchers, h \in Handles, s \in LaunchStates :
        /\ t = "srv"
        /\ s.pc = "query" /\ s.title = title /\ s.handle = h /\ s.app = launch[t].app
        /\ Step(t, s)
        /\ cache' \in CacheStates /\ cache'.handle = cache.handle
        /\ cache'.header = cache.header /\ cache'.ncch = cache.ncch
        /\ cache'.file = cache'.cookie
        /\ registered' \in [Entries -> Programs \cup {None}]
        /\ TitleOf(h)' = title /\ \A g \in Handles : g # h => TitleOf(g)' = TitleOf(g)
        /\ h \in Modules => cache'.file = h /\ TitleOf(h) = h
        /\ h \in Entries => TitleOf(h) = None /\ (title \in Apps => cache' = cache)
  <2>1. /\ "srv" \in Launchers /\ title \in Programs /\ Register("srv", title, "query")
        /\ "query" \in LaunchPcs
    BY DEF BeginQuery, LaunchPcs, Launchers, Programs
  <2> QED
    BY <2>1, RegisterGives
<1>f. /\ memoryOverride' = memoryOverride /\ hbldr_3dsx_tid' = hbldr_3dsx_tid
      /\ selected_hbldr_3dsx_tid' = selected_hbldr_3dsx_tid /\ procs' = procs
      /\ mon' = mon /\ runningApplicationData' = runningApplicationData /\ menu' = menu
      /\ loaded' = loaded
  BY DEF BeginQuery, configVars
<1>b. /\ launch' \in [Launchers -> LaunchStates] /\ launch'[t] = s
      /\ \A u \in Launchers : u # t => launch'[u] = launch[u]
  BY <1>a, LaunchGoes
<1>c. launch[t] = Idle
  BY <1>a DEF BeginQuery
<1>g. /\ None \notin Handles /\ None \notin Programs /\ Entries \cap Modules = {}
      /\ Modules \cap Apps = {}
      /\ None \notin Apps /\ None \notin Modules /\ None \notin Entries
  BY NamesDiffer DEF Programs, Handles
<1>d. h \in Entries
  BY <1>a, <1>g DEF TitleOf, IsSysmoduleCxiCookie, Handles
<1>e. \A g \in Handles : (TitleOf(g) # None \/ g \in Modules) => TitleOf(g)' = TitleOf(g)
  BY <1>a, <1>d, <1>g
<1>1. CacheTypes'
  BY <1>a, <1>b, <1>f DEF CacheTypes
<1>2. HandlesOwned'
  <2>1. \A u \in Launchers : u # t /\ Busy(u) =>
          TitleOf(launch[u].handle)' = launch[u].title
            /\ (h \in Entries => launch[u].handle # h)
    BY <1>a, <1>b, <1>e, OwnedHandles
  <2>2. \A p \in procs : TitleOf(p.handle)' = p.title /\ (h \in Entries => p.handle # h)
    BY <1>a, <1>e, OwnedHandles
  <2>3. Cleans
            => TitleOf(mon.process.handle)' = mon.process.title
              /\ (h \in Entries => mon.process.handle # h)
    BY <1>a, <1>e, <1>f, OwnedHandles
  <2> QED
    BY <1>a, <1>b, <1>f, <1>g, <2>1, <2>2, <2>3 DEF HandlesOwned, Busy, Cleans, Programs
<1>3. OneApplication'
  <2>1. AppLaunch(t)' => AppLaunch(t)
    BY <1>a, <1>b DEF AppLaunch
  <2>2. InNoLaunch(t)'
    BY <1>a, <1>b, <1>c DEF InNoLaunch, Idle
  <2> QED
    BY <1>a, <1>b, <1>f, <2>1, <2>2, LaunchShrinks
<1>4. CacheInv'
  <2>1. cache' = cache
    BY <1>a, <1>d
  <2>2. cache.handle # None
            => /\ cache.header.title \in Programs /\ cache.header.title = TitleOf(cache.handle)
                              /\ cache.handle \in Handles
    BY DEF CacheInv, CacheTypes, CacheStates
  <2>3. cache.handle # None => cache.header.title = TitleOf(cache.handle)' /\ cache.handle # h
    BY <1>a, <1>d, <1>e, <1>g, <2>1, <2>2
  <2>4. \A u \in Launchers : u # t /\ launch[u].pc = "load" =>
          HeaderOf(launch[u].handle)' = HeaderOf(launch[u].handle)
    BY <1>b, <1>e, <1>f, <1>g, OwnedHandles DEF Busy, HeaderOf, hbldrIs3dsxTitle
  <2> QED
    BY <1>a, <1>b, <1>d, <1>g, <2>1, <2>2, <2>3, <2>4 DEF CacheInv
<1>5. HomebrewInv'
  BY <1>a, <1>d, <1>f DEF HomebrewInv, IsApp, hbldrIs3dsxTitle
<1>6. ProgramsConsistent'
  BY <1>f DEF ProgramsConsistent, LoadedAsDescribed, HeaderAtEndIsThatAtStart
<1> QED
  BY <1>1, <1>2, <1>3, <1>4, <1>5, <1>6

\* The launch gets the header: the cached one, or it is read now.
LEMMA InfoKeeps ==
  ASSUME LoaderAssumption, OneLauncher, Settled, LoaderInv, NEW t \in Launchers,
         NEW found \in BOOLEAN,
         Info(t, found)
  PROVE  LoaderInv'
<1> USE DEF LoaderInv
<1>a. PICK h \in Handles, c \in CacheStates :
        /\ h = launch[t].handle /\ TitleOf(h) = launch[t].title /\ TitleOf(h) \in Programs
        /\ cache' = c /\ c = GetProgramInfo(cache, h, found)
        /\ c \in CacheStates /\ c.file = c.cookie
        /\ \/ ~MustRead(cache, h) /\ c = cache
           \/ /\ MustRead(cache, h) /\ found /\ c.handle = h /\ c.header = HeaderOf(h)
              /\ h \in Modules => c.file = h /\ c.ncch = h
              /\ h \in Entries => c.file = cache.file /\ c.ncch = cache.ncch
           \/ MustRead(cache, h) /\ ~found /\ c.handle = None
  <2>1. /\ launch[t].handle \in Handles /\ TitleOf(launch[t].handle) = launch[t].title
        /\ launch[t].title \in Programs
        /\ cache' = GetProgramInfo(cache, launch[t].handle, found)
    BY OwnedHandles DEF Info, Busy
  <2> QED
    BY <2>1, GetProgramInfoGives
<1>f. /\ memoryOverride' = memoryOverride /\ hbldr_3dsx_tid' = hbldr_3dsx_tid
      /\ selected_hbldr_3dsx_tid' = selected_hbldr_3dsx_tid /\ registered' = registered
      /\ procs' = procs /\ mon' = mon /\ runningApplicationData' = runningApplicationData
      /\ menu' = menu /\ loaded' = loaded
  BY DEF Info, configVars
<1>b. PICK s \in LaunchStates :
        /\ Step(t, s) /\ s.title = launch[t].title /\ s.handle = h /\ s.app = launch[t].app
        /\ s.pc \in {"load", "queried"}
        /\ s.pc = "load" => launch[t].pc = "info" /\ found /\ s.header = c.header
  <2>1. launch[t] \in LaunchStates /\ c.header \in Headers
    BY <1>a DEF CacheTypes, CacheStates
  <2>2. CASE launch[t].pc = "info" /\ found
    <3>1. PICK s : s = [launch[t] EXCEPT !.pc = "load", !.header = c.header]
      OBVIOUS
    <3>2. /\ s \in LaunchStates /\ s.title = launch[t].title /\ s.handle = h
          /\ s.app = launch[t].app
          /\ s.pc = "load" /\ s.header = c.header
      BY <1>a, <2>1, <3>1 DEF LaunchStates, LaunchPcs
    <3>3. Step(t, s)
      BY <1>a, <2>2, <3>1 DEF Info
    <3> QED
      BY <2>2, <3>2, <3>3
  <2>3. CASE ~(launch[t].pc = "info" /\ found)
    <3>1. PICK s : s = [launch[t] EXCEPT !.pc = "queried"]
      OBVIOUS
    <3>2. /\ s \in LaunchStates /\ s.title = launch[t].title /\ s.handle = h
          /\ s.app = launch[t].app
          /\ s.pc = "queried"
      BY <1>a, <2>1, <3>1 DEF LaunchStates, LaunchPcs
    <3>3. Step(t, s)
      BY <1>a, <2>3, <3>1 DEF Info
    <3> QED
      BY <3>2, <3>3
  <2> QED
    BY <2>2, <2>3
<1>c. /\ launch' \in [Launchers -> LaunchStates] /\ launch'[t] = s
      /\ \A u \in Launchers : u # t => launch'[u] = launch[u]
      /\ launch[t].pc \in {"info", "query"} /\ (found \/ MustRead(cache, h))
  BY <1>a, <1>b, LaunchGoes DEF Info, MayBeFound
<1>g. /\ None \notin Handles /\ None \notin Programs /\ Entries \cap Modules = {}
      /\ Modules \cap Apps = {}
      /\ None \notin Apps /\ None \notin Modules /\ None \notin Entries
  BY NamesDiffer DEF Programs, Handles
<1>e. \A g : TitleOf(g)' = TitleOf(g)
  BY <1>f DEF TitleOf, IsSysmoduleCxiCookie
<1>h. \A g : HeaderOf(g)' = HeaderOf(g)
  BY <1>e, <1>f DEF HeaderOf, hbldrIs3dsxTitle
<1>i. \A x, y \in Headers : x.title = y.title /\ x.hb = y.hb /\ x.mode = y.mode => x = y
  BY DEF Headers
<1>j. s.pc = "load" => s.header = HeaderOf(h) /\ c.handle = h
  <2>1. CASE MustRead(cache, h)
    BY <1>a, <1>b, <2>1
  <2>2. CASE ~MustRead(cache, h)
    <3>1. cache.handle = h /\ c = cache
      BY <1>a, <2>2 DEF MustRead
    <3>2. launch[t].pc = "info" => h \in Modules
      BY <1>a, <1>c, <3>1 DEF CacheInv, Handles
    <3>3. h \in Modules
              => HeaderOf(h).title = h /\ HeaderOf(h).hb = FALSE /\ HeaderOf(h).mode = FALSE
                           /\ HeaderOf(h) \in Headers
      BY HeaderIsHeader DEF Headers
    <3>4. h \in Modules
              => cache.header.title = h /\ cache.header.hb = FALSE /\ cache.header.mode = FALSE
                            /\ cache.header \in Headers
      BY <1>g, <3>1, HeaderIsHeader DEF CacheInv, CacheTypes, CacheStates, Headers
    <3> QED
      BY <1>b, <1>i, <3>1, <3>2, <3>3, <3>4
  <2> QED
    BY <2>1, <2>2
<1>1. CacheTypes'
  BY <1>a, <1>b, <1>c, <1>f DEF CacheTypes
<1>2. HandlesOwned'
  <2>1. \A u \in Launchers : Busy(u)' =>
          /\ Busy(u) /\ launch'[u].handle = launch[u].handle
          /\ launch'[u].title = launch[u].title
    BY <1>a, <1>b, <1>c DEF Busy
  <2>2. \A u \in Launchers :
            Busy(u)' => launch[u].handle \in Handles /\ launch[u].title \in Programs
                                          /\ TitleOf(launch[u].handle)' = launch[u].title
    BY <1>e, <2>1, OwnedHandles
  <2> QED
    BY <1>e, <1>f, <2>1, <2>2 DEF HandlesOwned, Cleans
<1>3. OneApplication'
  <2>1. AppLaunch(t)' => AppLaunch(t)
    BY <1>b, <1>c DEF AppLaunch
  <2>2. InNoLaunch(t) => InNoLaunch(t)'
    BY <1>b, <1>c DEF InNoLaunch
  <2> QED
    BY <1>b, <1>c, <1>f, <2>1, <2>2, LaunchShrinks
<1>4. CacheInv'
  <2>1. c.handle # None => c.header.title \in Programs /\ c.header.title = TitleOf(c.handle)
    BY <1>a, HeaderIsHeader DEF CacheInv
  <2>2. c.handle \in Modules => c.ncch = c.handle
    BY <1>a, <1>g DEF CacheInv
  <2>3. c.handle # None /\ c.header.title \in Modules => ~c.header.hb /\ ~c.header.mode
    BY <1>a, HeaderIsHeader DEF CacheInv
  <2>4. \A u \in Launchers :
            u # t /\ Busy(u) /\ launch[u].handle \in Entries => launch[u].handle # h
    BY <1>a, <1>c DEF HandlesOwned, Busy
  <2>5. \A u \in Launchers :
            launch'[u].pc \in {"info", "query"} /\ launch'[u].handle \in Entries =>
          c.handle # launch'[u].handle
    BY <1>a, <1>b, <1>c, <1>g, <2>4 DEF CacheInv, Busy
  <2>6. \A u \in Launchers :
          launch'[u].pc \in {"info", "load"} /\ launch'[u].handle \in Modules
            /\ c.handle = launch'[u].handle
            => c.file = c.handle
    BY <1>a, <1>b, <1>c, <1>g DEF CacheInv
  <2>7. \A u \in Launchers :
            u # t /\ launch[u].pc = "load" /\ c.handle = launch[u].handle
                => c.header = launch[u].header
    BY <1>a, <1>g, OwnedHandles DEF CacheInv, Busy
  <2>8. \A u \in Launchers : launch'[u].pc = "load" =>
          /\ launch'[u].header = HeaderOf(launch'[u].handle)
          /\ c.handle = launch'[u].handle => c.header = launch'[u].header
    BY <1>b, <1>c, <1>j, <2>7 DEF CacheInv
  <2> QED
    BY <1>a, <1>e, <1>h, <2>1, <2>2, <2>3, <2>5, <2>6, <2>8 DEF CacheInv
<1>5. HomebrewInv'
  <2>1. \A p \in procs : IsApp(p) /\ c.handle = p.handle => c.header.hb = p.hb
    BY <1>a, <1>g, OwnedHandles, HeaderIsHeader DEF HomebrewInv
  <2>2. mon.pc = "info" /\ c.handle = mon.process.handle => c.header.hb = mon.process.hb
    BY <1>a, <1>g, OwnedHandles, HeaderIsHeader DEF HomebrewInv, Cleans
  <2> QED
    BY <1>a, <1>f, <2>1, <2>2 DEF HomebrewInv, IsApp, hbldrIs3dsxTitle
<1>6. ProgramsConsistent'
  BY <1>f DEF ProgramsConsistent, LoadedAsDescribed, HeaderAtEndIsThatAtStart
<1> QED
  BY <1>1, <1>2, <1>3, <1>4, <1>5, <1>6

\* A query unregisters its program again.
LEMMA UnregisterKeeps ==
  ASSUME LoaderAssumption, OneLauncher, Settled, LoaderInv, NEW t \in Launchers,
         Unregister(t)
  PROVE  LoaderInv'
<1> USE DEF LoaderInv
<1>a. PICK h \in Handles :
        /\ h = launch[t].handle
        /\ cache' \in CacheStates /\ cache'.file = cache'.cookie
        /\ cache'.handle = IF cache.handle = h THEN None ELSE cache.handle
        /\ cache'.header = cache.header /\ cache'.ncch = cache.ncch
        /\ cache'.file = IF h \in Modules /\ h = cache.file THEN None ELSE cache.file
        /\ registered' \in [Entries -> Programs \cup {None}]
        /\ \A g \in Handles : (g \notin Entries \/ g # h) => TitleOf(g)' = TitleOf(g)
  <2>1. launch[t].handle \in Handles /\ UnregisterProgram(launch[t].handle)
    BY OwnedHandles DEF Unregister, Busy
  <2> QED
    BY <2>1, UnregisterGives
<1>f. /\ memoryOverride' = memoryOverride /\ hbldr_3dsx_tid' = hbldr_3dsx_tid
      /\ selected_hbldr_3dsx_tid' = selected_hbldr_3dsx_tid /\ procs' = procs
      /\ mon' = mon /\ runningApplicationData' = runningApplicationData /\ menu' = menu
      /\ loaded' = loaded
  BY DEF Unregister, configVars
<1>b. PICK s \in LaunchStates : Step(t, s) /\ s.pc = "idle" /\ s.app = launch[t].app
  <2>1. launch[t].app \in Apps \cup {None}
    BY DEF CacheTypes, LaunchStates
  <2>2. PICK s : s = [Idle EXCEPT !.app = launch[t].app]
    OBVIOUS
  <2>3. s \in LaunchStates /\ s.pc = "idle" /\ s.app = launch[t].app
    BY <2>1, <2>2 DEF Idle, LaunchStates, LaunchPcs, NoHeader, Headers
  <2> QED
    BY <2>2, <2>3 DEF Unregister
<1>c. /\ launch' \in [Launchers -> LaunchStates] /\ launch'[t] = s /\ launch[t].pc = "queried"
      /\ \A u \in Launchers : u # t => launch'[u] = launch[u]
  BY <1>a, <1>b, LaunchGoes DEF Unregister
<1>g. /\ None \notin Handles /\ None \notin Programs /\ Entries \cap Modules = {}
      /\ Modules \cap Apps = {}
      /\ None \notin Apps /\ None \notin Modules /\ None \notin Entries
  BY NamesDiffer DEF Programs, Handles
<1>d. \A u \in Launchers : u # t /\ Busy(u) /\ h \in Entries => launch[u].handle # h
  BY <1>a, <1>c DEF HandlesOwned, Busy
<1>e. /\ \A p \in procs : h \in Entries => p.handle # h
      /\ Cleans /\ h \in Entries => mon.process.handle # h
  BY <1>a, <1>c DEF HandlesOwned, Busy
<1>1. CacheTypes'
  BY <1>a, <1>b, <1>c, <1>f DEF CacheTypes
<1>2. HandlesOwned'
  <2>1. \A u \in Launchers : Busy(u)' => u # t /\ Busy(u) /\ launch'[u] = launch[u]
    BY <1>b, <1>c DEF Busy
  <2>2. \A u \in Launchers : Busy(u)' => TitleOf(launch[u].handle)' = launch[u].title
    BY <1>a, <1>d, <2>1, OwnedHandles
  <2>3. \A p \in procs : TitleOf(p.handle)' = p.title
    BY <1>a, <1>e, OwnedHandles
  <2>4. Cleans => TitleOf(mon.process.handle)' = mon.process.title
    BY <1>a, <1>e, <1>f, OwnedHandles
  <2> QED
    BY <1>f, <2>1, <2>2, <2>3, <2>4 DEF HandlesOwned, Cleans
<1>3. OneApplication'
  <2>1. (AppLaunch(t)' => AppLaunch(t)) /\ (InNoLaunch(t) => InNoLaunch(t)')
    BY <1>b, <1>c DEF AppLaunch, InNoLaunch
  <2> QED
    BY <1>b, <1>c, <1>f, <2>1, LaunchShrinks
<1>4. CacheInv'
  <2>1. cache.handle \in Handles \cup {None}
    BY DEF CacheTypes, CacheStates
  <2>2. cache'.handle # None => cache'.handle = cache.handle /\ cache.handle # h
    BY <1>a
  <2>3. cache'.handle # None
            => cache.header.title \in Programs /\ cache.header.title = TitleOf(cache.handle)'
    <3>1. cache.handle # None
              => cache.header.title \in Programs /\ cache.header.title = TitleOf(cache.handle)
      BY DEF CacheInv
    <3>2. cache.handle # None /\ cache.handle # h
              => TitleOf(cache'.handle) = TitleOf(cache.handle)'
      BY <1>a, <2>1, <2>2
    <3> QED
      BY <1>a, <2>1, <2>2, <3>1, <3>2
  <2>4. \A u \in Launchers :
            launch[u].pc = "load" /\ launch'[u] = launch[u]
              /\ (launch[u].handle # h \/ h \notin Entries) =>
          HeaderOf(launch[u].handle)' = HeaderOf(launch[u].handle)
    BY <1>a, <1>f, OwnedHandles DEF Busy, HeaderOf, hbldrIs3dsxTitle
  <2>5. \A u \in Launchers :
            launch'[u].pc # "idle" => u # t /\ Busy(u) /\ launch'[u] = launch[u]
    BY <1>b, <1>c DEF Busy
  <2>6. \A u \in Launchers :
          launch'[u].pc \in {"info", "load"} /\ launch'[u].handle \in Modules
            /\ cache'.handle = launch'[u].handle
            => cache'.file = cache'.handle
    BY <1>a, <1>g, <2>2, <2>5 DEF CacheInv
  <2>7. \A u \in Launchers :
            launch'[u].pc \in {"info", "query"} /\ launch'[u].handle \in Entries =>
          cache'.handle # launch'[u].handle
    BY <1>a, <1>g, <2>2, <2>5 DEF CacheInv
  <2>8. \A u \in Launchers : launch'[u].pc = "load" =>
          /\ launch'[u].header = HeaderOf(launch[u].handle)'
          /\ cache'.handle = launch'[u].handle => cache'.header = launch'[u].header
    BY <1>a, <1>d, <1>g, <2>2, <2>4, <2>5, OwnedHandles DEF CacheInv, Busy
  <2> QED
    BY <1>a, <1>g, <2>2, <2>3, <2>6, <2>7, <2>8 DEF CacheInv
<1>5. HomebrewInv'
  <2>1. \A g \in Handles : cache'.handle = g => cache.handle = g
    BY <1>a, <1>g
  <2> QED
    BY <1>a, <1>f, <2>1, OwnedHandles DEF HomebrewInv, IsApp, hbldrIs3dsxTitle, Cleans
<1>6. ProgramsConsistent'
  BY <1>f DEF ProgramsConsistent, LoadedAsDescribed, HeaderAtEndIsThatAtStart
<1> QED
  BY <1>1, <1>2, <1>3, <1>4, <1>5, <1>6

\* The process is loaded with the header, the code and the treatment of its
\* program.
LEMMA LoadKeeps ==
  ASSUME LoaderAssumption, OneLauncher, Settled, LoaderInv, NEW t \in Launchers,
         Load(t)
  PROVE  LoaderInv'
<1> USE DEF LoaderInv
<1>a. PICK h \in Handles, c \in CacheStates :
        /\ h = launch[t].handle /\ TitleOf(h) = launch[t].title /\ TitleOf(h) \in Programs
        /\ c = GetProgramInfo(cache, h, TRUE) /\ c.file = c.cookie
        /\ \/ ~MustRead(cache, h) /\ c = cache
           \/ /\ MustRead(cache, h) /\ c.handle = h /\ c.header = HeaderOf(h)
              /\ h \in Modules => c.file = h /\ c.ncch = h
  <2>1. /\ launch[t].handle \in Handles /\ TitleOf(launch[t].handle) = launch[t].title
        /\ launch[t].title \in Programs
    BY OwnedHandles DEF Load, Busy
  <2>2. PICK h \in Handles : h = launch[t].handle
    BY <2>1
  <2>3. PICK c : c = GetProgramInfo(cache, h, TRUE)
    OBVIOUS
  <2>4. /\ c \in CacheStates /\ c.file = c.cookie
        /\ \/ ~MustRead(cache, h) /\ c = cache
           \/ /\ MustRead(cache, h) /\ c.handle = h /\ c.header = HeaderOf(h)
              /\ h \in Modules => c.file = h /\ c.ncch = h
    BY <2>1, <2>2, <2>3, GetProgramInfoGives
  <2> QED
    BY <2>1, <2>2, <2>3, <2>4
<1>f. /\ memoryOverride' = memoryOverride /\ hbldr_3dsx_tid' = hbldr_3dsx_tid
      /\ selected_hbldr_3dsx_tid' = selected_hbldr_3dsx_tid /\ registered' = registered
      /\ mon' = mon /\ runningApplicationData' = runningApplicationData /\ menu' = menu
  BY DEF Load, configVars
<1>g. /\ None \notin Handles /\ None \notin Programs /\ Entries \cap Modules = {}
      /\ Modules \cap Apps = {}
      /\ None \notin Apps /\ None \notin Modules /\ None \notin Entries
  BY NamesDiffer DEF Programs, Handles
<1>e. \A g : TitleOf(g)' = TitleOf(g)
  BY <1>f DEF TitleOf, IsSysmoduleCxiCookie
<1>h. \A g : HeaderOf(g)' = HeaderOf(g)
  BY <1>e, <1>f DEF HeaderOf, hbldrIs3dsxTitle
<1>b. /\ launch[t].pc = "load" /\ launch[t].header = HeaderOf(h) /\ c.header = HeaderOf(h)
      /\ c.handle = h
      /\ h \in Modules => c.file = h /\ c.ncch = h
  BY <1>a DEF Load, MustRead, CacheInv
<1>c. /\ cache' \in CacheStates /\ cache'.handle = h /\ cache'.header = HeaderOf(h)
      /\ cache'.ncch = c.ncch
      /\ cache'.file = cache'.cookie
  BY <1>a, <1>b DEF Load, InvalidateCachedCxiFile, CacheStates
<1>d. PICK s \in LaunchStates :
        /\ Step(t, s) /\ s.pc = "idle"
        /\ s.app = IF launch[t].title \in Apps THEN launch[t].title ELSE launch[t].app
  <2>1. launch[t].app \in Apps \cup {None}
    BY DEF CacheTypes, LaunchStates
  <2>2. PICK s : s = [Idle EXCEPT !.app = IF launch[t].title \in Apps THEN launch[t].title
                                          ELSE launch[t].app]
    OBVIOUS
  <2>3. /\ s \in LaunchStates /\ s.pc = "idle"
        /\ s.app = IF launch[t].title \in Apps THEN launch[t].title ELSE launch[t].app
    BY <2>1, <2>2 DEF Idle, LaunchStates, LaunchPcs, NoHeader, Headers
  <2> QED
    BY <2>2, <2>3 DEF Load
<1>i. /\ launch' \in [Launchers -> LaunchStates] /\ launch'[t] = s
      /\ \A u \in Launchers : u # t => launch'[u] = launch[u]
  BY <1>a, <1>d, LaunchGoes
<1>j. PICK p0 \in LoadedProcesses :
        /\ p0.title = launch[t].title /\ p0.handle = h /\ p0.hb = HeaderOf(h).hb
        /\ p0.ran = FALSE
        /\ procs' = procs \cup {p0}
  <2>1. PICK p0 : p0 = [title |-> launch[t].title, handle |-> h, hb |-> launch[t].header.hb,
                        ran |-> FALSE]
    OBVIOUS
  <2>2. p0 \in LoadedProcesses
    BY <1>a, <1>b, <2>1, HeaderIsHeader DEF LoadedProcesses, Headers
  <2>3. procs' = procs \cup {p0}
    BY <1>a, <2>1 DEF Load
  <2> QED
    BY <1>b, <2>1, <2>2, <2>3
<1>k. \A u \in Launchers : u # t => InNoLaunch(u)
  BY <1>b DEF OneApplication, LaunchersAlone, InNoLaunch
<1>1. CacheTypes'
  BY <1>c, <1>f, <1>i, <1>j DEF CacheTypes
<1>2. HandlesOwned'
  <2>1. \A u \in Launchers : Busy(u)' =>
          /\ u # t /\ Busy(u) /\ launch'[u] = launch[u]
          /\ (launch[u].handle \in Entries => launch[u].handle # h)
    BY <1>a, <1>b, <1>d, <1>i DEF HandlesOwned, Busy
  <2>2. \A u \in Launchers : Busy(u)' => TitleOf(launch[u].handle)' = launch[u].title
    BY <1>e, <2>1, OwnedHandles
  <2>3. \A p \in procs : p.handle \in Entries => p.handle # h
    BY <1>a, <1>b DEF HandlesOwned, Busy
  <2>4. Cleans /\ h \in Entries => mon.process.handle # h
    BY <1>a, <1>b DEF HandlesOwned, Busy
  <2>5. \A p \in procs' : TitleOf(p.handle)' = p.title
    BY <1>a, <1>e, <1>j DEF HandlesOwned
  <2>6. \A p, q \in procs' : p # q /\ p.handle \in Entries => p.handle # q.handle
    BY <1>j, <2>3 DEF HandlesOwned
  <2>7. \A u \in Launchers, p \in procs' :
            Busy(u)' /\ launch'[u].handle \in Entries => launch'[u].handle # p.handle
    BY <1>j, <2>1 DEF HandlesOwned
  <2>8. Cleans => TitleOf(mon.process.handle)' = mon.process.title
    BY <1>e, <1>f, OwnedHandles
  <2>9. \A p \in procs' : Cleans /\ p.handle \in Entries => p.handle # mon.process.handle
    BY <1>j, <2>4 DEF HandlesOwned
  <2> QED
    BY <1>f, <2>1, <2>2, <2>5, <2>6, <2>7, <2>8, <2>9 DEF HandlesOwned, Cleans
<1>3. OneApplication'
  <2>1. AppLaunch(t) <=> launch[t].title \in Apps
    BY <1>b DEF AppLaunch
  <2>2. \A u \in Launchers : ~AppLaunch(u)'
    BY <1>d, <1>i, <1>k DEF AppLaunch, InNoLaunch
  <2>3. \A u \in Launchers : u # t => launch'[u].app = None
    BY <1>i, <1>k DEF InNoLaunch
  <2>4. LaunchAlone'
    BY <2>2 DEF LaunchAlone
  <2>5. StartAlone'
    BY <1>d, <1>f, <1>g, <1>i, <2>1, <2>3 DEF OneApplication, LaunchAlone, StartAlone
  <2>6. LaunchersAlone'
    BY <1>i, <1>k DEF LaunchersAlone, InNoLaunch
  <2>7. ProcessAlone'
    <3>1. CASE launch[t].title \in Apps
      <4>1. \A p \in procs : ~IsApp(p)
        BY <2>1, <3>1 DEF OneApplication, LaunchAlone
      <4>2. launch'[t].app = p0.title
        BY <1>d, <1>i, <1>j, <3>1
      <4> QED
        BY <1>f, <1>j, <4>1, <4>2 DEF OneApplication, ProcessAlone, IsApp
    <3>2. CASE launch[t].title \notin Apps
      <4>1. \A u \in Launchers : launch'[u].app = launch[u].app
        BY <1>d, <1>i, <3>2
      <4>2. ~IsApp(p0) /\ ~p0.ran
        BY <1>j, <3>2 DEF IsApp
      <4> QED
        BY <1>f, <1>j, <4>1, <4>2 DEF OneApplication, ProcessAlone, IsApp
    <3> QED
      BY <3>1, <3>2
  <2>8. MonitorAlone'
    BY <1>f, <1>g, <1>j, <2>1 DEF OneApplication, LaunchAlone, MonitorAlone, IsApp
  <2>9. MenuAlone'
    <3>1. menu = None => ~ApplicationUnderWay /\ ~AppLaunch(t)
      BY DEF OneApplication, MenuAlone, ApplicationUnderWay, AppLaunch
    <3>2. ~AppLaunch(t) => (ApplicationUnderWay' => ApplicationUnderWay)
      BY <1>d, <1>f, <1>i, <1>j, <2>1, <2>2 DEF ApplicationUnderWay, AppLaunch
    <3> QED
      BY <1>f, <3>1, <3>2 DEF MenuAlone
  <2> QED
    BY <2>4, <2>5, <2>6, <2>7, <2>8, <2>9 DEF OneApplication
<1>4. CacheInv'
  <2>1. \A u \in Launchers : launch'[u].pc \notin {"info", "load"}
    BY <1>d, <1>i, <1>k DEF InNoLaunch
  <2>2. \A u \in Launchers :
            launch'[u].pc = "query" /\ launch'[u].handle \in Entries => launch'[u].handle # h
    BY <1>a, <1>b, <1>d, <1>i DEF HandlesOwned, Busy
  <2> QED
    BY <1>a, <1>b, <1>c, <1>e, <2>1, <2>2, HeaderIsHeader DEF CacheInv
<1>5. HomebrewInv'
  <2>1. \A p \in procs' : IsApp(p) => p.hb = hbldrIs3dsxTitle(p.title)
    BY <1>a, <1>j, HeaderIsHeader DEF HomebrewInv, IsApp
  <2>2. \A p \in procs' : IsApp(p) /\ h = p.handle => HeaderOf(h).hb = p.hb
    BY <1>a, <1>j, <2>1, OwnedHandles, HeaderIsHeader
  <2>3. mon.pc = "info" /\ h = mon.process.handle => HeaderOf(h).hb = mon.process.hb
    BY <1>a, OwnedHandles, HeaderIsHeader DEF HomebrewInv, Cleans
  <2> QED
    BY <1>c, <1>f, <2>1, <2>2, <2>3 DEF HomebrewInv, IsApp, hbldrIs3dsxTitle
<1>6. ProgramsConsistent'
  <2>1. PICK l : l = [asked |-> launch[t].header, used |-> c.header, now |-> HeaderOf(h),
                      code |-> CodeOf(c, h)]
    OBVIOUS
  <2>2. loaded' = l
    BY <1>a, <2>1 DEF Load
  <2>3. CodeOf(c, h) = IF HeaderOf(h).hb THEN "3dsx" ELSE HeaderOf(h).title
    <3>1. HeaderOf(h).title = TitleOf(h) /\ (HeaderOf(h).hb <=> TitleOf(h) = hbldr_3dsx_tid)
      BY HeaderIsHeader DEF hbldrIs3dsxTitle
    <3>2. CASE HeaderOf(h).hb
      BY <1>b, <3>1, <3>2 DEF CodeOf, hbldrIs3dsxTitle
    <3>3. CASE ~HeaderOf(h).hb /\ h \in Modules
      <4>1. TitleOf(h) = h
        BY <3>3 DEF TitleOf, IsSysmoduleCxiCookie
      <4> QED
        BY <1>b, <3>1, <3>3, <4>1 DEF CodeOf, hbldrIs3dsxTitle, IsSysmoduleCxiCookie
    <3>4. CASE ~HeaderOf(h).hb /\ h \notin Modules
      <4>1. TitleOf(h) = registered[h]
        BY <3>4 DEF TitleOf, IsSysmoduleCxiCookie
      <4> QED
        BY <1>b, <3>1, <3>4, <4>1 DEF CodeOf, hbldrIs3dsxTitle, IsSysmoduleCxiCookie
    <3> QED
      BY <3>2, <3>3, <3>4
  <2> QED
    BY <1>b, <1>f, <2>1, <2>2, <2>3 DEF ProgramsConsistent, LoadedAsDescribed,
           HeaderAtEndIsThatAtStart
<1> QED
  BY <1>1, <1>2, <1>3, <1>4, <1>5, <1>6

\* The program is not found any more.
LEMMA LoadFailsKeeps ==
  ASSUME LoaderAssumption, OneLauncher, Settled, LoaderInv, NEW t \in Launchers,
         LoadFails(t)
  PROVE  LoaderInv'
<1> USE DEF LoaderInv
<1>a. PICK h \in Handles, c \in CacheStates :
        h = launch[t].handle /\ cache' = c /\ c.file = c.cookie /\ c.handle = None
  <2>1. /\ launch[t].handle \in Handles /\ TitleOf(launch[t].handle) \in Programs
        /\ cache' = GetProgramInfo(cache, launch[t].handle, FALSE)
        /\ MustRead(cache, launch[t].handle)
    BY OwnedHandles DEF LoadFails, Busy
  <2> QED
    BY <2>1, GetProgramInfoGives
<1>f. /\ memoryOverride' = memoryOverride /\ hbldr_3dsx_tid' = hbldr_3dsx_tid
      /\ selected_hbldr_3dsx_tid' = selected_hbldr_3dsx_tid /\ registered' = registered
      /\ procs' = procs /\ mon' = mon /\ runningApplicationData' = runningApplicationData
      /\ menu' = menu /\ loaded' = loaded
  BY DEF LoadFails, configVars
<1>b. PICK s \in LaunchStates : Step(t, s) /\ s.pc = "idle" /\ s.app = launch[t].app
  <2>1. launch[t].app \in Apps \cup {None}
    BY DEF CacheTypes, LaunchStates
  <2>2. PICK s : s = [Idle EXCEPT !.app = launch[t].app]
    OBVIOUS
  <2>3. s \in LaunchStates /\ s.pc = "idle" /\ s.app = launch[t].app
    BY <2>1, <2>2 DEF Idle, LaunchStates, LaunchPcs, NoHeader, Headers
  <2> QED
    BY <2>2, <2>3 DEF LoadFails
<1>c. /\ launch' \in [Launchers -> LaunchStates] /\ launch'[t] = s /\ launch[t].pc = "load"
      /\ \A u \in Launchers : u # t => launch'[u] = launch[u]
  BY <1>a, <1>b, LaunchGoes DEF LoadFails
<1>g. /\ None \notin Handles /\ None \notin Programs /\ Entries \cap Modules = {}
      /\ Modules \cap Apps = {}
      /\ None \notin Apps /\ None \notin Modules /\ None \notin Entries
  BY NamesDiffer DEF Programs, Handles
<1>e. \A g : TitleOf(g)' = TitleOf(g)
  BY <1>f DEF TitleOf, IsSysmoduleCxiCookie
<1>h. \A g : HeaderOf(g)' = HeaderOf(g)
  BY <1>e, <1>f DEF HeaderOf, hbldrIs3dsxTitle
<1>i. \A u \in Launchers : launch'[u].pc # "idle" => u # t /\ launch'[u] = launch[u]
  BY <1>b, <1>c
<1>1. CacheTypes'
  BY <1>a, <1>b, <1>c, <1>f DEF CacheTypes
<1>2. HandlesOwned'
  <2>1. \A u \in Launchers : Busy(u)' => u # t /\ Busy(u) /\ launch'[u] = launch[u]
    BY <1>i DEF Busy
  <2>2. \A u \in Launchers : Busy(u)' => TitleOf(launch[u].handle)' = launch[u].title
    BY <1>e, <2>1, OwnedHandles
  <2>3. Cleans => TitleOf(mon.process.handle)' = mon.process.title
    BY <1>e, <1>f, OwnedHandles
  <2> QED
    BY <1>e, <1>f, <2>1, <2>2, <2>3 DEF HandlesOwned, Cleans
<1>3. OneApplication'
  <2>1. (AppLaunch(t)' => AppLaunch(t)) /\ (InNoLaunch(t) => InNoLaunch(t)')
    BY <1>b, <1>c DEF AppLaunch, InNoLaunch
  <2> QED
    BY <1>b, <1>c, <1>f, <2>1, LaunchShrinks
<1>4. CacheInv'
  <2>1. \A u \in Launchers : launch'[u].pc = "load" =>
          launch'[u].header = HeaderOf(launch[u].handle)' /\ launch[u].handle \in Handles
    BY <1>h, <1>i, OwnedHandles DEF CacheInv, Busy
  <2> QED
    BY <1>a, <1>g, <1>i, <2>1, OwnedHandles DEF CacheInv
<1>5. HomebrewInv'
  BY <1>a, <1>f, <1>g, OwnedHandles DEF HomebrewInv, IsApp, hbldrIs3dsxTitle, Cleans
<1>6. ProgramsConsistent'
  BY <1>f DEF ProgramsConsistent, LoadedAsDescribed, HeaderAtEndIsThatAtStart
<1> QED
  BY <1>1, <1>2, <1>3, <1>4, <1>5, <1>6

\* The application that was loaded runs.
LEMMA RunKeeps ==
  ASSUME LoaderAssumption, OneLauncher, Settled, LoaderInv, NEW t \in Launchers,
         Run(t)
  PROVE  LoaderInv'
<1> USE DEF LoaderInv
<1>f. /\ cache' = cache /\ memoryOverride' = memoryOverride
      /\ hbldr_3dsx_tid' = hbldr_3dsx_tid
      /\ selected_hbldr_3dsx_tid' = selected_hbldr_3dsx_tid /\ registered' = registered
      /\ mon' = mon /\ menu' = menu /\ loaded' = loaded
  BY DEF Run, configVars
<1>b. Idle \in LaunchStates /\ Idle.pc = "idle" /\ Idle.app = None
  BY DEF Idle, LaunchStates, LaunchPcs, NoHeader, Headers
<1>c. /\ launch' \in [Launchers -> LaunchStates] /\ launch'[t] = Idle /\ launch[t].pc = "idle"
      /\ \A u \in Launchers : u # t => launch'[u] = launch[u]
  BY <1>b, LaunchGoes DEF Run
<1>a. PICK app \in Apps : app = launch[t].app
  BY DEF Run, CacheTypes, LaunchStates
<1>g. /\ None \notin Handles /\ None \notin Programs /\ Entries \cap Modules = {}
      /\ Modules \cap Apps = {}
      /\ None \notin Apps /\ None \notin Modules /\ None \notin Entries
  BY NamesDiffer DEF Programs, Handles
<1>e. \A g : TitleOf(g)' = TitleOf(g)
  BY <1>f DEF TitleOf, IsSysmoduleCxiCookie
<1>h. \A g : HeaderOf(g)' = HeaderOf(g)
  BY <1>e, <1>f DEF HeaderOf, hbldrIs3dsxTitle
<1>d. \A u \in Launchers :
          launch'[u].app = None /\ ~AppLaunch(u) /\ ~AppLaunch(u)'
            /\ (u # t => launch[u].app = None)
  BY <1>a, <1>b, <1>c, <1>g DEF OneApplication, LaunchAlone, StartAlone, AppLaunch
<1>i. runningApplicationData = None /\ ~mon.process.ran /\ menu # None
  <2>1. runningApplicationData = None
    BY <1>a, <1>g DEF OneApplication, StartAlone
  <2>2. ~mon.process.ran
    BY <1>g, <2>1 DEF OneApplication, MonitorAlone, IsApp
  <2>3. ApplicationUnderWay
    BY <1>a, <1>g DEF ApplicationUnderWay
  <2> QED
    BY <2>1, <2>2, <2>3 DEF OneApplication, MenuAlone
<1>j. \/ /\ procs' = procs /\ runningApplicationData' = None
         /\ \A p \in procs : p.title # app
      \/ \E p0, p1 \in LoadedProcesses :
           /\ p0 \in procs /\ procs' = (procs \ {p0}) \cup {p1} /\ p0.title = app
           /\ runningApplicationData' = app
           /\ p1.title = app /\ p1.handle = p0.handle /\ p1.hb = p0.hb /\ p1.ran
  <2>1. PICK own : own = {p \in procs : p.title = launch[t].app}
    OBVIOUS
  <2>2. CASE own = {}
    BY <1>a, <1>i, <2>1, <2>2 DEF Run
  <2>3. CASE own # {}
    <3>1. PICK p0 \in procs : own = {p0} /\ p0.title = app
      BY <1>a, <2>1, <2>3 DEF OneApplication, ProcessAlone, IsApp
    <3>2. PICK p1 : p1 = [p0 EXCEPT !.ran = TRUE]
      OBVIOUS
    <3>3. p0 \in LoadedProcesses
      BY <3>1 DEF CacheTypes
    <3>4. /\ p1 \in LoadedProcesses /\ p1.title = app /\ p1.handle = p0.handle
          /\ p1.hb = p0.hb /\ p1.ran
      BY <3>1, <3>2, <3>3 DEF LoadedProcesses
    <3>5. /\ procs' = (procs \ own) \cup {[p EXCEPT !.ran = TRUE] : p \in own}
          /\ runningApplicationData' = app
      BY <1>a, <2>1, <2>3 DEF Run
    <3>6. procs' = (procs \ {p0}) \cup {p1}
      BY <3>1, <3>2, <3>5
    <3> QED
      BY <3>1, <3>3, <3>4, <3>5, <3>6
  <2> QED
    BY <2>2, <2>3
<1>1. CacheTypes'
  BY <1>c, <1>f, <1>j DEF CacheTypes
<1>2. HandlesOwned'
  <2>1. \A u \in Launchers : Busy(u)' => u # t /\ Busy(u) /\ launch'[u] = launch[u]
    BY <1>b, <1>c DEF Busy
  <2>2. \A u \in Launchers : Busy(u)' => TitleOf(launch[u].handle)' = launch[u].title
    BY <1>e, <2>1, OwnedHandles
  <2>3. Cleans => TitleOf(mon.process.handle)' = mon.process.title
    BY <1>e, <1>f, OwnedHandles
  <2>4. \A p \in procs' : \E q \in procs : q.title = p.title /\ q.handle = p.handle
    BY <1>j
  <2>5. \A p \in procs' : TitleOf(p.handle)' = p.title
    BY <1>e, <2>4, OwnedHandles
  <2>6. \A p, q \in procs' : p # q /\ p.handle \in Entries => p.handle # q.handle
    BY <1>j DEF HandlesOwned
  <2> QED
    BY <1>f, <2>1, <2>2, <2>3, <2>4, <2>5, <2>6 DEF HandlesOwned, Cleans
<1>3. OneApplication'
  <2>1. LaunchAlone' /\ StartAlone'
    BY <1>d DEF LaunchAlone, StartAlone
  <2>2. LaunchersAlone'
    BY <1>b, <1>c DEF OneApplication, LaunchersAlone, InNoLaunch
  <2>3. ProcessAlone'
    <3>1. \A p \in procs : IsApp(p) => p.title = app
      BY <1>a, <1>d, <1>g, <1>i DEF OneApplication, ProcessAlone, IsApp
    <3> QED
      BY <1>j, <3>1 DEF OneApplication, ProcessAlone, IsApp
  <2>4. MonitorAlone'
    BY <1>f, <1>i DEF OneApplication, MonitorAlone
  <2>5. MenuAlone'
    BY <1>f, <1>i DEF MenuAlone
  <2> QED
    BY <2>1, <2>2, <2>3, <2>4, <2>5 DEF OneApplication
<1>4. CacheInv'
  <2>1. \A u \in Launchers : launch'[u].pc # "idle" => u # t /\ launch'[u] = launch[u]
    BY <1>b, <1>c
  <2>2. \A u \in Launchers : launch'[u].pc = "load" =>
          launch'[u].header = HeaderOf(launch[u].handle)'
    BY <1>h, <2>1 DEF CacheInv
  <2> QED
    BY <1>e, <1>f, <2>1, <2>2 DEF CacheInv
<1>5. HomebrewInv'
  BY <1>f, <1>j DEF HomebrewInv, IsApp, hbldrIs3dsxTitle
<1>6. ProgramsConsistent'
  BY <1>f DEF ProgramsConsistent, LoadedAsDescribed, HeaderAtEndIsThatAtStart
<1> QED
  BY <1>1, <1>2, <1>3, <1>4, <1>5, <1>6

\* A process ends and the monitor takes it.
LEMMA MonitorTakesKeeps ==
  ASSUME LoaderAssumption, OneLauncher, Settled, LoaderInv, NEW p \in procs,
         MonitorTakes(p)
  PROVE  LoaderInv'
<1> USE DEF LoaderInv
<1>f. /\ cache' = cache /\ memoryOverride' = memoryOverride
      /\ hbldr_3dsx_tid' = hbldr_3dsx_tid
      /\ selected_hbldr_3dsx_tid' = selected_hbldr_3dsx_tid /\ registered' = registered
      /\ launch' = launch /\ runningApplicationData' = runningApplicationData
      /\ menu' = menu /\ loaded' = loaded
  BY DEF MonitorTakes, configVars
<1>e. \A g : TitleOf(g)' = TitleOf(g)
  BY <1>f DEF TitleOf, IsSysmoduleCxiCookie
<1>h. \A g : HeaderOf(g)' = HeaderOf(g)
  BY <1>e, <1>f DEF HeaderOf, hbldrIs3dsxTitle
<1>n. /\ NotCleaning \in [pc : {"idle", "info", "unregister", "forget"}, process : LoadedProcess,
                          found : Headers]
      /\ NotCleaning.pc = "idle" /\ NotCleaning.process.title = None /\ ~NotCleaning.process.ran
      /\ NotCleaning.found = NoHeader
  BY DEF NotCleaning, NoProcess, LoadedProcess, NoHeader, Headers
<1>a. /\ p \in LoadedProcesses /\ procs' = procs \ {p} /\ mon = NotCleaning
      /\ mon' \in [pc : {"idle", "info", "unregister", "forget"}, process : LoadedProcess,
                   found : Headers]
      /\ mon'.pc = (IF IsApp(p) THEN "info" ELSE "unregister")
      /\ mon'.process = p /\ mon'.found = NoHeader
  <2>1. p \in LoadedProcesses
    BY DEF CacheTypes
  <2> QED
    BY <2>1 DEF MonitorTakes, IsApp, LoadedProcesses, LoadedProcess, NoHeader, Headers
<1>b. mon.pc = "idle" /\ ~Cleans
  BY <1>a, <1>n DEF Cleans
<1>1. CacheTypes'
  BY <1>a, <1>f DEF CacheTypes
<1>2. HandlesOwned'
  BY <1>a, <1>b, <1>e, <1>f DEF HandlesOwned, Busy, Cleans
<1>3. OneApplication'
  <2>1. LaunchAlone' /\ StartAlone' /\ LaunchersAlone' /\ ProcessAlone'
    BY <1>a, <1>f DEF OneApplication, LaunchAlone, StartAlone, LaunchersAlone, ProcessAlone,
           AppLaunch, InNoLaunch, IsApp
  <2>2. MonitorAlone'
    BY <1>a, <1>f DEF OneApplication, ProcessAlone, MonitorAlone, IsApp
  <2>3. MenuAlone'
    BY <1>a, <1>f DEF OneApplication, MenuAlone, ApplicationUnderWay
  <2> QED
    BY <2>1, <2>2, <2>3 DEF OneApplication
<1>4. CacheInv'
  BY <1>e, <1>f, <1>h DEF CacheInv
<1>5. HomebrewInv'
  BY <1>a, <1>f DEF HomebrewInv, IsApp, hbldrIs3dsxTitle
<1>6. ProgramsConsistent'
  BY <1>a, <1>f DEF ProgramsConsistent, LoadedAsDescribed, HeaderAtEndIsThatAtStart
<1> QED
  BY <1>1, <1>2, <1>3, <1>4, <1>5, <1>6

\* The monitor asks for the header of an application that ended.
LEMMA MonitorInfoKeeps ==
  ASSUME LoaderAssumption, OneLauncher, Settled, LoaderInv, NEW found \in BOOLEAN,
         MonitorInfo(found)
  PROVE  LoaderInv'
<1> USE DEF LoaderInv
<1>a. PICK h \in Handles, c \in CacheStates :
        /\ h = mon.process.handle /\ TitleOf(h) = mon.process.title /\ TitleOf(h) \in Programs
        /\ cache' = c /\ c = GetProgramInfo(cache, h, found)
        /\ c \in CacheStates /\ c.file = c.cookie
        /\ \/ ~MustRead(cache, h) /\ c = cache
           \/ /\ MustRead(cache, h) /\ found /\ c.handle = h /\ c.header = HeaderOf(h)
              /\ h \in Modules => c.file = h /\ c.ncch = h
              /\ h \in Entries => c.file = cache.file /\ c.ncch = cache.ncch
           \/ MustRead(cache, h) /\ ~found /\ c.handle = None
  <2>1. /\ mon.process.handle \in Handles /\ TitleOf(mon.process.handle) = mon.process.title
        /\ mon.process.title \in Programs
        /\ cache' = GetProgramInfo(cache, mon.process.handle, found)
    BY OwnedHandles DEF MonitorInfo, Cleans
  <2> QED
    BY <2>1, GetProgramInfoGives
<1>f. /\ memoryOverride' = memoryOverride /\ hbldr_3dsx_tid' = hbldr_3dsx_tid
      /\ selected_hbldr_3dsx_tid' = selected_hbldr_3dsx_tid /\ registered' = registered
      /\ launch' = launch /\ procs' = procs
      /\ runningApplicationData' = runningApplicationData /\ menu' = menu
      /\ loaded' = loaded
  BY DEF MonitorInfo, configVars
<1>g. /\ None \notin Handles /\ None \notin Programs /\ Entries \cap Modules = {}
      /\ Modules \cap Apps = {}
      /\ None \notin Apps /\ None \notin Modules /\ None \notin Entries
  BY NamesDiffer DEF Programs, Handles
<1>e. \A g : TitleOf(g)' = TitleOf(g)
  BY <1>f DEF TitleOf, IsSysmoduleCxiCookie
<1>h. \A g : HeaderOf(g)' = HeaderOf(g)
  BY <1>e, <1>f DEF HeaderOf, hbldrIs3dsxTitle
<1>b. mon.pc = "info" /\ (found \/ MustRead(cache, h)) /\ NoHeader \in Headers
  BY <1>a DEF MonitorInfo, MayBeFound, NoHeader, Headers
<1>c. /\ mon' \in [pc : {"idle", "info", "unregister", "forget"}, process : LoadedProcess,
                   found : Headers]
      /\ mon'.pc = "unregister" /\ mon'.process = mon.process
      /\ mon'.found = IF found THEN c.header ELSE NoHeader
  <2>1. c.header \in Headers
    BY <1>a DEF CacheStates
  <2>2. PICK x : x = IF found THEN c.header ELSE NoHeader
    OBVIOUS
  <2>3. x \in Headers
    BY <1>b, <2>1, <2>2
  <2>4. mon' = [mon EXCEPT !.pc = "unregister", !.found = x]
    BY <1>a, <2>2 DEF MonitorInfo
  <2> QED
    BY <2>2, <2>3, <2>4 DEF CacheTypes
<1>d. \A u \in Launchers : Busy(u) /\ launch[u].handle \in Entries => launch[u].handle # h
  BY <1>a, <1>b DEF HandlesOwned, Cleans
<1>i. h \in Entries
  BY <1>a, <1>b, <1>g, HeaderIsHeader DEF OneApplication, MonitorAlone, IsApp, Handles
<1>1. CacheTypes'
  BY <1>a, <1>c, <1>f DEF CacheTypes
<1>2. HandlesOwned'
  BY <1>b, <1>c, <1>e, <1>f DEF HandlesOwned, Busy, Cleans
<1>3. OneApplication'
  <2>1. LaunchAlone' /\ StartAlone' /\ LaunchersAlone' /\ ProcessAlone'
    BY <1>f DEF OneApplication, LaunchAlone, StartAlone, LaunchersAlone, ProcessAlone,
           AppLaunch, InNoLaunch, IsApp
  <2>2. MonitorAlone'
    BY <1>c, <1>f DEF OneApplication, MonitorAlone, IsApp
  <2>3. MenuAlone'
    BY <1>c, <1>f DEF OneApplication, MenuAlone, ApplicationUnderWay
  <2> QED
    BY <2>1, <2>2, <2>3 DEF OneApplication
<1>4. CacheInv'
  <2>1. c.handle # None => c.header.title \in Programs /\ c.header.title = TitleOf(c.handle)
    BY <1>a, HeaderIsHeader DEF CacheInv
  <2>2. c.handle \in Modules => c.ncch = c.handle
    BY <1>a, <1>g DEF CacheInv
  <2>3. c.handle # None /\ c.header.title \in Modules => ~c.header.hb /\ ~c.header.mode
    BY <1>a, HeaderIsHeader DEF CacheInv
  <2>4. \A u \in Launchers : Busy(u) => launch[u].handle # h /\ launch[u].handle # None
    BY <1>d, <1>g, <1>i, OwnedHandles
  <2>5. c.handle \in {None, h} \/ c = cache
    BY <1>a
  <2>6. \A u \in Launchers :
            launch[u].pc \in {"info", "query"} /\ launch[u].handle \in Entries =>
          c.handle # launch[u].handle
    BY <2>4, <2>5 DEF CacheInv, Busy
  <2>7. \A u \in Launchers :
          launch[u].pc \in {"info", "load"} /\ launch[u].handle \in Modules
            /\ c.handle = launch[u].handle
            => c.file = c.handle
    BY <2>4, <2>5 DEF CacheInv, Busy
  <2>8. \A u \in Launchers : launch[u].pc = "load" =>
          /\ launch[u].header = HeaderOf(launch[u].handle)
          /\ c.handle = launch[u].handle => c.header = launch[u].header
    BY <2>4, <2>5 DEF CacheInv, Busy
  <2> QED
    BY <1>a, <1>e, <1>f, <1>h, <2>1, <2>2, <2>3, <2>6, <2>7, <2>8 DEF CacheInv
<1>5. HomebrewInv'
  <2>1. \A p \in procs : IsApp(p) /\ c.handle = p.handle => c.header.hb = p.hb
    BY <1>a, <1>g, OwnedHandles, HeaderIsHeader DEF HomebrewInv
  <2> QED
    BY <1>a, <1>c, <1>f, <2>1 DEF HomebrewInv, IsApp, hbldrIs3dsxTitle
<1>6. ProgramsConsistent'
  <2>1. found => c.handle = h
    BY <1>a DEF MustRead
  <2>2. found => c.header.hb = mon.process.hb
    BY <1>a, <1>b, <2>1, HeaderIsHeader DEF HomebrewInv
  <2> QED
    BY <1>c, <1>f, <2>2 DEF ProgramsConsistent, LoadedAsDescribed, HeaderAtEndIsThatAtStart
<1> QED
  BY <1>1, <1>2, <1>3, <1>4, <1>5, <1>6

\* The monitor unregisters the program of a process that ended.
LEMMA MonitorUnregisterKeeps ==
  ASSUME LoaderAssumption, OneLauncher, Settled, LoaderInv,
         MonitorUnregister
  PROVE  LoaderInv'
<1> USE DEF LoaderInv
<1>a. PICK h \in Handles :
        /\ h = mon.process.handle
        /\ cache' \in CacheStates /\ cache'.file = cache'.cookie
        /\ cache'.handle = IF cache.handle = h THEN None ELSE cache.handle
        /\ cache'.header = cache.header /\ cache'.ncch = cache.ncch
        /\ cache'.file = IF h \in Modules /\ h = cache.file THEN None ELSE cache.file
        /\ registered' \in [Entries -> Programs \cup {None}]
        /\ \A g \in Handles : (g \notin Entries \/ g # h) => TitleOf(g)' = TitleOf(g)
  <2>1. mon.process.handle \in Handles /\ UnregisterProgram(mon.process.handle)
    BY OwnedHandles DEF MonitorUnregister, Cleans
  <2> QED
    BY <2>1, UnregisterGives
<1>f. /\ memoryOverride' = memoryOverride /\ hbldr_3dsx_tid' = hbldr_3dsx_tid
      /\ selected_hbldr_3dsx_tid' = selected_hbldr_3dsx_tid /\ launch' = launch
      /\ procs' = procs /\ runningApplicationData' = runningApplicationData
      /\ menu' = menu /\ loaded' = loaded
  BY DEF MonitorUnregister, configVars
<1>g. /\ None \notin Handles /\ None \notin Programs /\ Entries \cap Modules = {}
      /\ Modules \cap Apps = {}
      /\ None \notin Apps /\ None \notin Modules /\ None \notin Entries
  BY NamesDiffer DEF Programs, Handles
<1>n. /\ NotCleaning \in [pc : {"idle", "info", "unregister", "forget"}, process : LoadedProcess,
                          found : Headers]
      /\ NotCleaning.pc = "idle" /\ NotCleaning.process.title = None /\ ~NotCleaning.process.ran
      /\ NotCleaning.found = NoHeader
  BY DEF NotCleaning, NoProcess, LoadedProcess, NoHeader, Headers
<1>b. /\ mon.pc = "unregister"
      /\ mon' \in [pc : {"idle", "info", "unregister", "forget"}, process : LoadedProcess,
                   found : Headers]
      /\ \/ mon'.pc = "forget" /\ mon'.process = mon.process /\ mon.process.ran
         \/ mon' = NotCleaning
  <2>1. PICK x : x = [mon EXCEPT !.pc = "forget", !.found = NoHeader]
    OBVIOUS
  <2>2. NoHeader \in Headers
    BY DEF NoHeader, Headers
  <2>3. /\ x \in [pc : {"idle", "info", "unregister", "forget"}, process : LoadedProcess,
                  found : Headers]
        /\ x.pc = "forget" /\ x.process = mon.process
    BY <2>1, <2>2 DEF CacheTypes
  <2> QED
    BY <1>n, <2>1, <2>3 DEF MonitorUnregister
<1>c. /\ \A u \in Launchers : Busy(u) /\ h \in Entries => launch[u].handle # h
      /\ \A p \in procs : h \in Entries => p.handle # h
      /\ ~Cleans'
  BY <1>a, <1>b, <1>n DEF HandlesOwned, Cleans
<1>d. \A u \in Launchers : launch'[u] = launch[u]
  BY <1>f
<1>1. CacheTypes'
  BY <1>a, <1>b, <1>f DEF CacheTypes
<1>2. HandlesOwned'
  <2>1. \A u \in Launchers : Busy(u) => TitleOf(launch[u].handle)' = launch[u].title
    BY <1>a, <1>c, <1>f, OwnedHandles
  <2>2. \A p \in procs : TitleOf(p.handle)' = p.title
    BY <1>a, <1>c, OwnedHandles
  <2> QED
    BY <1>c, <1>f, <2>1, <2>2 DEF HandlesOwned, Busy
<1>3. OneApplication'
  <2>1. LaunchAlone' /\ StartAlone' /\ LaunchersAlone' /\ ProcessAlone'
    BY <1>f DEF OneApplication, LaunchAlone, StartAlone, LaunchersAlone, ProcessAlone,
           AppLaunch, InNoLaunch, IsApp
  <2>2. MonitorAlone'
    BY <1>b, <1>f, <1>n DEF OneApplication, MonitorAlone, IsApp
  <2>3. MenuAlone'
    BY <1>b, <1>f, <1>g, <1>n DEF OneApplication, MenuAlone, ApplicationUnderWay
  <2> QED
    BY <2>1, <2>2, <2>3 DEF OneApplication
<1>4. CacheInv'
  <2>1. cache.handle \in Handles \cup {None}
    BY DEF CacheTypes, CacheStates
  <2>2. cache'.handle # None => cache'.handle = cache.handle /\ cache.handle # h
    BY <1>a
  <2>3. cache'.handle # None
            => cache.header.title \in Programs /\ cache.header.title = TitleOf(cache.handle)'
    <3>1. cache.handle # None
              => cache.header.title \in Programs /\ cache.header.title = TitleOf(cache.handle)
      BY DEF CacheInv
    <3>2. cache.handle # None /\ cache.handle # h
              => TitleOf(cache'.handle) = TitleOf(cache.handle)'
      BY <1>a, <2>1, <2>2
    <3> QED
      BY <1>a, <2>1, <2>2, <3>1, <3>2
  <2>4. \A u \in Launchers :
            launch[u].pc = "load" /\ launch'[u] = launch[u]
              /\ (launch[u].handle # h \/ h \notin Entries) =>
          HeaderOf(launch[u].handle)' = HeaderOf(launch[u].handle)
    BY <1>a, <1>f, OwnedHandles DEF Busy, HeaderOf, hbldrIs3dsxTitle
  <2>6. \A u \in Launchers :
          launch[u].pc \in {"info", "load"} /\ launch[u].handle \in Modules
            /\ cache'.handle = launch[u].handle
            => cache'.file = cache'.handle
    BY <1>a, <1>g, <2>2 DEF CacheInv
  <2>7. \A u \in Launchers :
            launch[u].pc \in {"info", "query"} /\ launch[u].handle \in Entries =>
          cache'.handle # launch[u].handle
    BY <1>a, <1>g, <2>2 DEF CacheInv
  <2>8. \A u \in Launchers : launch[u].pc = "load" =>
          /\ launch[u].header = HeaderOf(launch[u].handle)'
          /\ cache'.handle = launch[u].handle => cache'.header = launch[u].header
    BY <1>a, <1>c, <1>d, <1>g, <2>2, <2>4, OwnedHandles DEF CacheInv, Busy
  <2> QED
    BY <1>a, <1>f, <1>g, <2>2, <2>3, <2>6, <2>7, <2>8 DEF CacheInv
<1>5. HomebrewInv'
  <2>1. \A g \in Handles : cache'.handle = g => cache.handle = g
    BY <1>a, <1>g
  <2> QED
    BY <1>a, <1>c, <1>f, <2>1, OwnedHandles DEF HomebrewInv, IsApp, hbldrIs3dsxTitle, Cleans
<1>6. ProgramsConsistent'
  BY <1>b, <1>f, <1>n DEF ProgramsConsistent, LoadedAsDescribed, HeaderAtEndIsThatAtStart
<1> QED
  BY <1>1, <1>2, <1>3, <1>4, <1>5, <1>6

\* The monitor notes that no application runs any more.
LEMMA MonitorForgetsKeeps ==
  ASSUME LoaderAssumption, OneLauncher, Settled, LoaderInv,
         MonitorForgets
  PROVE  LoaderInv'
<1> USE DEF LoaderInv
<1>f. /\ cache' = cache /\ memoryOverride' = memoryOverride
      /\ selected_hbldr_3dsx_tid' = selected_hbldr_3dsx_tid /\ registered' = registered
      /\ launch' = launch /\ procs' = procs /\ menu' = menu /\ loaded' = loaded
  BY DEF MonitorForgets, configVars
<1>n. /\ NotCleaning \in [pc : {"idle", "info", "unregister", "forget"}, process : LoadedProcess,
                          found : Headers]
      /\ NotCleaning.pc = "idle" /\ NotCleaning.process.title = None /\ ~NotCleaning.process.ran
      /\ NotCleaning.found = NoHeader
  BY DEF NotCleaning, NoProcess, LoadedProcess, NoHeader, Headers
<1>e. \A g : TitleOf(g)' = TitleOf(g)
  BY <1>f DEF TitleOf, IsSysmoduleCxiCookie
<1>g. /\ None \notin Handles /\ None \notin Programs /\ Entries \cap Modules = {}
      /\ Modules \cap Apps = {}
      /\ None \notin Apps /\ None \notin Modules /\ None \notin Entries
  BY NamesDiffer DEF Programs, Handles
<1>a. /\ mon' = NotCleaning /\ hbldr_3dsx_tid' = selected_hbldr_3dsx_tid
      /\ runningApplicationData' = None
  BY DEF MonitorForgets
<1>b. /\ mon.process.ran /\ IsApp(mon.process) /\ runningApplicationData # None
      /\ \A p \in procs : ~IsApp(p)
  BY <1>g DEF MonitorForgets, OneApplication, MonitorAlone, IsApp
<1>i. \A u \in Launchers : ~AppLaunch(u)
  BY <1>b DEF OneApplication, LaunchAlone
<1>1. CacheTypes'
  BY <1>a, <1>f, <1>n DEF CacheTypes
<1>2. HandlesOwned'
  <2>1. \A u \in Launchers : Busy(u) => TitleOf(launch[u].handle)' = launch[u].title
    BY <1>e, <1>f, OwnedHandles
  <2>2. \A p \in procs : TitleOf(p.handle)' = p.title
    BY <1>e, OwnedHandles
  <2>3. ~Cleans'
    BY <1>a, <1>n DEF Cleans
  <2> QED
    BY <1>f, <2>1, <2>2, <2>3 DEF HandlesOwned, Busy
<1>3. OneApplication'
  <2>1. LaunchAlone' /\ StartAlone' /\ LaunchersAlone'
    BY <1>a, <1>f, <1>i DEF OneApplication, LaunchAlone, StartAlone, LaunchersAlone, AppLaunch,
           InNoLaunch
  <2>2. ProcessAlone' /\ MonitorAlone'
    BY <1>a, <1>b, <1>f, <1>n DEF OneApplication, ProcessAlone, MonitorAlone, IsApp
  <2>3. MenuAlone'
    BY <1>a, <1>f, <1>g, <1>n DEF OneApplication, MenuAlone, ApplicationUnderWay
  <2> QED
    BY <2>1, <2>2, <2>3 DEF OneApplication
<1>4. CacheInv'
  <2>1. \A u \in Launchers :
            launch[u].pc = "load"
                => launch[u].handle \in Handles /\ TitleOf(launch[u].handle) \in Modules
    BY <1>i, OwnedHandles DEF AppLaunch, Busy, Programs
  <2>2. \A h \in Handles : TitleOf(h) \in Modules => HeaderOf(h)' = HeaderOf(h)
    BY <1>1, <1>e, HeaderStays
  <2>3. \A u \in Launchers :
            launch[u].pc = "load" => HeaderOf(launch[u].handle)' = HeaderOf(launch[u].handle)
    BY <1>f, <2>1, <2>2
  <2> QED
    BY <1>e, <1>f, <2>3 DEF CacheInv
<1>5. HomebrewInv'
  BY <1>a, <1>b, <1>f, <1>n DEF HomebrewInv, IsApp
<1>6. ProgramsConsistent'
  BY <1>a, <1>f, <1>n DEF ProgramsConsistent, LoadedAsDescribed, HeaderAtEndIsThatAtStart
<1> QED
  BY <1>1, <1>2, <1>3, <1>4, <1>5, <1>6

\* The menu asks which application runs.
LEMMA AskApplicationKeeps ==
  ASSUME LoaderAssumption, OneLauncher, Settled, LoaderInv,
         AskApplication
  PROVE  LoaderInv'
<1> USE DEF LoaderInv
<1>f. /\ cache' = cache /\ memoryOverride' = memoryOverride
      /\ hbldr_3dsx_tid' = hbldr_3dsx_tid
      /\ selected_hbldr_3dsx_tid' = selected_hbldr_3dsx_tid /\ registered' = registered
      /\ launch' = launch /\ procs' = procs /\ mon' = mon
      /\ runningApplicationData' = runningApplicationData /\ loaded' = loaded
  BY DEF AskApplication, configVars
<1>e. \A g : TitleOf(g)' = TitleOf(g)
  BY <1>f DEF TitleOf, IsSysmoduleCxiCookie
<1>h. \A g : HeaderOf(g)' = HeaderOf(g)
  BY <1>e, <1>f DEF HeaderOf, hbldrIs3dsxTitle
<1>n. /\ NotCleaning \in [pc : {"idle", "info", "unregister", "forget"}, process : LoadedProcess,
                          found : Headers]
      /\ NotCleaning.pc = "idle" /\ NotCleaning.process.title = None /\ ~NotCleaning.process.ran
      /\ NotCleaning.found = NoHeader
  BY DEF NotCleaning, NoProcess, LoadedProcess, NoHeader, Headers
<1>a. menu' = runningApplicationData /\ (runningApplicationData # None \/ ~ApplicationUnderWay)
  BY DEF AskApplication
<1>i. \A u \in Launchers : ~AppLaunch(u)
  BY <1>a DEF OneApplication, LaunchAlone, ApplicationUnderWay, AppLaunch
<1>1. CacheTypes'
  BY <1>a, <1>f DEF CacheTypes
<1>2. HandlesOwned'
  <2>1. \A u \in Launchers : Busy(u) => TitleOf(launch[u].handle)' = launch[u].title
    BY <1>e, <1>f, OwnedHandles
  <2>2. \A p \in procs : TitleOf(p.handle)' = p.title
    BY <1>e, OwnedHandles
  <2>3. Cleans' => Cleans /\ mon' = mon /\ TitleOf(mon.process.handle)' = mon.process.title
    BY <1>e, <1>f, <1>n, OwnedHandles DEF Cleans
  <2> QED
    BY <1>f, <2>1, <2>2, <2>3 DEF HandlesOwned, Busy, Cleans
<1>3. OneApplication'
  <2>1. LaunchAlone' /\ StartAlone' /\ LaunchersAlone'
    BY <1>f, <1>i DEF OneApplication, LaunchAlone, StartAlone, LaunchersAlone, AppLaunch,
           InNoLaunch
  <2>2. ProcessAlone' /\ MonitorAlone'
    BY <1>f DEF OneApplication, ProcessAlone, MonitorAlone, IsApp
  <2>3. MenuAlone'
    BY <1>a, <1>f DEF MenuAlone, ApplicationUnderWay
  <2> QED
    BY <2>1, <2>2, <2>3 DEF OneApplication
<1>4. CacheInv'
  BY <1>e, <1>f, <1>h DEF CacheInv
<1>5. HomebrewInv'
  BY <1>f DEF HomebrewInv, IsApp, hbldrIs3dsxTitle
<1>6. ProgramsConsistent'
  BY <1>f DEF ProgramsConsistent, LoadedAsDescribed, HeaderAtEndIsThatAtStart
<1> QED
  BY <1>1, <1>2, <1>3, <1>4, <1>5, <1>6

\* The menu switches the title that homebrew is launched in.
LEMMA SwitchKeeps ==
  ASSUME LoaderAssumption, OneLauncher, Settled, LoaderInv,
         SwitchBoot3dsxTargetTitle
  PROVE  LoaderInv'
<1> USE DEF LoaderInv
<1>f. /\ cache' = cache /\ memoryOverride' = memoryOverride /\ registered' = registered
      /\ launch' = launch /\ procs' = procs /\ mon' = mon
      /\ runningApplicationData' = runningApplicationData /\ loaded' = loaded
  BY DEF SwitchBoot3dsxTargetTitle, configVars
<1>e. \A g : TitleOf(g)' = TitleOf(g)
  BY <1>f DEF TitleOf, IsSysmoduleCxiCookie
<1>n. /\ NotCleaning \in [pc : {"idle", "info", "unregister", "forget"}, process : LoadedProcess,
                          found : Headers]
      /\ NotCleaning.pc = "idle" /\ NotCleaning.process.title = None /\ ~NotCleaning.process.ran
      /\ NotCleaning.found = NoHeader
  BY DEF NotCleaning, NoProcess, LoadedProcess, NoHeader, Headers
<1>g. /\ None \notin Handles /\ None \notin Programs /\ Entries \cap Modules = {}
      /\ Modules \cap Apps = {}
      /\ None \notin Apps /\ None \notin Modules /\ None \notin Entries
  BY NamesDiffer DEF Programs, Handles
<1>a. /\ menu # "idle" /\ menu' = "idle"
      /\ selected_hbldr_3dsx_tid' \in Apps /\ hbldr_3dsx_tid' \in Apps
      /\ menu # None => hbldr_3dsx_tid' = hbldr_3dsx_tid
  BY <1>g, NamesDiffer DEF SwitchBoot3dsxTargetTitle, Applies, CacheTypes
<1>i. \A u \in Launchers : ~AppLaunch(u)
  BY <1>a DEF OneApplication, LaunchAlone
<1>b. menu = None => (\A p \in procs : ~IsApp(p)) /\ ~IsApp(mon.process)
  BY DEF OneApplication, MenuAlone, ApplicationUnderWay, IsApp
<1>1. CacheTypes'
  BY <1>a, <1>f DEF CacheTypes
<1>2. HandlesOwned'
  <2>1. \A u \in Launchers : Busy(u) => TitleOf(launch[u].handle)' = launch[u].title
    BY <1>e, <1>f, OwnedHandles
  <2>2. \A p \in procs : TitleOf(p.handle)' = p.title
    BY <1>e, OwnedHandles
  <2>3. Cleans' => Cleans /\ mon' = mon /\ TitleOf(mon.process.handle)' = mon.process.title
    BY <1>e, <1>f, <1>n, OwnedHandles DEF Cleans
  <2> QED
    BY <1>f, <2>1, <2>2, <2>3 DEF HandlesOwned, Busy, Cleans
<1>3. OneApplication'
  <2>1. LaunchAlone' /\ StartAlone' /\ LaunchersAlone'
    BY <1>f, <1>i DEF OneApplication, LaunchAlone, StartAlone, LaunchersAlone, AppLaunch,
           InNoLaunch
  <2>2. ProcessAlone' /\ MonitorAlone'
    BY <1>f DEF OneApplication, ProcessAlone, MonitorAlone, IsApp
  <2>3. MenuAlone'
    BY <1>a DEF MenuAlone, None
  <2> QED
    BY <2>1, <2>2, <2>3 DEF OneApplication
<1>4. CacheInv'
  <2>1. \A u \in Launchers :
            launch[u].pc = "load"
                => launch[u].handle \in Handles /\ TitleOf(launch[u].handle) \in Modules
    BY <1>i, OwnedHandles DEF AppLaunch, Busy, Programs
  <2>2. \A h \in Handles : TitleOf(h) \in Modules => HeaderOf(h)' = HeaderOf(h)
    BY <1>1, <1>e, HeaderStays
  <2>3. \A u \in Launchers :
            launch[u].pc = "load" => HeaderOf(launch[u].handle)' = HeaderOf(launch[u].handle)
    BY <1>f, <2>1, <2>2
  <2> QED
    BY <1>e, <1>f, <2>3 DEF CacheInv
<1>5. HomebrewInv'
  <2>1. CASE menu = None
    BY <1>b, <1>f, <2>1 DEF HomebrewInv, OneApplication, MonitorAlone, IsApp
  <2>2. CASE menu # None
    BY <1>a, <1>f, <2>2 DEF HomebrewInv, IsApp, hbldrIs3dsxTitle
  <2> QED
    BY <2>1, <2>2
<1>6. ProgramsConsistent'
  BY <1>f DEF ProgramsConsistent, LoadedAsDescribed, HeaderAtEndIsThatAtStart
<1> QED
  BY <1>1, <1>2, <1>3, <1>4, <1>5, <1>6

\* pm overrides the memory mode, or stops to.
LEMMA ControlKeeps ==
  ASSUME LoaderAssumption, OneLauncher, Settled, LoaderInv, NEW on \in BOOLEAN,
         ControlApplicationMemoryModeOverride(on)
  PROVE  LoaderInv'
<1> USE DEF LoaderInv
<1>f. /\ cache' = cache /\ hbldr_3dsx_tid' = hbldr_3dsx_tid
      /\ selected_hbldr_3dsx_tid' = selected_hbldr_3dsx_tid /\ registered' = registered
      /\ launch' = launch /\ procs' = procs /\ mon' = mon
      /\ runningApplicationData' = runningApplicationData /\ menu' = menu
      /\ loaded' = loaded
  BY DEF ControlApplicationMemoryModeOverride, configVars
<1>e. \A g : TitleOf(g)' = TitleOf(g)
  BY <1>f DEF TitleOf, IsSysmoduleCxiCookie
<1>n. /\ NotCleaning \in [pc : {"idle", "info", "unregister", "forget"}, process : LoadedProcess,
                          found : Headers]
      /\ NotCleaning.pc = "idle" /\ NotCleaning.process.title = None /\ ~NotCleaning.process.ran
      /\ NotCleaning.found = NoHeader
  BY DEF NotCleaning, NoProcess, LoadedProcess, NoHeader, Headers
<1>a. /\ memoryOverride' = on
      /\ runningApplicationData # None \/ \E p \in procs : IsApp(p)
  BY DEF ControlApplicationMemoryModeOverride, IsApp
<1>i. \A u \in Launchers : ~AppLaunch(u)
  BY <1>a DEF OneApplication, LaunchAlone
<1>1. CacheTypes'
  BY <1>a, <1>f DEF CacheTypes
<1>2. HandlesOwned'
  <2>1. \A u \in Launchers : Busy(u) => TitleOf(launch[u].handle)' = launch[u].title
    BY <1>e, <1>f, OwnedHandles
  <2>2. \A p \in procs : TitleOf(p.handle)' = p.title
    BY <1>e, OwnedHandles
  <2>3. Cleans' => Cleans /\ mon' = mon /\ TitleOf(mon.process.handle)' = mon.process.title
    BY <1>e, <1>f, <1>n, OwnedHandles DEF Cleans
  <2> QED
    BY <1>f, <2>1, <2>2, <2>3 DEF HandlesOwned, Busy, Cleans
<1>3. OneApplication'
  BY <1>f DEF OneApplication, LaunchAlone, StartAlone, LaunchersAlone, ProcessAlone,
         MonitorAlone, MenuAlone, AppLaunch, IsApp, InNoLaunch, ApplicationUnderWay
<1>4. CacheInv'
  <2>1. \A u \in Launchers :
            launch[u].pc = "load"
                => launch[u].handle \in Handles /\ TitleOf(launch[u].handle) \in Modules
    BY <1>i, OwnedHandles DEF AppLaunch, Busy, Programs
  <2>2. \A h \in Handles : TitleOf(h) \in Modules => HeaderOf(h)' = HeaderOf(h)
    BY <1>1, <1>e, HeaderStays
  <2>3. \A u \in Launchers :
            launch[u].pc = "load" => HeaderOf(launch[u].handle)' = HeaderOf(launch[u].handle)
    BY <1>f, <2>1, <2>2
  <2> QED
    BY <1>e, <1>f, <2>3 DEF CacheInv
<1>5. HomebrewInv'
  BY <1>f DEF HomebrewInv, IsApp, hbldrIs3dsxTitle
<1>6. ProgramsConsistent'
  BY <1>f DEF ProgramsConsistent, LoadedAsDescribed, HeaderAtEndIsThatAtStart
<1> QED
  BY <1>1, <1>2, <1>3, <1>4, <1>5, <1>6

\* Nothing is launched at first.
LEMMA LoaderInit ==
  ASSUME LoaderAssumption, Init
  PROVE  LoaderInv
<1> USE DEF Init
<1>1. NoHeader \in Headers /\ None \notin Handles /\ None \notin Apps
  BY NamesDiffer DEF NoHeader, Headers, Programs
<1>2. Idle \in LaunchStates /\ Idle.pc = "idle" /\ Idle.app = None /\ Idle.title = None
  BY DEF Idle, LaunchStates, LaunchPcs, NoHeader, Headers
<1>3. /\ NotCleaning \in [pc : {"idle", "info", "unregister", "forget"}, process : LoadedProcess,
                          found : Headers]
      /\ NotCleaning.pc = "idle" /\ NotCleaning.process.title = None /\ ~NotCleaning.process.ran
      /\ NotCleaning.found = NoHeader
  BY DEF NotCleaning, NoProcess, LoadedProcess, NoHeader, Headers
<1>4. /\ cache \in CacheStates /\ cache.handle = None /\ cache.file = cache.cookie
  BY <1>1 DEF CacheStates
<1>5. \A t \in Launchers : launch[t] = Idle
  OBVIOUS
<1>6. CacheTypes
  BY <1>2, <1>3, <1>4, NamesDiffer DEF CacheTypes
<1>7. HandlesOwned
  BY <1>2, <1>3, <1>5 DEF HandlesOwned, Busy, Cleans
<1>8. OneApplication
  <2>1. LaunchAlone /\ StartAlone /\ LaunchersAlone
    BY <1>2, <1>5 DEF LaunchAlone, StartAlone, LaunchersAlone, AppLaunch, InNoLaunch
  <2>2. ProcessAlone /\ MonitorAlone
    BY <1>3 DEF ProcessAlone, MonitorAlone
  <2>3. MenuAlone
    BY DEF MenuAlone, None
  <2> QED
    BY <2>1, <2>2, <2>3 DEF OneApplication
<1>9. CacheInv
  BY <1>1, <1>2, <1>4, <1>5, NamesDiffer DEF CacheInv, Handles
<1>10. HomebrewInv /\ ProgramsConsistent
  BY <1>3 DEF HomebrewInv, ProgramsConsistent, LoadedAsDescribed, HeaderAtEndIsThatAtStart
<1> QED
  BY <1>6, <1>7, <1>8, <1>9, <1>10 DEF LoaderInv

\* Every step keeps the invariant.
LEMMA LoaderNext ==
  ASSUME LoaderAssumption, OneLauncher, Settled, LoaderInv, [Next]_vars
  PROVE  LoaderInv'
<1>1. ASSUME NEW t \in Launchers, NEW title \in Programs, BeginLaunch(t, title) PROVE LoaderInv'
  BY <1>1, BeginLaunchKeeps
<1>2. ASSUME NEW t \in Launchers, NEW found \in BOOLEAN, Info(t, found) PROVE LoaderInv'
  BY <1>2, InfoKeeps
<1>3. ASSUME NEW t \in Launchers, Unregister(t) \/ Load(t) \/ LoadFails(t) \/ Run(t)
      PROVE  LoaderInv'
  BY <1>3, UnregisterKeeps, LoadKeeps, LoadFailsKeeps, RunKeeps
<1>4. ASSUME NEW title \in Apps, BeginQuery(title) PROVE LoaderInv'
  BY <1>4, BeginQueryKeeps
<1>5. ASSUME NEW p \in procs, MonitorTakes(p) PROVE LoaderInv'
  BY <1>5, MonitorTakesKeeps
<1>6. ASSUME NEW found \in BOOLEAN, MonitorInfo(found) PROVE LoaderInv'
  BY <1>6, MonitorInfoKeeps
<1>7. CASE MonitorUnregister \/ MonitorForgets
  BY <1>7, MonitorUnregisterKeeps, MonitorForgetsKeeps
<1>8. CASE AskApplication \/ SwitchBoot3dsxTargetTitle
  BY <1>8, AskApplicationKeeps, SwitchKeeps
<1>9. ASSUME NEW on \in BOOLEAN, ControlApplicationMemoryModeOverride(on) PROVE LoaderInv'
  BY <1>9, ControlKeeps
<1>10. CASE UNCHANGED vars
  <2> USE <1>10 DEF LoaderInv, vars, configVars
  <2>1. CacheTypes' /\ HandlesOwned'
    BY DEF CacheTypes, HandlesOwned, Busy, Cleans, TitleOf
  <2>2. OneApplication'
    BY DEF OneApplication, LaunchAlone, StartAlone, LaunchersAlone, ProcessAlone, MonitorAlone,
           MenuAlone, AppLaunch, IsApp, InNoLaunch, ApplicationUnderWay
  <2>3. CacheInv' /\ HomebrewInv'
    BY DEF CacheInv, HomebrewInv, IsApp, HeaderOf, TitleOf, hbldrIs3dsxTitle
  <2>4. ProgramsConsistent'
    BY DEF ProgramsConsistent, LoadedAsDescribed, HeaderAtEndIsThatAtStart
  <2> QED
    BY <2>1, <2>2, <2>3, <2>4
<1> QED
  BY <1>1, <1>2, <1>3, <1>4, <1>5, <1>6, <1>7, <1>8, <1>9, <1>10 DEF Next, Programs

(***************************************************************************)
(* What the loader puts in memory (loader.c, LoadProcess) is the header,   *)
(* the treatment as homebrew and the code of the program it was asked for, *)
(* and the end of an application (process_monitor.c) is handled by the     *)
(* header it was started with, whatever else asks the loader meanwhile: if *)
(* one thread at a time is in a launch and the title that stands for       *)
(* homebrew is switched only while no application is under way.            *)
(***************************************************************************)
THEOREM ProgramsAgree ==
  ASSUME LoaderAssumption, OneLauncher, Settled
  PROVE  Spec => []ProgramsConsistent
<1>1. LoaderInv => ProgramsConsistent
  BY DEF LoaderInv
<1> QED
  BY <1>1, LoaderInit, LoaderNext, PTL DEF Spec
=============================================================================
