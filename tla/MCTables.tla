------------------------------ MODULE MCTables ------------------------------
(* The larger instances, for safety: the server of the other modules'      *)
(* services, the contexts of the debugger's server, the table of sessions  *)
(* of the kernel extension, the program cache of the loader, the limits of *)
(* applications, what is booted, the socket server, the cheats.            *)
(* The parts do not interact: a behaviour is one of part, and leaves the   *)
(* others as they begin.                                                   *)
EXTENDS ServiceManager, Integers, TLC

CONSTANTS m1, m2, e1, e2, c1, c2

VARIABLES
  part,
  ctx, client, statusUpdated, statusUpdateReceived, shall_terminate,
  nextApplicationGdbCtx, monitor, socket, menu, proc,
  sessionInfos, live, custom, opened, thread, outcome,
  cache, memoryOverride, hbldr_3dsx_tid, selected_hbldr_3dsx_tid, registered, launch,
  procs, mon, runningApplicationData, switching, loaded,
  cpuTimeLimit, memoryLimit, schedMode, maxAppCpuTime, runningTitle, debugData,
  redirectAppThreads, disableThreadRedirection, th, ended, panicked,
  mcu, ini, pinFile, sdInserted, bootenv, deliverArg, version, b, running, origin,
  poll_fds, ctx_ptrs, nfds, compact_needed, context, used, open, serverThread, killer,
  sockTerminates, preTermination,
  title, cheats, cheatCount, cheatTitleInfo, file, vm

sessionVars == <<sessionInfos, live, custom, opened, thread, outcome>>
loaderVars == <<cache, memoryOverride, hbldr_3dsx_tid, selected_hbldr_3dsx_tid, registered,
                launch, procs, mon, runningApplicationData, switching, loaded>>
gdbVars == <<ctx, client, statusUpdated, statusUpdateReceived, shall_terminate,
             nextApplicationGdbCtx, monitor, socket, menu, proc>>
limitVars == <<cpuTimeLimit, memoryLimit, schedMode, maxAppCpuTime, runningTitle, debugData,
               redirectAppThreads, disableThreadRedirection, th, ended, panicked>>
bootVars == <<mcu, ini, pinFile, sdInserted, bootenv, deliverArg, version, b, running, origin>>
sockVars == <<poll_fds, ctx_ptrs, nfds, compact_needed, context, used, open, serverThread,
              killer, sockTerminates, preTermination>>
cheatVars == <<title, cheats, cheatCount, cheatTitleInfo, file, vm>>
tablesVars == <<part, vars, gdbVars, sessionVars, loaderVars, limitVars, bootVars, sockVars,
                cheatVars>>

\* Two services that share three clients, with contexts.
MCMaxSessions == [s \in {"one", "two"} |-> IF s = "one" THEN 2 ELSE 1]

\* One port and that of the next application.
Gdb == INSTANCE GdbServer WITH
  Ctxs <- {1, 2}, BasePorts <- {1}, NextPort <- 3, Procs <- {"p"}, NextApp <- "app",
  Prompt <- TRUE

\* Three addresses, a session of srv: and one of a service, two cores.
K11 == INSTANCE K11Sessions WITH
  Sessions <- 1 .. 3, Names <- {"srv:", "cfg:u"},
  Headers <- {"GetServiceHandle", "GetConfigInfoBlk2"}, Threads <- {"t1", "t2"},
  MAX_SESSION <- 3, PromptReuse <- FALSE, NoName <- "none"

\* Two modules and two applications, one of them for homebrew at first.
Loader == INSTANCE LoaderCache WITH
  Modules <- {m1, m2}, Apps <- {"hb", "x"}, DefaultHb <- "hb", Entries <- {e1, e2},
  OneLauncher <- TRUE, Settled <- TRUE, menu <- switching

\* A title for the New 3DS, one the table of shares lists, one that is forced
\* into the modes of the old console.
Title(cpuTime, multi, uid, n3ds, o3ds, flags) ==
  [cpuTime |-> cpuTime, multi |-> multi, titleUid |-> uid, n3dsSystemMode |-> n3ds,
   o3dsSystemMode |-> o3ds, flags |-> flags]
Limits == INSTANCE PmResLimit WITH
  Titles <- {"new", "listed", "forced"},
  Descriptor <- [t \in {"new", "listed", "forced"} |->
                   CASE t = "new" -> Title(30, TRUE, 9, "other", "prod", {})
                     [] t = "listed" -> Title(0, FALSE, 820, "prod", "dev2", {})
                     [] t = "forced" -> Title(0, FALSE, 9, "other", "dev1", {"o3ds", "max"})],
  Overrides <- <<[titleUid |-> 517, value |-> 10000], [titleUid |-> 820, value |-> 30],
                 [titleUid |-> 1378, value |-> 10000]>>,
  Values <- {0, 5, 30, 80}, DefaultMemory <- 124,
  Orderly <- TRUE, AlwaysRuns <- TRUE, Settled <- TRUE, None <- Null,
  runningApplicationData <- runningTitle

\* Two EmuNANDs; options that boot the NAND, or an EmuNAND that is not
\* there; buttons for one that is.
Option(autoBootEmu, defaultEmu, autobootMode, pin) ==
  [autoBootEmu |-> autoBootEmu, defaultEmu |-> defaultEmu, autobootMode |-> autobootMode,
   pin |-> pin]
Boots == INSTANCE Arm9Boot WITH
  Pads <- {{}, {"SELECT"}, {"L1", "DOWN"}, {"R1", "L1", "A", "UP"}},
  Options <- {Option(FALSE, 0, 2, 0), Option(TRUE, 3, 1, 1)},
  DefaultOptions <- Option(FALSE, 0, 2, 0), EmuNands <- {0, 2}, Versions <- {1, 2},
  Settled <- TRUE, None <- Null

\* Two ports with a client each.
Sock == INSTANCE SockServer WITH
  Listeners <- {1, 2}, Clients <- {c1, c2}, Fds <- 1 .. 5, MAX_CTXS <- 4,
  ClientsPerServer <- 1, AttachSucceeds <- TRUE,
  thread <- serverThread, shall_terminate <- sockTerminates

\* Two applications, and a file with a cheat of five lines or two of one line,
\* whose loops run once or twice.
Cheat == INSTANCE Cheats WITH
  Titles <- {"one", "two"}, NoTitle <- "none", HeaderSize <- 2, BufferSize <- 8, MaxText <- 8,
  CountMod <- 4, Counts <- {1, 2}, LoopLineMax <- 127, TypeELineMax <- 255, Careful <- TRUE

ASSUME TablesAssumption ==
  /\ K11!SessionsAssumption /\ Loader!LoaderAssumption /\ Gdb!GdbAssumption
  /\ Limits!LimitAssumption /\ Boots!BootAssumption /\ Sock!SockAssumption
  /\ Cheat!CheatsAssumption

TablesInit ==
  /\ part \in {"gdb", "sessions", "loader", "server", "limits", "boot", "sockets", "cheats"}
  /\ Init /\ K11!Init /\ Loader!Init /\ Gdb!Init /\ Limits!Init /\ Boots!Init
  /\ Sock!Init /\ Cheat!Init
  /\ part = "limits" \/ redirectAppThreads
  /\ part = "boot" \/ (sdInserted /\ version = 1)

TablesNext ==
  \/ /\ part = "server" /\ Next
     /\ UNCHANGED <<part, gdbVars, sessionVars, loaderVars, limitVars, bootVars,
                    sockVars, cheatVars>>
  \/ /\ part = "gdb" /\ Gdb!Next
     /\ UNCHANGED <<part, vars, sessionVars, loaderVars, limitVars, bootVars, sockVars,
                    cheatVars>>
  \/ /\ part = "sessions" /\ K11!Next
     /\ UNCHANGED <<part, vars, gdbVars, loaderVars, limitVars, bootVars, sockVars,
                    cheatVars>>
  \/ /\ part = "loader" /\ Loader!Next
     /\ UNCHANGED <<part, vars, gdbVars, sessionVars, limitVars, bootVars, sockVars,
                    cheatVars>>
  \/ /\ part = "limits" /\ Limits!Next
     /\ UNCHANGED <<part, vars, gdbVars, sessionVars, loaderVars, bootVars, sockVars,
                    cheatVars>>
  \/ /\ part = "boot" /\ Boots!Next
     /\ UNCHANGED <<part, vars, gdbVars, sessionVars, loaderVars, limitVars, sockVars,
                    cheatVars>>
  \/ /\ part = "sockets" /\ Sock!Next
     /\ UNCHANGED <<part, vars, gdbVars, sessionVars, loaderVars, limitVars, bootVars,
                    cheatVars>>
  \/ /\ part = "cheats" /\ Cheat!Next
     /\ UNCHANGED <<part, vars, gdbVars, sessionVars, loaderVars, limitVars, bootVars,
                    sockVars>>

TablesSpec == TablesInit /\ [][TablesNext]_tablesVars

\* A part that does not move is as it begins.
TableExact == part = "sessions" => K11!TableExact
ProgramsConsistent == part = "loader" => Loader!ProgramsConsistent
ContextsConsistent == part = "gdb" => Gdb!ContextsConsistent
LimitsFit == part = "limits" => Limits!LimitsFit
BootsAsExpected == [][Boots!StartsAsExpected]_bootVars

\* No step reads the last outcome, or by what name a session was opened that
\* exists no more.  The two threads are alike.
SessionsView == <<sessionInfos, live, custom, [s \in live |-> opened[s]],
                  {thread["t1"], thread["t2"]}>>

\* Nor what was loaded last or found at the end of a process, as long as it is
\* right, the handle of a process that is unregistered, a header without its
\* handle or a file.  Two modules
\* are alike, and two programs of Process9: the first is the one that is
\* found first in these places, then among the processes.
Places ==
  <<launch["srv"].title, launch["srv"].handle, launch["tasks"].title, launch["tasks"].handle,
    mon.process.handle, cache.handle, cache.cookie, cache.file, cache.ncch,
    cache.header.title, launch["srv"].header.title, launch["tasks"].header.title>>

LoaderView ==
  LET First(x, y, rest) == LET found == SelectSeq(Places, LAMBDA z : z = x \/ z = y)
                           IN IF found # <<>> THEN Head(found) ELSE rest
      Runs(x) == IF \E p \in procs : p.title = x \/ p.handle = x THEN 5 ELSE 0
      m == First(m1, m2, IF Runs(m1) = 5 THEN m1 ELSE m2)
      Of == [x \in {m1, m2} |-> IF x = m THEN m1 ELSE m2] @@ [x \in {"hb", "x", "none"} |-> x]
      Order(x) == Runs(x) + (CASE registered[x] = "none" -> 0 [] registered[x] = "hb" -> 1
                               [] registered[x] = "x" -> 2 [] registered[x] = m -> 3
                               [] OTHER -> 4)
      e == First(e1, e2, IF Order(e1) >= Order(e2) THEN e1 ELSE e2)
      To == [x \in {e1, e2} |-> IF x = e THEN e1 ELSE e2] @@ Of
      Now(l) == <<l.pc, Of[l.title], To[l.handle], Of[l.header.title], l.header.hb,
                  l.header.mode, l.app>>
  IN <<To[cache.handle],
       IF cache.handle = "none" THEN <<>>
         ELSE <<Of[cache.header.title], cache.header.hb, cache.header.mode>>,
       Of[cache.file], Of[cache.cookie], IF cache.file = "none" THEN 0 ELSE Of[cache.ncch],
       memoryOverride, hbldr_3dsx_tid, selected_hbldr_3dsx_tid,
       Of[registered[e]], Of[registered[IF e = e1 THEN e2 ELSE e1]],
       Now(launch["srv"]), Now(launch["tasks"]),
       {<<Of[p.title], To[p.handle], p.hb, p.ran>> : p \in procs}, mon.pc,
       mon.process.title \in {"hb", "x"}, mon.process.ran,
       IF mon.pc = "info" THEN mon.process.hb ELSE Loader!HeaderAtEndIsThatAtStart,
       IF mon.pc = "forget" THEN 0 ELSE To[mon.process.handle],
       runningApplicationData, switching, Loader!LoadedAsDescribed, Loader!LoaderRuns>>

\* Nor what ran before the power was cut.
BootView ==
  <<mcu, ini, pinFile, sdInserted, bootenv, deliverArg, version, b, origin,
    IF b.pc # "launched" /\ origin.how = "cold" THEN Boots!SysNand ELSE running>>

\* Nor what a context had that is not used, the events of a slot that was
\* visited, a slot that nobody reaches, or, once the server is to end, what is
\* open; and at the end only the contexts matter.  Two clients are alike.
Ends == serverThread.at \in {"finalize", "done"} /\ killer["server"].at = "none"
Reached(s) == s <= nfds \/ \E who \in {"server", "menu"} : s <= killer[who].n
ToVisit(s) ==
  serverThread.at \in {"visit", "closing", "accept", "alloc", "accepted"} /\ s >= serverThread.i

SockView ==
  LET found == SelectSeq(ctx_ptrs \o <<serverThread.ctx>>, LAMBDA x : x \in {c1, c2})
      c == IF found # <<>> THEN Head(found)
           ELSE IF (c1 \in used /\ c2 \notin used) \/ context[c1].i >= context[c2].i
             THEN c1 ELSE c2
      d == IF c = c1 THEN c2 ELSE c1
      Of(x) == IF x = c THEN c1 ELSE IF x = d THEN c2 ELSE x
      Kept(x) == IF Ends THEN <<context[x].i, context[x].type>>
                 ELSE IF x \in used \cup {1, 2} THEN context[x]
                 ELSE [Sock!FreshContext EXCEPT !.i = context[x].i]
  IN <<IF Ends THEN <<>>
       ELSE <<[s \in 1 .. 4 |->
                 [fd |-> IF Reached(s) THEN poll_fds[s].fd ELSE 0,
                  events |-> s <= nfds /\ poll_fds[s].events,
                  revents |-> IF s <= nfds /\ ToVisit(s) THEN poll_fds[s].revents ELSE "none"]],
              nfds, compact_needed, killer>>,
       [s \in 1 .. 4 |-> Of(ctx_ptrs[s])], Kept(1), Kept(2), Kept(c), Kept(d),
       c \in used, d \in used, used \cap {1, 2},
       IF Sock!server_should_exit THEN {} ELSE open, [serverThread EXCEPT !.ctx = Of(@)],
       sockTerminates, preTermination>>

\* Nor the lines of a cheat that no loop goes back to, but for those that
\* begin a block that is open; nor what was kept of a block that is closed.
\* The two titles are alike.
CheatsView ==
  LET here == Cheat!OpenHere
      Matters(l) ==
        l \in here \/ l > vm.index \/ (vm.loopLine # -1 /\ vm.loopCount > 1 /\ l > vm.loopLine)
      Of(t) == IF t = "none" THEN "none"
               ELSE IF t = (IF cheatTitleInfo # "none" THEN cheatTitleInfo ELSE title)
                 THEN "first" ELSE "other"
  IN <<Of(title), cheats, cheatCount, Of(cheatTitleInfo), file,
       [vm EXCEPT !.title = Of(@),
                  !.codes = [l \in 1 .. Len(@) |->
                               IF Matters(l) THEN @[l] ELSE Cheat!Line("plain")],
                  !.failed = @ \cap here, !.passes = @ - vm.promised, !.promised = 0,
                  !.storedStack = IF vm.loopLine = -1 THEN <<>> ELSE @,
                  !.storedIfCount = IF vm.loopLine = -1 THEN 0 ELSE @]>>

\* Only the part that moves.
TablesView ==
  <<part,
    CASE part = "gdb" -> gdbVars
      [] part = "sessions" -> SessionsView
      [] part = "loader" -> LoaderView
      [] part = "server" -> vars
      [] part = "limits" -> limitVars
      [] part = "boot" -> BootView
      [] part = "sockets" -> SockView
      [] part = "cheats" -> CheatsView>>
=============================================================================
