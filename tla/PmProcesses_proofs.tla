------------------------- MODULE PmProcesses_proofs -------------------------
(***************************************************************************)
(* The process list of pm is consistent with the free list, and no process *)
(* escapes the monitor, whatever the clients ask for, whatever fails and   *)
(* however the three threads interleave.                                   *)
(***************************************************************************)
EXTENDS PmProcesses, SmLists_proofs

-----------------------------------------------------------------------------
(* The inductive invariant *)

LoadingPcs == {"create", "setUp", "merge", "mark", "launched", "run", "cleanup"}
TitledPcs == LoadingPcs \cup {"lookUp", "found", "check", "waitGone"}
RebootOnlyPcs == {"listCaller", "notifyAll", "beginKips", "notifyKips", "rebooted"}
RebootPcs == RebootOnlyPcs \cup {"post", "begin", "commit", "wait", "waitForKilled", "end"}

\* No dependency has been merged.
Bare(r) ==
  r.dependencies = <<>> /\ r.depProcs = <<>> /\ r.remrefcounts = <<>> /\ r.i = 0

\* The local variables of a thread at its place: what is launched is a title,
\* and the three arrays of its dependencies have the same length.
Shape(r) ==
  /\ r.call \in Reboots => r.pc \in RebootPcs
  /\ r.pc \in RebootOnlyPcs => r.call \in Reboots
  /\ r.call \notin Reboots /\ r.pc \notin LoadingPcs => Bare(r)
  /\ r.pc \in LoadingPcs =>
       /\ Len(r.depProcs) = Len(r.dependencies)
       /\ Len(r.remrefcounts) = Len(r.dependencies)
       /\ r.i \in 0 .. Len(r.dependencies)
  /\ r.pc \in TitledPcs \/ (r.pc = "post" /\ r.call = "LaunchTitleAsync") => r.title \in Titles
  /\ r.pc = "setUp" => r.pid \in Pids

ThreadInv ==
  /\ \A t \in Threads : Shape(th[t])
  /\ posted # Null => Shape(posted)

\* The two lists share out the nodes, and what is listed is a process.
ListInv ==
  /\ Distinct(list) /\ Distinct(free)
  /\ Elements(list) \cap Elements(free) = {}
  /\ Elements(list) \cup Elements(free) = Nodes
  /\ \A n \in Elements(list) : proc[n].pid \in Pids /\ proc[n].title \in Titles

TypeInv == TypeOK /\ ThreadInv /\ ListInv

\* Only a process whose end a client is to be told of stays in the list when
\* the monitor has seen it end.
KeptInv ==
  \A n \in Listed : proc[n].status = "terminated" =>
    kernel[proc[n].pid] = "dead" /\ "notifyTerminated" \in proc[n].flags

EndedInv == mon.pc = "ended" => mon.id \in Pids /\ kernel[mon.id] = "dead"

Inv == TypeInv /\ KeptInv /\ EndedInv /\ EveryProcessIsWatched

-----------------------------------------------------------------------------
(* What most steps leave as it is, as far as the monitor is concerned *)

KeepsTrack(p, q) ==
  /\ q.pid = p.pid /\ q.title = p.title
  /\ "notifyTerminated" \in p.flags => "notifyTerminated" \in q.flags
  /\ q.status = "terminated" => p.status = "terminated"

\* No process comes, goes or is forgotten; while the monitor waits it keeps its
\* handles, the event stays signalled, and a thread that is about to signal it
\* is, or does.
Undisturbed ==
  /\ UNCHANGED <<list, free>>
  /\ \A n \in Nodes : KeepsTrack(proc[n], proc'[n])
  /\ \A p \in Pids : kernel[p] = "dead" => kernel'[p] = "dead"
  /\ mon'.pc = "ended" => mon'.id \in Pids /\ kernel'[mon'.id] = "dead"
  /\ mon'.pc \in {"signal", "wait"} =>
       /\ mon.pc \in {"signal", "wait"} /\ mon'.handles = mon.handles
       /\ g_manager.newProcessEvent => g_manager'.newProcessEvent
       /\ \A t \in Threads :
            th[t].pc = "setUp" => th'[t] = th[t] \/ g_manager'.newProcessEvent

(* Such a step preserves the invariant, once its types are shown.          *)
LEMMA UndisturbedPreserves ==
  ASSUME Inv, TypeOK', ThreadInv', Undisturbed
  PROVE  Inv'
<1> USE DEF Inv, TypeInv
<1>1. /\ proc \in [Nodes -> Processes] /\ proc' \in [Nodes -> Processes]
      /\ kernel \in [Pids -> {"none", "created", "running", "dead"}]
      /\ list \in Seq(Nodes)
  BY DEF TypeOK
<1>2. Listed = Elements(list) /\ Listed' = Listed /\ Listed \subseteq Nodes
  BY DEF Listed, Range, Elements, ListInv, Undisturbed
<1>3. ListInv'
  BY <1>1, <1>2 DEF ListInv, Undisturbed, KeepsTrack
<1>4. KeptInv'
  BY <1>1, <1>2 DEF KeptInv, Undisturbed, KeepsTrack, ListInv
<1>5. EndedInv'
  BY DEF EndedInv, Undisturbed
<1>6. EveryProcessIsWatched'
  <2> SUFFICES ASSUME mon'.pc \in {"signal", "wait"}, NEW n \in Listed, ToBeWatched(n)'
               PROVE  \/ proc'[n].pid \in mon'.handles
                      \/ g_manager'.newProcessEvent
                      \/ \E t \in Threads : th'[t].pc = "setUp" /\ LaunchedProcess(th'[t]) = n
    BY <1>2 DEF EveryProcessIsWatched
  <2>1. mon.pc \in {"signal", "wait"} /\ mon'.handles = mon.handles /\ n \in Nodes
    BY <1>2 DEF Undisturbed
  <2>2. proc'[n].pid = proc[n].pid /\ proc[n].pid \in Pids
    BY <1>2, <2>1 DEF Undisturbed, KeepsTrack, ListInv
  <2>3. ToBeWatched(n)
    BY <1>2, <2>1, <2>2 DEF Undisturbed, KeepsTrack, ToBeWatched, KeptInv
  <2>4. \/ proc[n].pid \in mon.handles
        \/ g_manager.newProcessEvent
        \/ \E t \in Threads : th[t].pc = "setUp" /\ LaunchedProcess(th[t]) = n
    BY <2>1, <2>3 DEF EveryProcessIsWatched
  <2> QED
    BY <2>1, <2>2, <2>4 DEF Undisturbed, LaunchedProcess
<1> QED
  BY <1>3, <1>4, <1>5, <1>6

-----------------------------------------------------------------------------
(* The threads *)

(* The thread that has nothing to do.                                      *)
LEMMA IdleTyped == Idle \in ThreadStates /\ Shape(Idle) /\ Idle.pc = "idle"
<1>1. <<>> \in Seq(Titles) /\ <<>> \in Seq(NodeOrNull) /\ <<>> \in Seq(Nat)
  OBVIOUS
<1>2. Null \in NodeOrNull /\ 0 \in 0 .. MaxPid
  BY PoolAssumption, TitlesAssumption DEF NodeOrNull
<1>3. Idle \in ThreadStates
  BY <1>1, <1>2 DEF Idle, ThreadStates, ThreadPcs
<1> QED
  BY <1>3, CommandsAssumption DEF Calls, Idle, Shape, Bare, Reboots, RebootOnlyPcs, RebootPcs, LoadingPcs, TitledPcs

(* A step of a thread to a state that is well shaped.                      *)
LEMMA StepTyped ==
  ASSUME TypeInv, NEW t \in Threads, NEW r \in ThreadStates, Shape(r), Step(t, r),
         UNCHANGED posted
  PROVE  /\ th' \in [Threads -> ThreadStates] /\ ThreadInv'
         /\ th'[t] = r
         /\ th[t].pc # "setUp" =>
              \A u \in Threads : th[u].pc = "setUp" => th'[u] = th[u]
  BY DEF TypeInv, TypeOK, ThreadInv, Step, Threads, vars

(* The call of a command.                                                  *)
LEMMA CallTyped ==
  ASSUME NEW c \in Commands, NEW pc \in ThreadPcs
  PROVE  /\ Call(c, pc) \in ThreadStates
         /\ Call(c, pc).pc = pc /\ Call(c, pc).call = c.call /\ Call(c, pc).title = c.title
         /\ Call(c, pc).flags = c.flags /\ Bare(Call(c, pc))
         /\ c.call \in Calls /\ c.title \in Titles \cup {Null} /\ c.flags \in SUBSET LaunchFlags
         /\ c.call \in Launches => c.title \in Titles
<1>1. c \in [call : Calls, title : Titles \cup {Null}, flags : SUBSET LaunchFlags, timeout : Int]
  BY CommandsAssumption
<1>2. c.call \in Calls /\ c.title \in Titles \cup {Null} /\ c.flags \in SUBSET LaunchFlags
      /\ c.timeout \in Int
  BY <1>1
<1>3. Call(c, pc) = [Idle EXCEPT !.pc = pc, !.call = c.call, !.title = c.title,
                                 !.flags = c.flags, !.timeout = c.timeout]
  BY DEF Call
<1>4. Idle \in ThreadStates
  BY IdleTyped
<1>5. /\ Call(c, pc) \in ThreadStates
      /\ Call(c, pc).pc = pc /\ Call(c, pc).call = c.call /\ Call(c, pc).title = c.title
      /\ Call(c, pc).flags = c.flags /\ Call(c, pc).i = Idle.i
      /\ Call(c, pc).dependencies = Idle.dependencies /\ Call(c, pc).depProcs = Idle.depProcs
      /\ Call(c, pc).remrefcounts = Idle.remrefcounts
  BY <1>2, <1>3, <1>4 DEF ThreadStates
<1>6. Bare(Call(c, pc))
  BY <1>5 DEF Bare, Idle
<1> QED
  BY <1>2, <1>5, <1>6, CommandsAssumption

-----------------------------------------------------------------------------
(* Processes *)

(* Notification 0x100 changes a status and leaves the rest.              *)
LEMMA NotifiedKeeps ==
  ASSUME NEW p \in Processes
  PROVE  Notified(p) \in Processes /\ KeepsTrack(p, Notified(p))
<1>1. PICK x \in {"sent", "failed"} : Notified(p) = [p EXCEPT !.status = x]
  BY DEF Notified
<1> QED
  BY <1>1 DEF Processes, KeepsTrack

(* Counting references leaves the rest of a process.                     *)
LEMMA IncrefKeeps ==
  ASSUME NEW p \in Processes, NEW amount, Incref(p, amount).refcount \in 0 .. 255
  PROVE  Incref(p, amount) \in Processes /\ KeepsTrack(p, Incref(p, amount))
<1>1. CASE "autoloaded" \in p.flags
  <2>1. PICK x : Incref(p, amount) = [p EXCEPT !.refcount = x]
    BY <1>1 DEF Incref
  <2> QED
    BY <2>1 DEF Processes, KeepsTrack
<1>2. CASE "autoloaded" \notin p.flags
  BY <1>2 DEF Incref, KeepsTrack
<1> QED
  BY <1>1, <1>2

(* A count of references that goes down stays a byte.                    *)
LEMMA DecrefKeeps ==
  ASSUME NEW p \in Processes
  PROVE  Decref(p) \in Processes /\ KeepsTrack(p, Decref(p))
<1>1. PICK x \in 0 .. 255 : Decref(p) = [p EXCEPT !.refcount = x]
  <2>1. Decref(p) = [p EXCEPT !.refcount = (p.refcount + 255) % 256] /\ p.refcount \in 0 .. 255
    BY DEF Decref, Processes
  <2>2. (p.refcount + 255) % 256 \in 0 .. 255
    BY <2>1
  <2> QED
    BY <2>1, <2>2
<1> QED
  BY <1>1 DEF Processes, KeepsTrack

(* Two changes of one process, one after the other.                      *)
LEMMA KeepsTrackTransitive ==
  ASSUME NEW p, NEW q, NEW r, KeepsTrack(p, q), KeepsTrack(q, r)
  PROVE  KeepsTrack(p, r)
  BY DEF KeepsTrack

(* The flags of a process that change: all but the one for the client.     *)
LEMMA FlagsKeep ==
  ASSUME NEW p \in Processes, NEW flags \in SUBSET ProcessFlags,
         "notifyTerminated" \in p.flags => "notifyTerminated" \in flags
  PROVE  /\ [p EXCEPT !.flags = flags] \in Processes
         /\ KeepsTrack(p, [p EXCEPT !.flags = flags])
  BY DEF Processes, KeepsTrack

KeepTrack(pr, new) ==
  new \in [Nodes -> Processes] /\ \A n \in Nodes : KeepsTrack(pr[n], new[n])

(* Two changes of the processes, one after the other.                    *)
LEMMA KeepTrackTransitive ==
  ASSUME NEW pr, NEW new, NEW newer, KeepTrack(pr, new), KeepTrack(new, newer)
  PROVE  KeepTrack(pr, newer)
  BY KeepsTrackTransitive DEF KeepTrack

(* No change.                                                            *)
LEMMA KeepTrackReflexive ==
  ASSUME NEW pr \in [Nodes -> Processes]
  PROVE  KeepTrack(pr, pr)
  BY DEF KeepTrack, KeepsTrack

(* A change of one process.                                              *)
LEMMA OneKeepsTrack ==
  ASSUME NEW pr \in [Nodes -> Processes], NEW n, NEW p,
         n \in Nodes => p \in Processes /\ KeepsTrack(pr[n], p)
  PROVE  KeepTrack(pr, [pr EXCEPT ![n] = p])
  BY DEF KeepTrack, KeepsTrack

(* Releasing dependencies changes their counts and their statuses.       *)
LEMMA ReleasedKeeps ==
  ASSUME NEW pr \in [Nodes -> Processes], NEW titles
  PROVE  KeepTrack(pr, Released(pr, titles))
<1> SUFFICES ASSUME NEW n \in Nodes
             PROVE  /\ Released(pr, titles)[n] \in Processes
                    /\ KeepsTrack(pr[n], Released(pr, titles)[n])
  BY DEF KeepTrack, Released
<1>1. pr[n] \in Processes /\ KeepsTrack(pr[n], pr[n])
  BY DEF KeepsTrack
<1>2. /\ Decref(pr[n]) \in Processes /\ KeepsTrack(pr[n], Decref(pr[n]))
      /\ Notified(Decref(pr[n])) \in Processes
      /\ KeepsTrack(pr[n], Notified(Decref(pr[n])))
  BY <1>1, DecrefKeeps, NotifiedKeeps, KeepsTrackTransitive
<1>3. Released(pr, titles)[n] \in {pr[n], Decref(pr[n]), Notified(Decref(pr[n]))}
  BY DEF Released
<1> QED
  BY <1>1, <1>2, <1>3

(* So does terminating a process with its dependencies.                  *)
LEMMA TerminatedKeeps ==
  ASSUME NEW pr \in [Nodes -> Processes], NEW n \in Nodes
  PROVE  KeepTrack(pr, Terminated(pr, n))
<1> DEFINE p == [pr[n] EXCEPT !.flags = @ \ {"dependenciesLoaded"}]
           told == [pr EXCEPT ![n] = Notified(p)]
<1>1. pr[n] \in Processes /\ pr[n].flags \in SUBSET ProcessFlags
  BY DEF Processes
<1>2. p \in Processes /\ KeepsTrack(pr[n], p)
  BY <1>1, FlagsKeep
<1>3. KeepTrack(pr, told)
  <2> HIDE DEF p
  <2>1. Notified(p) \in Processes /\ KeepsTrack(pr[n], Notified(p))
    BY <1>2, NotifiedKeeps, KeepsTrackTransitive
  <2> QED
    BY <2>1, OneKeepsTrack
<1>4. Terminated(pr, n) = told \/ Terminated(pr, n) = Released(told, Range(Deps[pr[n].title]))
  <2>1. Terminated(pr, n) = IF "dependenciesLoaded" \in pr[n].flags
                            THEN Released(told, Range(Deps[pr[n].title])) ELSE told
    BY DEF Terminated
  <2> HIDE DEF told
  <2> QED
    BY <2>1
<1>5. KeepTrack(told, Released(told, Range(Deps[pr[n].title])))
  <2> HIDE DEF told
  <2>1. told \in [Nodes -> Processes]
    BY <1>3 DEF KeepTrack
  <2> QED
    BY <2>1, ReleasedKeeps
<1> HIDE DEF told
<1> QED
  BY <1>3, <1>4, <1>5, KeepTrackTransitive

(* The kernel ends some processes: those that were dead are.               *)
LEMMA TerminateKeeps ==
  ASSUME TypeOK, NEW nodes
  PROVE  /\ Terminate(nodes) \in [Pids -> {"none", "created", "running", "dead"}]
         /\ \A p \in Pids : kernel[p] = "dead" => Terminate(nodes)[p] = "dead"
  BY DEF Terminate, TypeOK

(* Looking for a process finds one of the list, if any.                    *)
LEMMA FirstProperties ==
  ASSUME NEW positions, positions \subseteq DOMAIN list, list \in Seq(Nodes)
  PROVE  \/ positions = {} /\ First(positions) = Null
         \/ \E i \in positions : First(positions) = list[i]
<1>1. CASE positions # {}
  <2>1. positions \subseteq Nat
    BY LenProperties
  <2>2. PICK i \in positions : \A j \in positions : i <= j
    BY <1>1, <2>1, LeastNatural
  <2>3. (CHOOSE k \in positions : \A j \in positions : k <= j) \in positions
    BY <2>2
  <2> QED
    BY <1>1, <2>3 DEF First
<1> QED
  BY <1>1 DEF First

(* A search of the list finds a listed process that answers it, or none. *)
LEMMA ProcessFound ==
  ASSUME TypeOK, NEW x
  PROVE  /\ ProcessById(x) = Null \/ (/\ ProcessById(x) \in Listed
                                      /\ proc[ProcessById(x)].pid = x)
         /\ ProcessByTitleId(x) = Null \/ (/\ ProcessByTitleId(x) \in Listed
                                           /\ proc[ProcessByTitleId(x)].title = x)
         /\ Listed \subseteq Nodes /\ Listed = Elements(list) /\ Null \notin Nodes
<1>1. list \in Seq(Nodes)
  BY DEF TypeOK
<1>2. Listed \subseteq Nodes /\ Listed = Elements(list)
  BY <1>1 DEF Listed, Range, Elements
<1> DEFINE P == {i \in DOMAIN list : proc[list[i]].pid = x}
           T == {i \in DOMAIN list : proc[list[i]].title = x}
<1>3. P \subseteq DOMAIN list /\ T \subseteq DOMAIN list
  OBVIOUS
<1>4. First(P) = Null \/ \E i \in P : First(P) = list[i]
  BY <1>1, <1>3, FirstProperties
<1>5. First(T) = Null \/ \E i \in T : First(T) = list[i]
  BY <1>1, <1>3, FirstProperties
<1> QED
  BY <1>2, <1>4, <1>5, PoolAssumption DEF ProcessById, ProcessByTitleId, Elements

(* The lock.                                                               *)
Locks == [counter : Int, owner : Threads \cup {"mon", Null}]
(* A section keeps the type of the lock.                                 *)
LEMMA SectionTyped ==
  ASSUME TypeOK, NEW t \in Threads \cup {"mon"}, Section(t)
  PROVE  lock' \in Locks
  BY DEF TypeOK, Section, Locks

(* So does unlocking once too often.                                     *)
LEMMA StrayUnlocksTyped ==
  ASSUME TypeOK, NEW n \in Nat, StrayUnlocks(n)
  PROVE  lock' \in Locks
  BY DEF TypeOK, StrayUnlocks, Locks

-----------------------------------------------------------------------------
(* What a step of the two threads leaves                                   *)

KernelKept ==
  /\ kernel' \in [Pids -> {"none", "created", "running", "dead"}]
  /\ \A p \in Pids : kernel[p] = "dead" => kernel'[p] = "dead"
ManagerKept ==
  /\ g_manager' \in Managers /\ g_debugNextApplication' \in BOOLEAN
  /\ g_manager.newProcessEvent => g_manager'.newProcessEvent
ThreadsKept ==
  /\ th' \in [Threads -> ThreadStates] /\ posted' \in ThreadStates \cup {Null}
  /\ ThreadInv'
  /\ \A t \in Threads : th[t].pc = "setUp" => th'[t] = th[t] \/ g_manager'.newProcessEvent

(* The step of a thread that keeps track of the processes.               *)
LEMMA ThreadStep ==
  ASSUME Inv, UNCHANGED <<list, free, mon>>, KeepTrack(proc, proc'), KernelKept, ManagerKept,
         ThreadsKept, lock' \in Locks, registered' \subseteq Pids
  PROVE  Inv'
<1>1. TypeOK /\ TypeOK'
  BY DEF Inv, TypeInv, TypeOK, KeepTrack, KernelKept, ManagerKept, ThreadsKept, Locks
<1>2. mon'.pc = "ended" => mon'.id \in Pids /\ kernel'[mon'.id] = "dead"
  BY DEF Inv, EndedInv, KernelKept
<1>3. Undisturbed
  BY <1>2 DEF Undisturbed, KeepTrack, KernelKept, ManagerKept, ThreadsKept
<1> QED
  BY <1>1, <1>3, UndisturbedPreserves DEF ThreadsKept

(* What a step leaves alone is kept.                                     *)
LEMMA UnchangedKept ==
  ASSUME Inv
  PROVE  /\ UNCHANGED proc => KeepTrack(proc, proc')
         /\ UNCHANGED kernel => KernelKept
         /\ UNCHANGED <<g_manager, g_debugNextApplication>> => ManagerKept
         /\ UNCHANGED lock => lock' \in Locks
         /\ UNCHANGED registered => registered' \subseteq Pids
         /\ UNCHANGED <<th, posted>> => ThreadsKept
<1>1. TypeOK /\ ThreadInv
  BY DEF Inv, TypeInv
<1>2. UNCHANGED proc => KeepTrack(proc, proc')
  BY <1>1, KeepTrackReflexive DEF TypeOK
<1>3. UNCHANGED kernel => KernelKept
  BY <1>1 DEF TypeOK, KernelKept
<1>4. UNCHANGED <<g_manager, g_debugNextApplication>> => ManagerKept
  BY <1>1 DEF TypeOK, ManagerKept
<1>5. /\ UNCHANGED lock => lock' \in Locks
      /\ UNCHANGED registered => registered' \subseteq Pids
  BY <1>1 DEF TypeOK, Locks
<1>6. UNCHANGED <<th, posted>> => ThreadsKept
  BY <1>1 DEF TypeOK, ThreadsKept, ThreadInv
<1> QED
  BY <1>2, <1>3, <1>4, <1>5, <1>6

(* A step of a thread, which signals if it has set up a process.         *)
LEMMA StepKept ==
  ASSUME Inv, NEW t \in Threads, NEW r \in ThreadStates, Shape(r), Step(t, r),
         UNCHANGED posted, th[t].pc # "setUp" \/ g_manager'.newProcessEvent
  PROVE  ThreadsKept
<1>1. TypeInv /\ TypeOK
  BY DEF Inv, TypeInv
<1>2. /\ th' \in [Threads -> ThreadStates] /\ ThreadInv'
      /\ th[t].pc # "setUp" => \A u \in Threads : th[u].pc = "setUp" => th'[u] = th[u]
  BY <1>1, StepTyped
<1>3. \A u \in Threads : u # t => th'[u] = th[u]
  BY <1>1 DEF Step, TypeOK
<1> QED
  BY <1>1, <1>2, <1>3 DEF ThreadsKept, TypeOK

\* A step that touches the threads and the lock only.
LEMMA ThreadOnlyStep ==
  ASSUME Inv, UNCHANGED <<listVars, managerVars, mon, kernelVars>>, ThreadsKept,
         lock' \in Locks
  PROVE  Inv'
<1>1. /\ UNCHANGED <<list, free, mon>> /\ UNCHANGED proc /\ UNCHANGED kernel
      /\ UNCHANGED <<g_manager, g_debugNextApplication>> /\ UNCHANGED registered
  BY DEF listVars, managerVars, kernelVars
<1> QED
  BY <1>1, ThreadStep, UnchangedKept

(* A thread may return to its client at any place.                         *)
LEMMA IdleKept ==
  ASSUME Inv, NEW t \in Threads, Step(t, Idle), UNCHANGED posted,
         th[t].pc # "setUp" \/ g_manager'.newProcessEvent
  PROVE  ThreadsKept
  BY IdleTyped, StepKept

(* A call returns to its client.                                         *)
LEMMA ReturnKept ==
  ASSUME Inv, NEW t \in Threads, NEW ok, Return(t, ok), UNCHANGED posted,
         th[t].pc # "setUp" \/ g_manager'.newProcessEvent
  PROVE  ThreadsKept /\ g_debugNextApplication' \in BOOLEAN
<1>1. th[t] \in ThreadStates /\ g_debugNextApplication \in BOOLEAN
  BY DEF Inv, TypeInv, TypeOK
<1>2. th[t].prevdbg \in BOOLEAN
  BY <1>1 DEF ThreadStates
<1>3. g_debugNextApplication' \in BOOLEAN
  BY <1>1, <1>2 DEF Return
<1> QED
  BY <1>3, IdleKept DEF Return

-----------------------------------------------------------------------------
(* The commands *)

(* A command arrives at a service thread that has nothing to do.         *)
LEMMA ReceivedIdle ==
  ASSUME Inv, NEW c \in Commands, Receive(c)
  PROVE  th["srv"].pc = "idle" /\ "srv" \in Threads /\ th["srv"].pc # "setUp"
  BY IdleTyped DEF Receive, Threads

(* The launching commands only take the service thread to its next place.  *)
LEMMA CommandStep ==
  ASSUME Inv, NEW c \in Commands, Receive(c), NEW r \in ThreadStates, Shape(r),
         Step("srv", r), UNCHANGED posted
  PROVE  ThreadsKept
  BY ReceivedIdle, StepKept

(* Such a place is well shaped.                                            *)
LEMMA BareShape ==
  ASSUME NEW r \in ThreadStates, Bare(r), r.pc \notin {"setUp"} \cup RebootOnlyPcs,
         r.call \in Reboots => r.pc \in {"post", "begin"},
         r.title \in Titles \/ r.pc \notin TitledPcs \cup {"post"}
         \/ (r.pc = "post" /\ r.call # "LaunchTitleAsync")
  PROVE  Shape(r)
<1>1. Len(<<>>) = 0
  OBVIOUS
<1> QED
  BY <1>1 DEF Shape, Bare, RebootOnlyPcs, RebootPcs, LoadingPcs, TitledPcs

(* The commands that launch.                                               *)
LEMMA LaunchCommands ==
  ASSUME Inv, NEW c \in Commands,
         \/ LaunchApp(c) \/ LaunchTitle(c) \/ LaunchTitleUpdate(c)
         \/ LaunchAppDebug(c) \/ LaunchTitleDebug(c)
  PROVE  Inv'
<1> USE DEF Launching, managerVars, kernelVars, listVars
<1> DEFINE LCalls == Launches \cup {"LaunchTitleAsync", "LaunchAppDebug"}
           Pcs == {"lookUp", "check", "post", "runQueued"}
           Begins(r) == /\ r \in ThreadStates /\ Bare(r) /\ r.title = c.title
                        /\ r.pc \in Pcs /\ r.call \in LCalls
<1>1. c.call \in Launches /\ c.title \in Titles /\ c.flags \in SUBSET LaunchFlags
  <2>1. c.call \in Launches
    BY DEF LaunchApp, LaunchTitle, LaunchTitleUpdate, LaunchAppDebug, LaunchTitleDebug, Launches
  <2> QED
    BY <2>1, CallTyped DEF ThreadPcs
<1>2. TypeOK /\ g_debugNextApplication \in BOOLEAN
  BY DEF Inv, TypeInv, TypeOK
<1>3. \A pc \in Pcs : Begins(Call(c, pc)) /\ Call(c, pc).flags = c.flags /\ Call(c, pc).pc = pc
  BY <1>1, CallTyped DEF ThreadPcs
<1>4. \E r : Begins(r) /\ Step("srv", r)
  <2>1. \A q : \A call \in LCalls : \A flags \in SUBSET LaunchFlags : \A prevdbg \in BOOLEAN :
          Begins(q) =>
            /\ Begins([q EXCEPT !.call = call, !.flags = flags])
            /\ Begins([q EXCEPT !.flags = flags])
            /\ Begins([q EXCEPT !.call = call, !.flags = flags, !.prevdbg = prevdbg])
    <3> TAKE q
    <3> TAKE call \in LCalls
    <3> TAKE flags \in SUBSET LaunchFlags
    <3> TAKE prevdbg \in BOOLEAN
    <3> HAVE Begins(q)
    <3>1. call \in Calls \cup {"LaunchTitleAsync", "LaunchAppDebug"}
      BY DEF Calls
    <3> QED
      BY <3>1 DEF ThreadStates, Bare
  <2>2. CASE LaunchApp(c)
    <3>1. PICK q : q = Call(c, "lookUp")
      OBVIOUS
    <3>2. Step("srv", [q EXCEPT !.call = "LaunchTitle", !.flags = q.flags \cup {"app", "loadDeps"}])
      BY <2>2, <3>1 DEF LaunchApp
    <3>3. q.flags \cup {"app", "loadDeps"} \in SUBSET LaunchFlags /\ "LaunchTitle" \in LCalls /\ TRUE \in BOOLEAN
      BY <1>1, <1>3, <3>1 DEF LaunchFlags, Launches
    <3> HIDE DEF Begins, LCalls
    <3> QED
      BY <1>3, <2>1, <3>1, <3>2, <3>3
  <2>3. CASE LaunchTitle(c)
    BY <1>3, <2>3 DEF LaunchTitle
  <2>4. CASE LaunchTitleUpdate(c)
    <3>1. PICK flags \in SUBSET LaunchFlags :
            \/ Step("srv", [Call(c, "check") EXCEPT !.flags = flags])
            \/ Step("srv", [Call(c, "post") EXCEPT !.call = "LaunchTitleAsync", !.flags = flags])
      <4>1. /\ c.flags \cup {"update"} \cup {"queue"} \in SUBSET LaunchFlags
            /\ c.flags \cup {"update"} \cup {} \in SUBSET LaunchFlags
        BY <1>1 DEF LaunchFlags
      <4> QED
        BY <2>4, <4>1 DEF LaunchTitleUpdate
    <3>2. PICK q :
            /\ Begins(q)
            /\ \/ Step("srv", [q EXCEPT !.flags = flags])
               \/ Step("srv", [q EXCEPT !.call = "LaunchTitleAsync", !.flags = flags])
      BY <1>3, <3>1
    <3>3. "LaunchTitleAsync" \in LCalls /\ TRUE \in BOOLEAN
      OBVIOUS
    <3> HIDE DEF Begins, LCalls
    <3> QED
      BY <2>1, <3>2, <3>3
  <2>5. CASE LaunchAppDebug(c)
    <3>1. CASE g_manager.debugData # Null
      BY <1>3, <2>5, <3>1 DEF LaunchAppDebug
    <3>2. CASE g_manager.debugData = Null
      <4>1. PICK q : q = Call(c, "check")
        OBVIOUS
      <4>2. Step("srv", [q EXCEPT !.call = "LaunchAppDebug", !.flags = q.flags \ {"update"},
                                  !.prevdbg = g_debugNextApplication])
        BY <2>5, <3>2, <4>1 DEF LaunchAppDebug
      <4>3. q.flags \ {"update"} \in SUBSET LaunchFlags /\ "LaunchAppDebug" \in LCalls
        BY <1>1, <1>3, <4>1
      <4> HIDE DEF Begins, LCalls
      <4> QED
        BY <1>2, <1>3, <2>1, <4>1, <4>2, <4>3
    <3> QED
      BY <3>1, <3>2
  <2>6. CASE LaunchTitleDebug(c)
    <3>1. PICK pc \in Pcs : Step("srv", [Call(c, pc) EXCEPT !.flags = @ \ {"update"}])
      BY <2>6 DEF LaunchTitleDebug
    <3>2. PICK q : q = Call(c, pc)
      OBVIOUS
    <3>3. Step("srv", [q EXCEPT !.flags = q.flags \ {"update"}])
      BY <3>1, <3>2
    <3>4. q.flags \ {"update"} \in SUBSET LaunchFlags /\ "LaunchTitle" \in LCalls /\ TRUE \in BOOLEAN
      BY <1>1, <1>3, <3>2 DEF Launches
    <3> HIDE DEF Begins, LCalls
    <3> QED
      BY <1>3, <2>1, <3>2, <3>3, <3>4
  <2> QED
    BY <2>2, <2>3, <2>4, <2>5, <2>6
<1>5. PICK r : Begins(r) /\ Step("srv", r)
  BY <1>4
<1>6. r \in ThreadStates /\ Shape(r)
  BY <1>1, <1>5, BareShape DEF Reboots, RebootOnlyPcs, Launches
<1>7. Receive(c) /\ UNCHANGED <<listVars, posted, mon, kernelVars, g_manager>>
  BY DEF LaunchApp, LaunchTitle, LaunchTitleUpdate, LaunchAppDebug, LaunchTitleDebug
<1>8. lock' \in Locks
  <2>1. UNCHANGED lock \/ Section("srv")
    BY DEF LaunchApp, LaunchTitle, LaunchTitleUpdate, LaunchAppDebug, LaunchTitleDebug
  <2> QED
    BY <1>2, <2>1, SectionTyped, UnchangedKept DEF Threads
<1>9. g_debugNextApplication' \in BOOLEAN
  BY <1>2 DEF LaunchApp, LaunchTitle, LaunchTitleUpdate, LaunchAppDebug, LaunchTitleDebug
<1>10. ThreadsKept
  BY <1>5, <1>6, <1>7, CommandStep
<1>11. ManagerKept
  BY <1>2, <1>7, <1>9 DEF ManagerKept, TypeOK
<1>12. UNCHANGED proc /\ UNCHANGED kernel /\ UNCHANGED registered /\ UNCHANGED <<list, free, mon>>
  BY <1>7
<1> QED
  BY <1>8, <1>10, <1>11, <1>12, ThreadStep, UnchangedKept

(* The commands that terminate.                                            *)
LEMMA TerminationCommands ==
  ASSUME Inv, NEW c \in Commands,
         \/ TerminateApplication(c) \/ TerminateTitle(c) \/ TerminateTitleDuringReboot(c)
         \/ PrepareForReboot(c) \/ LaunchFirm(c) \/ ChainloadHomebrewDirty(c)
  PROVE  Inv'
<1> USE DEF managerVars, kernelVars, listVars
<1>1. TypeOK /\ g_manager \in Managers /\ g_debugNextApplication \in BOOLEAN
  BY DEF Inv, TypeInv, TypeOK
<1>2. Receive(c) /\ UNCHANGED <<listVars, posted, mon, registered, g_debugNextApplication>>
  BY DEF TerminateApplication, TerminateTitle, TerminateTitleDuringReboot,
         PrepareForReboot, LaunchFirm, ChainloadHomebrewDirty
<1>3. lock' \in Locks
  <2>1. UNCHANGED lock \/ Section("srv")
    BY DEF TerminateApplication, TerminateTitle, TerminateTitleDuringReboot,
           PrepareForReboot, LaunchFirm, ChainloadHomebrewDirty
  <2> QED
    BY <1>1, <2>1, SectionTyped, UnchangedKept DEF Threads
<1>4. ManagerKept
  BY <1>1, <1>2 DEF ManagerKept, Managers, TerminateApplication, TerminateTitle,
     TerminateTitleDuringReboot, PrepareForReboot, LaunchFirm, ChainloadHomebrewDirty
<1>5. KernelKept
  <2>1. UNCHANGED kernel \/ \E nodes : kernel' = Terminate(nodes)
    BY DEF TerminateApplication, TerminateTitle, TerminateTitleDuringReboot,
           PrepareForReboot, LaunchFirm, ChainloadHomebrewDirty
  <2> QED
    BY <1>1, <2>1, TerminateKeeps, UnchangedKept DEF KernelKept
<1>6. ThreadsKept
  <2>1. CASE TerminateTitleDuringReboot(c)
    BY <2>1, UnchangedKept DEF TerminateTitleDuringReboot
  <2>2. CASE ~TerminateTitleDuringReboot(c)
    <3>1. /\ c.call \in Reboots \cup {"TerminateApplication", "TerminateTitle",
                                      "ChainloadHomebrewDirty"}
          /\ \E pc \in {"begin", "post"} : /\ Step("srv", Call(c, pc))
                                           /\ c.call \in Reboots => pc = "post"
      BY <2>2 DEF TerminateApplication, TerminateTitle, PrepareForReboot, LaunchFirm,
                  ChainloadHomebrewDirty, Reboots
    <3>2. PICK pc \in {"begin", "post"} : Step("srv", Call(c, pc))
      BY <3>1
    <3>3. PICK r : r = Call(c, pc)
      OBVIOUS
    <3>4. r \in ThreadStates /\ Bare(r) /\ r.pc = pc /\ r.call = c.call
      BY <3>3, CallTyped DEF ThreadPcs
    <3>5. Shape(r)
      BY <3>1, <3>4, BareShape DEF Reboots, RebootOnlyPcs, TitledPcs, LoadingPcs
    <3> QED
      BY <1>2, <3>2, <3>3, <3>4, <3>5, CommandStep
  <2> QED
    BY <2>1, <2>2
<1>7. UNCHANGED proc /\ UNCHANGED registered /\ UNCHANGED <<list, free, mon>>
  BY <1>2
<1>8. KeepTrack(proc, proc') /\ registered' \subseteq Pids
  BY <1>7, UnchangedKept
<1> QED
  BY <1>3, <1>4, <1>5, <1>6, <1>7, <1>8, ThreadStep

(* A process that waits for its debugger is run.                           *)
LEMMA RunQueuedStep ==
  ASSUME Inv, NEW t \in Threads, NEW returns, RunQueued(t, returns), ThreadsKept
  PROVE  Inv'
<1> USE DEF managerVars, kernelVars, listVars
<1> DEFINE n == g_manager.debugData
           nothing == n = Null \/ ("app" \in proc[n].flags /\ g_manager.runningApplicationData # Null)
<1>1. /\ TypeOK /\ g_manager \in Managers /\ g_debugNextApplication \in BOOLEAN
      /\ proc \in [Nodes -> Processes]
      /\ kernel \in [Pids -> {"none", "created", "running", "dead"}]
  BY DEF Inv, TypeInv, TypeOK
<1>2. UNCHANGED <<list, free, g_debugNextApplication, posted, mon, registered>>
  BY DEF RunQueued
<1>3. lock' \in Locks
  BY <1>1, SectionTyped DEF RunQueued
<1>4. n \in NodeOrNull /\ (~nothing => n \in Nodes)
  BY <1>1 DEF Managers, NodeOrNull
<1>5. ManagerKept
  <2>1. \/ UNCHANGED g_manager
        \/ \E x \in NodeOrNull : g_manager' = [g_manager EXCEPT !.debugData = Null,
                                                 !.runningApplicationData = x]
        \/ g_manager' = [g_manager EXCEPT !.debugData = Null]
    <3>1. g_manager.runningApplicationData \in NodeOrNull
      BY <1>1 DEF Managers
    <3> QED
      BY <1>4, <3>1 DEF RunQueued
  <2> QED
    BY <1>1, <1>2, <2>1, ZenonT(60) DEF ManagerKept, Managers, NodeOrNull
<1>6. KernelKept
  <2>1. \/ UNCHANGED kernel
        \/ kernel' = Terminate({n})
        \/ Runs(n) /\ kernel' = [kernel EXCEPT ![proc[n].pid] = "running"]
    BY DEF RunQueued
  <2> QED
    BY <1>1, <2>1, TerminateKeeps, UnchangedKept DEF KernelKept, Runs
<1>7. KeepTrack(proc, proc')
  <2>1. CASE UNCHANGED proc
    BY <2>1, UnchangedKept
  <2>2. CASE ~nothing /\ proc' = [proc EXCEPT ![n].flags = @ \ {"notify"}]
    <3>1. n \in Nodes /\ proc[n] \in Processes /\ proc[n].flags \in SUBSET ProcessFlags
      BY <1>1, <1>4, <2>2 DEF Processes
    <3>2. PICK p : p = [proc[n] EXCEPT !.flags = proc[n].flags \ {"notify"}]
      OBVIOUS
    <3>3. p \in Processes /\ KeepsTrack(proc[n], p)
      BY <3>1, <3>2, FlagsKeep
    <3>4. proc' = [proc EXCEPT ![n] = p]
      BY <1>1, <2>2, <3>1, <3>2
    <3> QED
      BY <1>1, <3>3, <3>4, OneKeepsTrack
  <2> QED
    BY <2>1, <2>2 DEF RunQueued
<1>8. registered' \subseteq Pids
  BY <1>2, UnchangedKept
<1> QED
  BY <1>2, <1>3, <1>5, <1>6, <1>7, <1>8, ThreadStep

(* The commands of pm:dbg that terminate and launch nothing.             *)
LEMMA DebugCommands ==
  ASSUME Inv, NEW c \in Commands, RunQueuedProcess(c) \/ DebugNextApplicationByForce(c)
  PROVE  Inv'
<1>1. CASE RunQueuedProcess(c)
  <2>1. UNCHANGED <<th, posted>>
    BY <1>1 DEF RunQueuedProcess, RunQueued
  <2> QED
    BY <1>1, <2>1, UnchangedKept, RunQueuedStep DEF RunQueuedProcess, Threads
<1>2. CASE DebugNextApplicationByForce(c)
  <2>1. UNCHANGED <<th, posted>> /\ UNCHANGED <<list, free, mon>> /\ UNCHANGED proc
        /\ UNCHANGED kernel /\ UNCHANGED registered /\ UNCHANGED lock
    BY <1>2 DEF DebugNextApplicationByForce, listVars, kernelVars
  <2>2. ManagerKept
    BY <1>2 DEF DebugNextApplicationByForce, ManagerKept, Inv, TypeInv, TypeOK
  <2> QED
    BY <2>1, <2>2, UnchangedKept, ThreadStep
<1> QED
  BY <1>1, <1>2

(* A node goes from the list to the free list.                             *)
LEMMA Deleted ==
  ASSUME Inv, NEW n \in Listed, Delete(n)
  PROVE  /\ list' \in Seq(Nodes) /\ free' \in Seq(Nodes)
         /\ Distinct(list') /\ Distinct(free')
         /\ Elements(list') = Elements(list) \ {n}
         /\ Elements(free') = Elements(free) \cup {n}
         /\ Elements(list') \cap Elements(free') = {}
         /\ Elements(list') \cup Elements(free') = Nodes
<1>1. /\ list \in Seq(Nodes) /\ free \in Seq(Nodes) /\ Distinct(list) /\ Distinct(free)
      /\ Elements(list) \cap Elements(free) = {} /\ Elements(list) \cup Elements(free) = Nodes
      /\ Listed = Elements(list)
  BY DEF Inv, TypeInv, TypeOK, ListInv, Listed, Range, Elements
<1>2. /\ list' \in Seq(Nodes) /\ Distinct(list') /\ Elements(list') = Elements(list) \ {n}
  BY <1>1, WithoutProperties DEF Delete
<1>3. n \in Nodes /\ n \notin Elements(free)
  BY <1>1
<1>4. free' \in Seq(Nodes) /\ Distinct(free') /\ Elements(free') = Elements(free) \cup {n}
  <2>1. CASE free = <<>>
    <3>1. free' = <<n>> /\ Elements(free) = {}
      BY <2>1 DEF Delete, Elements
    <3> QED
      BY <1>3, <3>1, ElementsOfSingle
  <2>2. CASE free # <<>>
    <3>1. PICK h, t : h = Head(free) /\ t = Tail(free)
      OBVIOUS
    <3>2. h \in Nodes /\ t \in Seq(Nodes)
      BY <1>1, <2>2, <3>1, HeadTailProperties
    <3>3. /\ Elements(free) = {h} \cup Elements(t)
          /\ Distinct(t) /\ h \notin Elements(t)
      BY <1>1, <2>2, <3>1, HeadAndTail
    <3>4. free' = <<h, n>> \o t
      BY <2>2, <3>1 DEF Delete
    <3>5. <<h, n>> \in Seq(Nodes) /\ Elements(<<h, n>>) = {h, n} /\ Distinct(<<h, n>>)
      <4>1. <<h, n>> \in Seq(Nodes)
        BY <1>3, <3>2
      <4>2. h # n
        BY <1>3, <3>3
      <4> QED
        BY <4>1, <4>2 DEF Elements, Distinct
    <3>6. <<h, n>> \o t \in Seq(Nodes)
      BY <3>2, <3>5, ConcatProperties
    <3>7. Elements(<<h, n>> \o t) = {h, n} \cup Elements(t)
      <4>1. PICK s : s = <<h, n>>
        OBVIOUS
      <4>2. Elements(s \o t) = Elements(s) \cup Elements(t)
        BY <3>2, <3>5, <4>1, ElementsOfConcat, ZenonT(60)
      <4> QED
        BY <3>5, <4>1, <4>2
    <3>8. Distinct(<<h, n>> \o t)
      <4>1. {h, n} \cap Elements(t) = {}
        BY <1>3, <3>3
      <4> QED
        BY <3>2, <3>3, <3>5, <4>1, DistinctConcat
    <3> QED
      BY <3>3, <3>4, <3>6, <3>7, <3>8
  <2> QED
    BY <2>1, <2>2
<1> QED
  BY <1>1, <1>2, <1>3, <1>4

(* The client was told of the end of a process, which leaves the list.     *)
LEMMA UnregisterStep ==
  ASSUME Inv, NEW c \in Commands, UnregisterProcess(c)
  PROVE  Inv'
<1>1. TypeOK /\ ThreadInv /\ ListInv /\ KeptInv /\ EndedInv /\ EveryProcessIsWatched
  BY DEF Inv, TypeInv
<1>2. PICK n : n = ProcessByTitleId(c.title) /\ n # Null /\ Delete(n)
               /\ \E x, y \in NodeOrNull :
                    g_manager' = [g_manager EXCEPT !.runningApplicationData = x, !.debugData = y]
  <2>1. /\ g_manager.runningApplicationData \in NodeOrNull /\ g_manager.debugData \in NodeOrNull
        /\ Null \in NodeOrNull
    BY <1>1 DEF TypeOK, Managers, NodeOrNull
  <2> QED
    BY <2>1 DEF UnregisterProcess
<1>3. n \in Listed /\ Listed = Elements(list)
  BY <1>1, <1>2, ProcessFound
<1>4. /\ list' \in Seq(Nodes) /\ free' \in Seq(Nodes)
      /\ Distinct(list') /\ Distinct(free')
      /\ Elements(list') = Elements(list) \ {n}
      /\ Elements(list') \cap Elements(free') = {}
      /\ Elements(list') \cup Elements(free') = Nodes
  BY <1>2, <1>3, Deleted
<1>5. Listed' = Elements(list') /\ Listed' \subseteq Listed
  BY <1>3, <1>4 DEF Listed, Range, Elements
<1>6. /\ UNCHANGED <<proc, g_debugNextApplication, posted, th, mon, kernel, registered>>
      /\ g_manager' \in Managers /\ g_manager'.newProcessEvent = g_manager.newProcessEvent
      /\ lock' \in Locks
  <2>1. /\ UNCHANGED <<proc, g_debugNextApplication, posted, th, mon, kernel, registered>>
        /\ Section("srv")
    BY DEF UnregisterProcess, kernelVars
  <2>2. lock' \in Locks
    BY <1>1, <2>1, SectionTyped DEF Threads
  <2> QED
    BY <1>1, <1>2, <2>1, <2>2 DEF Managers, TypeOK
<1>7. TypeOK'
  BY <1>1, <1>4, <1>6 DEF TypeOK, Locks
<1>8. ThreadInv' /\ EndedInv'
  BY <1>1, <1>6 DEF ThreadInv, EndedInv
<1>9. ListInv'
  BY <1>1, <1>4, <1>6 DEF ListInv
<1>10. KeptInv'
  BY <1>1, <1>5, <1>6 DEF KeptInv
<1>11. EveryProcessIsWatched'
  BY <1>1, <1>5, <1>6 DEF EveryProcessIsWatched, ToBeWatched, LaunchedProcess
<1> QED
  BY <1>7, <1>8, <1>9, <1>10, <1>11 DEF Inv, TypeInv

-----------------------------------------------------------------------------
(* Launching *)

(* A thread that goes to its next place, and what of it does not change.   *)
LEMMA GotoTyped ==
  ASSUME NEW r \in ThreadStates, NEW pc \in ThreadPcs
  PROVE  LET q == [r EXCEPT !.pc = pc] IN
         /\ q \in ThreadStates /\ q.pc = pc
         /\ q.call = r.call /\ q.title = r.title /\ q.flags = r.flags
         /\ q.i = r.i /\ q.dependencies = r.dependencies /\ q.depProcs = r.depProcs
         /\ q.remrefcounts = r.remrefcounts /\ q.pid = r.pid
         /\ q.process = r.process /\ q.dep = r.dep
  BY DEF ThreadStates

(* What the types and shapes say of one thread.                          *)
LEMMA ThreadTyped ==
  ASSUME Inv, NEW t \in Threads
  PROVE  /\ th[t] \in ThreadStates /\ Shape(th[t])
         /\ th[t].call \in Calls \cup {"LaunchTitleAsync", "LaunchAppDebug", Null}
         /\ th[t].title \in Titles \cup {Null} /\ th[t].flags \in SUBSET LaunchFlags
         /\ th[t].process \in NodeOrNull /\ th[t].dep \in NodeOrNull /\ th[t].pid \in 0 .. MaxPid
         /\ th[t].dependencies \in Seq(Titles) /\ th[t].depProcs \in Seq(NodeOrNull)
         /\ th[t].remrefcounts \in Seq(Nat) /\ th[t].i \in Nat /\ th[t].timeout \in Int
<1>1. th[t] \in ThreadStates /\ Shape(th[t])
  BY DEF Inv, TypeInv, TypeOK, ThreadInv
<1> QED
  BY <1>1 DEF ThreadStates

(* Steps of a launch that only move the thread, and may take the lock.     *)
LEMMA MovingLaunch ==
  ASSUME Inv, NEW t \in Threads,
         LookUp(t) \/ CheckApplication(t) \/ RegisterProgramFails(t) \/ LoadProcessFails(t)
  PROVE  /\ UNCHANGED <<list, free, mon>> /\ UNCHANGED proc /\ UNCHANGED kernel
         /\ UNCHANGED registered /\ UNCHANGED posted /\ UNCHANGED g_manager
         /\ lock' \in Locks /\ th[t].pc # "setUp"
<1>1. TypeOK /\ 1 \in Nat /\ t \in Threads \cup {"mon"}
  BY DEF Inv, TypeInv
<1>2. UNCHANGED lock \/ Section(t) \/ StrayUnlocks(1)
  BY DEF LookUp, CheckApplication, RegisterProgramFails, LoadProcessFails
<1>3. lock' \in Locks
  BY <1>1, <1>2, SectionTyped, StrayUnlocksTyped, UnchangedKept
<1> QED
  BY <1>3 DEF LookUp, CheckApplication, RegisterProgramFails, LoadProcessFails, listVars, kernelVars

(* A step that moves a thread and changes no process.                    *)
LEMMA MovingStep ==
  ASSUME Inv, UNCHANGED <<list, free, mon>>, UNCHANGED proc, UNCHANGED kernel,
         UNCHANGED registered, UNCHANGED g_manager, lock' \in Locks,
         ThreadsKept, g_debugNextApplication' \in BOOLEAN
  PROVE  Inv'
<1>1. ManagerKept
  BY DEF ManagerKept, Inv, TypeInv, TypeOK
<1> QED
  BY <1>1, ThreadStep, UnchangedKept

(* A launch looks for a running process of the title.                    *)
LEMMA LookUpStep ==
  ASSUME Inv, NEW t \in Threads, LookUp(t)
  PROVE  Inv'
<1> DEFINE r == th[t]
           flags == (r.flags \ {"update"}) \cup
                      (IF g_debugNextApplication /\ "app" \in r.flags THEN {"queue"} ELSE {})
           found == ProcessByTitleId(r.title)
<1>1. /\ UNCHANGED <<list, free, mon>> /\ UNCHANGED proc /\ UNCHANGED kernel
      /\ UNCHANGED registered /\ UNCHANGED posted /\ UNCHANGED g_manager
      /\ lock' \in Locks /\ th[t].pc # "setUp"
  BY MovingLaunch
<1>2. CASE Return(t, FALSE)
  BY <1>1, <1>2, ReturnKept, MovingStep
<1>3. CASE \E pc \in {"found", "post", "check"} :
             \E call \in {r.call, "LaunchTitleAsync"} :
               /\ Step(t, [r EXCEPT !.flags = flags, !.process = found, !.pc = pc, !.call = call])
               /\ UNCHANGED g_debugNextApplication
               /\ r.pc = "lookUp"
  <2>1. PICK pc \in {"found", "post", "check"}, call \in {r.call, "LaunchTitleAsync"} :
          /\ Step(t, [r EXCEPT !.flags = flags, !.process = found, !.pc = pc, !.call = call])
          /\ UNCHANGED g_debugNextApplication
          /\ r.pc = "lookUp"
    BY <1>3
  <2>2. r \in ThreadStates /\ Shape(r) /\ r.flags \in SUBSET LaunchFlags
        /\ r.call \in Calls \cup {"LaunchTitleAsync", "LaunchAppDebug", Null}
    BY ThreadTyped
  <2>3. r.call \notin Reboots /\ r.title \in Titles /\ Bare(r)
    BY <2>1, <2>2 DEF Shape, RebootPcs, RebootOnlyPcs, LoadingPcs, TitledPcs
  <2>4. flags \in SUBSET LaunchFlags
    BY <2>2 DEF LaunchFlags
  <2>5. found \in NodeOrNull
    BY ProcessFound DEF NodeOrNull, Inv, TypeInv
  <2>6. PICK q : q = [r EXCEPT !.flags = flags, !.process = found, !.pc = pc, !.call = call]
    OBVIOUS
  <2> HIDE DEF r, flags, found
  <2>7. /\ q \in ThreadStates /\ q.pc = pc /\ q.call \notin Reboots
        /\ q.title = r.title /\ Bare(q)
    BY <2>2, <2>3, <2>4, <2>5, <2>6, ZenonT(60) DEF ThreadStates, ThreadPcs, Bare, Calls, Reboots
  <2>8. Shape(q)
    BY <2>3, <2>7, BareShape DEF RebootOnlyPcs
  <2>9. ThreadsKept
    BY <1>1, <2>1, <2>6, <2>7, <2>8, StepKept DEF r
  <2>10. g_debugNextApplication' \in BOOLEAN
    BY <2>1 DEF Inv, TypeInv, TypeOK
  <2> QED
    BY <1>1, <2>9, <2>10, MovingStep
<1> QED
  BY <1>2, <1>3 DEF LookUp

(* The tests of launchTitleImplWrapper, and the places after them.         *)
LEMMA CheckStep ==
  ASSUME Inv, NEW t \in Threads, CheckApplication(t)
  PROVE  Inv'
<1>1. /\ UNCHANGED <<list, free, mon>> /\ UNCHANGED proc /\ UNCHANGED kernel
      /\ UNCHANGED registered /\ UNCHANGED posted /\ UNCHANGED g_manager
      /\ lock' \in Locks /\ th[t].pc # "setUp"
  BY MovingLaunch
<1>2. CASE Return(t, FALSE)
  BY <1>1, <1>2, ReturnKept, MovingStep
<1>3. CASE ~Return(t, FALSE)
  <2>1. PICK r : r = th[t]
    OBVIOUS
  <2>2. /\ r \in ThreadStates /\ Shape(r) /\ r.flags \in SUBSET LaunchFlags
        /\ r.pc = "check" /\ UNCHANGED g_debugNextApplication
    BY <1>3, <2>1, ThreadTyped DEF CheckApplication
  <2>3. PICK flags \in SUBSET LaunchFlags :
          Step(t, [r EXCEPT !.pc = "create", !.flags = flags])
    <3>1. \/ Step(t, [r EXCEPT !.pc = "create", !.flags = r.flags \cup {"loadDeps"}])
          \/ Step(t, [r EXCEPT !.pc = "create", !.flags = r.flags \ {"update"}])
      BY <1>3, <2>1 DEF CheckApplication
    <3>2. r.flags \cup {"loadDeps"} \in SUBSET LaunchFlags /\ r.flags \ {"update"} \in SUBSET LaunchFlags
      BY <2>2 DEF LaunchFlags
    <3> QED
      BY <3>1, <3>2
  <2>4. PICK q : q = [r EXCEPT !.pc = "create", !.flags = flags]
    OBVIOUS
  <2>5. r.call \notin Reboots /\ r.title \in Titles /\ Bare(r)
    BY <2>2 DEF Shape, RebootPcs, RebootOnlyPcs, LoadingPcs, TitledPcs
  <2>6. /\ q \in ThreadStates /\ q.pc = "create" /\ q.call \notin Reboots /\ q.title \in Titles
        /\ Bare(q)
    BY <2>2, <2>4, <2>5 DEF ThreadStates, ThreadPcs, Bare
  <2>7. Shape(q)
    BY <2>6, BareShape DEF RebootOnlyPcs
  <2>8. ThreadsKept
    BY <1>1, <2>3, <2>4, <2>6, <2>7, StepKept
  <2>9. g_debugNextApplication' \in BOOLEAN
    BY <2>2 DEF Inv, TypeInv, TypeOK
  <2> QED
    BY <1>1, <2>8, <2>9, MovingStep
<1> QED
  BY <1>2, <1>3

(* The loop over the dependencies goes on with one of them, or ends.       *)
LEMMA NextDependencyTyped ==
  ASSUME NEW r \in ThreadStates, r.call \notin Reboots, r.title \in Titles,
         Len(r.depProcs) = Len(r.dependencies), Len(r.remrefcounts) = Len(r.dependencies)
  PROVE  NextDependency(r) \in ThreadStates /\ Shape(NextDependency(r))
<1> DEFINE left == {j \in r.i + 1 .. Len(r.dependencies) : r.depProcs[j] = Null}
           next == CHOOSE j \in left : \A k \in left : j <= k
<1>1. r.i \in Nat /\ Len(r.dependencies) \in Nat
  BY LenProperties DEF ThreadStates
<1>2. CASE left # {}
  <2>1. left \subseteq Nat
    BY <1>1
  <2>2. PICK j \in left : \A k \in left : j <= k
    BY <1>2, <2>1, LeastNatural
  <2>3. next \in left
    BY <2>2
  <2>4. next \in Nat /\ next \in 0 .. Len(r.dependencies)
    BY <1>1, <2>3
  <2>5. NextDependency(r) = [r EXCEPT !.pc = "create", !.i = next]
    BY <1>2 DEF NextDependency
  <2> HIDE DEF next, left
  <2>6. PICK q : q = NextDependency(r)
    OBVIOUS
  <2>7. /\ q \in ThreadStates /\ q.pc = "create" /\ q.i = next
        /\ q.call = r.call /\ q.title = r.title /\ q.dependencies = r.dependencies
        /\ q.depProcs = r.depProcs /\ q.remrefcounts = r.remrefcounts
    BY <2>4, <2>5, <2>6 DEF ThreadStates, ThreadPcs
  <2>8. Shape(q)
    BY <2>4, <2>7 DEF Shape, LoadingPcs, RebootOnlyPcs
  <2> QED
    BY <2>6, <2>7, <2>8
<1>3. CASE left = {}
  <2>1. PICK pc \in {"cleanup", "run"} : NextDependency(r) = [r EXCEPT !.pc = pc, !.i = 0]
    BY <1>3 DEF NextDependency
  <2>2. PICK q : q = NextDependency(r)
    OBVIOUS
  <2>3. /\ q \in ThreadStates /\ q.pc = pc /\ q.i = 0
        /\ q.call = r.call /\ q.title = r.title /\ q.dependencies = r.dependencies
        /\ q.depProcs = r.depProcs /\ q.remrefcounts = r.remrefcounts
    <3>1. pc \in ThreadPcs /\ 0 \in Nat
      BY DEF ThreadPcs
    <3>2. q = [r EXCEPT !.pc = pc, !.i = 0]
      BY <2>1, <2>2
    <3> HIDE <1>3
    <3> QED
      BY <3>1, <3>2 DEF ThreadStates
  <2>4. Shape(q)
    BY <1>1, <2>3 DEF Shape, LoadingPcs, RebootOnlyPcs
  <2> QED
    BY <2>2, <2>3, <2>4
<1> QED
  BY <1>2, <1>3

\* No process came of it, and the loop goes on or the call returns.
LEMMA NotCreatedStep ==
  ASSUME Inv, NEW t \in Threads, RegisterProgramFails(t) \/ LoadProcessFails(t)
  PROVE  Inv'
<1>1. /\ UNCHANGED <<list, free, mon>> /\ UNCHANGED proc /\ UNCHANGED kernel
      /\ UNCHANGED registered /\ UNCHANGED posted /\ UNCHANGED g_manager
      /\ lock' \in Locks /\ th[t].pc # "setUp"
  BY MovingLaunch
<1>2. NotCreated(t) /\ th[t].pc = "create"
  BY DEF RegisterProgramFails, LoadProcessFails
<1>3. CASE Return(t, FALSE)
  BY <1>1, <1>3, ReturnKept, MovingStep
<1>4. CASE ~Return(t, FALSE)
  <2>1. PICK r : r = [th[t] EXCEPT !.failed = TRUE]
    OBVIOUS
  <2>2. Step(t, NextDependency(r)) /\ UNCHANGED g_debugNextApplication
    BY <1>2, <1>4, <2>1 DEF NotCreated
  <2>3. th[t] \in ThreadStates /\ Shape(th[t])
    BY ThreadTyped
  <2>4. /\ r \in ThreadStates /\ r.call = th[t].call /\ r.title = th[t].title
        /\ r.dependencies = th[t].dependencies /\ r.depProcs = th[t].depProcs
        /\ r.remrefcounts = th[t].remrefcounts
    BY <2>1, <2>3 DEF ThreadStates
  <2>5. /\ r.call \notin Reboots /\ r.title \in Titles
        /\ Len(r.depProcs) = Len(r.dependencies) /\ Len(r.remrefcounts) = Len(r.dependencies)
    BY <1>2, <2>3, <2>4 DEF Shape, RebootPcs, RebootOnlyPcs, LoadingPcs, TitledPcs
  <2>6. NextDependency(r) \in ThreadStates /\ Shape(NextDependency(r))
    BY <2>4, <2>5, NextDependencyTyped
  <2>7. ThreadsKept
    BY <1>1, <2>2, <2>6, StepKept
  <2>8. g_debugNextApplication' \in BOOLEAN
    BY <2>2 DEF Inv, TypeInv, TypeOK
  <2> QED
    BY <1>1, <2>7, <2>8, MovingStep
<1> QED
  BY <1>3, <1>4

(* What is launched is a title.                                            *)
LEMMA LaunchedTyped ==
  ASSUME Inv, NEW t \in Threads, th[t].pc \in LoadingPcs
  PROVE  /\ Launched(th[t]) \in Titles /\ LaunchedFlags(th[t]) \in SUBSET LaunchFlags
         /\ LaunchedProcess(th[t]) \in NodeOrNull
         /\ th[t].call \notin Reboots /\ th[t].title \in Titles
         /\ Len(th[t].depProcs) = Len(th[t].dependencies)
         /\ Len(th[t].remrefcounts) = Len(th[t].dependencies)
         /\ th[t].i \in 0 .. Len(th[t].dependencies)
<1>1. /\ Shape(th[t]) /\ th[t].flags \in SUBSET LaunchFlags
      /\ th[t].process \in NodeOrNull /\ th[t].dep \in NodeOrNull
      /\ th[t].dependencies \in Seq(Titles) /\ th[t].i \in Nat
  BY ThreadTyped
<1>2. /\ th[t].call \notin Reboots /\ th[t].title \in Titles
      /\ Len(th[t].depProcs) = Len(th[t].dependencies)
      /\ Len(th[t].remrefcounts) = Len(th[t].dependencies)
      /\ th[t].i \in 0 .. Len(th[t].dependencies)
  BY <1>1 DEF Shape, RebootPcs, RebootOnlyPcs, LoadingPcs, TitledPcs
<1>3. Launched(th[t]) \in Titles
  <2>1. CASE th[t].i = 0
    BY <1>2, <2>1 DEF Launched
  <2>2. CASE th[t].i # 0
    <3>1. th[t].i \in 1 .. Len(th[t].dependencies)
      BY <1>1, <1>2, <2>2, LenProperties
    <3>2. th[t].dependencies[th[t].i] \in Titles
      BY <1>1, <3>1, ElementOfSeq
    <3> QED
      BY <2>2, <3>2 DEF Launched
  <2> QED
    BY <2>1, <2>2
<1> QED
  BY <1>1, <1>2, <1>3 DEF LaunchedFlags, LaunchedProcess

(* The loader creates a process, which joins the list while its thread is  *)
(* about to signal the monitor.                                            *)
LEMMA LoadProcessStep ==
  ASSUME Inv, NEW t \in Threads, LoadProcess(t)
  PROVE  Inv'
<1>1. /\ TypeOK /\ ThreadInv /\ ListInv /\ KeptInv /\ EndedInv /\ EveryProcessIsWatched
      /\ th[t].pc = "create"
  BY DEF Inv, TypeInv, LoadProcess
<1>2. /\ list \in Seq(Nodes) /\ free \in Seq(Nodes) /\ proc \in [Nodes -> Processes]
      /\ kernel \in [Pids -> {"none", "created", "running", "dead"}]
      /\ th \in [Threads -> ThreadStates] /\ mon \in MonitorStates
  BY <1>1 DEF TypeOK
<1>3. Launched(th[t]) \in Titles /\ LaunchedFlags(th[t]) \in SUBSET LaunchFlags
  BY <1>1, LaunchedTyped DEF LoadingPcs
<1>4. PICK pid : pid = CHOOSE p \in Unused : \A q \in Unused : p <= q
  OBVIOUS
<1>5. pid \in Pids /\ kernel[pid] = "none"
  <2>1. Unused \subseteq Nat /\ Unused # {}
    BY TitlesAssumption DEF Unused, Pids, LoadProcess
  <2>2. \E p \in Unused : \A q \in Unused : p <= q
    BY <2>1, LeastNatural
  <2> QED
    BY <1>4, <2>2 DEF Unused
<1>6. PICK h : h = Head(free)
  OBVIOUS
<1>7. PICK p : p = NewProcess(pid, Launched(th[t]), LaunchedFlags(th[t]))
  OBVIOUS
<1>8. /\ p \in Processes /\ p.pid = pid /\ p.title = Launched(th[t]) /\ p.status = "running"
  BY <1>3, <1>5, <1>7, TitlesAssumption DEF NewProcess, Processes, Pids
<1>9. /\ free # <<>> /\ list' = Append(list, h) /\ free' = Tail(free)
      /\ proc' = [proc EXCEPT ![h] = p] /\ kernel' = [kernel EXCEPT ![pid] = "created"]
      /\ Section(t)
      /\ UNCHANGED <<g_manager, g_debugNextApplication, posted, mon, registered>>
  BY <1>4, <1>6, <1>7 DEF LoadProcess, New, managerVars
<1>10. /\ h \in Nodes /\ free' \in Seq(Nodes) /\ Distinct(free')
       /\ Elements(free) = {h} \cup Elements(free') /\ h \notin Elements(free')
       /\ h \notin Elements(list)
  <2>1. /\ Elements(free) = {h} \cup Elements(free')
        /\ Distinct(free') /\ h \notin Elements(free')
    BY <1>1, <1>2, <1>6, <1>9, HeadAndTail DEF ListInv
  <2>2. h \in Nodes /\ free' \in Seq(Nodes)
    BY <1>2, <1>6, <1>9, HeadTailProperties
  <2> QED
    BY <1>1, <2>1, <2>2 DEF ListInv
<1>11. /\ list' \in Seq(Nodes) /\ Elements(list') = Elements(list) \cup {h} /\ Distinct(list')
  BY <1>1, <1>2, <1>9, <1>10, AppendElement DEF ListInv
<1>12. /\ proc' \in [Nodes -> Processes] /\ proc'[h] = p
       /\ \A n \in Nodes : n # h => proc'[n] = proc[n]
       /\ kernel' \in [Pids -> {"none", "created", "running", "dead"}]
       /\ \A q \in Pids : q # pid => kernel'[q] = kernel[q]
       /\ kernel'[pid] = "created"
  BY <1>2, <1>5, <1>8, <1>9, <1>10
<1>13. PICK r : /\ Step(t, r) /\ r \in ThreadStates /\ Shape(r) /\ r.pc = "setUp"
                /\ LaunchedProcess(r) = h
  <2>1. PICK q : q = th[t]
    OBVIOUS
  <2>2. /\ q \in ThreadStates /\ Shape(q) /\ q.pc = "create" /\ h \in NodeOrNull /\ pid \in 0 .. MaxPid
    BY <1>1, <1>5, <1>10, <2>1, ThreadTyped, TitlesAssumption DEF NodeOrNull, Pids
  <2>3. /\ q.call \notin Reboots /\ q.title \in Titles
        /\ Len(q.depProcs) = Len(q.dependencies) /\ Len(q.remrefcounts) = Len(q.dependencies)
        /\ q.i \in 0 .. Len(q.dependencies)
    BY <1>1, <2>1, LaunchedTyped DEF LoadingPcs
  <2>4. Step(t, IF q.i = 0
                THEN [q EXCEPT !.pc = "setUp", !.pid = pid, !.process = h]
                ELSE [q EXCEPT !.pc = "setUp", !.pid = pid, !.dep = h, !.failed = FALSE])
    BY <1>4, <1>6, <2>1, Zenon DEF LoadProcess
  <2>7. PICK r : /\ Step(t, r)
                 /\ r = IF q.i = 0
                        THEN [q EXCEPT !.pc = "setUp", !.pid = pid, !.process = h]
                        ELSE [q EXCEPT !.pc = "setUp", !.pid = pid, !.dep = h, !.failed = FALSE]
    BY <2>4
  <2>5. /\ r \in ThreadStates /\ r.pc = "setUp" /\ r.call = q.call /\ r.title = q.title
        /\ r.pid = pid /\ r.dependencies = q.dependencies /\ r.depProcs = q.depProcs
        /\ r.remrefcounts = q.remrefcounts /\ r.i = q.i
        /\ IF q.i = 0 THEN r.process = h ELSE r.dep = h
    BY <2>2, <2>7 DEF ThreadStates, ThreadPcs
  <2>6. Shape(r)
    BY <1>5, <2>3, <2>5 DEF Shape, RebootPcs, RebootOnlyPcs, LoadingPcs
  <2> QED
    BY <2>5, <2>6, <2>7 DEF LaunchedProcess
<1>14. /\ th' \in [Threads -> ThreadStates] /\ ThreadInv' /\ th'[t] = r
       /\ \A u \in Threads : th[u].pc = "setUp" => th'[u] = th[u]
  BY <1>1, <1>9, <1>13, StepTyped DEF TypeInv
<1>15. lock' \in Locks
  BY <1>1, <1>9, SectionTyped
<1>16. TypeOK'
  BY <1>1, <1>9, <1>10, <1>11, <1>12, <1>14, <1>15 DEF TypeOK, Locks
<1>17. ListInv'
  <2>1. \A n \in Elements(list') : proc'[n].pid \in Pids /\ proc'[n].title \in Titles
    BY <1>1, <1>3, <1>5, <1>8, <1>10, <1>11, <1>12 DEF ListInv
  <2> QED
    BY <1>1, <1>10, <1>11, <2>1 DEF ListInv
<1>18. Listed = Elements(list) /\ Listed' = Listed \cup {h} /\ Listed \subseteq Nodes
  BY <1>1, <1>11 DEF Listed, Range, Elements, ListInv
<1>19. KeptInv'
  BY <1>1, <1>2, <1>5, <1>8, <1>10, <1>12, <1>18 DEF KeptInv, ListInv
<1>20. EndedInv'
  BY <1>1, <1>5, <1>9, <1>12 DEF EndedInv
<1>21. EveryProcessIsWatched'
  <2> SUFFICES ASSUME mon'.pc \in {"signal", "wait"}, NEW n \in Listed', ToBeWatched(n)'
               PROVE  \/ proc'[n].pid \in mon'.handles
                      \/ g_manager'.newProcessEvent
                      \/ \E u \in Threads : th'[u].pc = "setUp" /\ LaunchedProcess(th'[u]) = n
    BY DEF EveryProcessIsWatched
  <2>1. CASE n = h
    BY <1>13, <1>14, <2>1
  <2>2. CASE n # h
    <3>1. n \in Listed /\ n \in Nodes /\ proc'[n] = proc[n] /\ proc[n].pid \in Pids
      BY <1>1, <1>12, <1>18, <2>2 DEF ListInv
    <3>2. ToBeWatched(n)
      BY <1>5, <1>12, <3>1 DEF ToBeWatched
    <3>3. \/ proc[n].pid \in mon.handles
          \/ g_manager.newProcessEvent
          \/ \E u \in Threads : th[u].pc = "setUp" /\ LaunchedProcess(th[u]) = n
      BY <1>1, <1>9, <3>1, <3>2 DEF EveryProcessIsWatched
    <3> QED
      BY <1>9, <1>14, <3>1, <3>3 DEF LaunchedProcess
  <2> QED
    BY <2>1, <2>2
<1> QED
  BY <1>14, <1>16, <1>17, <1>19, <1>20, <1>21 DEF Inv, TypeInv

(* The flags of one process change.                                        *)
LEMMA FlagsStep ==
  ASSUME Inv, NEW n, NEW flags, proc' = [proc EXCEPT ![n].flags = flags],
         n \in Nodes =>
           /\ flags \in SUBSET ProcessFlags
           /\ "notifyTerminated" \in proc[n].flags => "notifyTerminated" \in flags
  PROVE  KeepTrack(proc, proc')
<1>1. proc \in [Nodes -> Processes]
  BY DEF Inv, TypeInv, TypeOK
<1>2. PICK p : p = [proc[n] EXCEPT !.flags = flags]
  OBVIOUS
<1>3. n \in Nodes => p \in Processes /\ KeepsTrack(proc[n], p)
  BY <1>1, <1>2, FlagsKeep
<1>4. KeepTrack(proc, [proc EXCEPT ![n] = p])
  BY <1>1, <1>3, OneKeepsTrack
<1>5. proc' = [proc EXCEPT ![n] = p]
  BY <1>1, <1>2
<1> QED
  BY <1>4, <1>5

(* The flags of a process.                                               *)
LEMMA FlagsTyped ==
  ASSUME Inv, NEW n \in Nodes
  PROVE  proc[n].flags \in SUBSET ProcessFlags /\ proc[n] \in Processes
  BY DEF Inv, TypeInv, TypeOK, Processes

\* A node that holds no flags of a process of its own has none to keep.
LEMMA FoundStep ==
  ASSUME Inv, NEW t \in Threads, Found(t)
  PROVE  Inv'
<1>1. /\ UNCHANGED <<list, free, mon>> /\ UNCHANGED kernel /\ UNCHANGED registered
      /\ UNCHANGED posted /\ UNCHANGED <<g_manager, g_debugNextApplication>> /\ UNCHANGED lock
      /\ th[t].pc # "setUp" /\ Step(t, Idle)
  BY DEF Found, managerVars, kernelVars
<1>2. ThreadsKept
  BY <1>1, IdleKept
<1>3. KeepTrack(proc, proc')
  <2>1. PICK n : n = th[t].process
    OBVIOUS
  <2>2. proc' = [proc EXCEPT ![n].flags = proc[n].flags \ {"autoloaded"}]
    BY <2>1 DEF Found
  <2>3. n \in Nodes => /\ proc[n].flags \ {"autoloaded"} \in SUBSET ProcessFlags
                       /\ "notifyTerminated" \in proc[n].flags =>
                            "notifyTerminated" \in proc[n].flags \ {"autoloaded"}
    BY FlagsTyped
  <2> QED
    BY <2>2, <2>3, FlagsStep
<1> QED
  BY <1>1, <1>2, <1>3, ThreadStep, UnchangedKept

(* A launch that fails.                                                    *)
LEMMA FailedKept ==
  ASSUME Inv, NEW t \in Threads, NEW n \in Nat, Failed(t, n), UNCHANGED posted,
         th[t].pc # "setUp" \/ g_manager'.newProcessEvent
  PROVE  /\ KernelKept /\ lock' \in Locks /\ ThreadsKept
         /\ g_debugNextApplication' \in BOOLEAN
<1>1. TypeOK
  BY DEF Inv, TypeInv
<1>2. KernelKept
  BY <1>1, TerminateKeeps DEF Failed, KernelKept
<1>3. lock' \in Locks
  BY <1>1, StrayUnlocksTyped DEF Failed
<1>4. ThreadsKept /\ g_debugNextApplication' \in BOOLEAN
  BY ReturnKept DEF Failed
<1> QED
  BY <1>2, <1>3, <1>4

(* The set-up of a process fails: the monitor is told all the same.      *)
LEMMA SetUpFailsStep ==
  ASSUME Inv, NEW t \in Threads, SetUpFails(t)
  PROVE  Inv'
<1>1. /\ UNCHANGED <<list, free, mon>> /\ UNCHANGED proc /\ UNCHANGED posted
      /\ g_manager' = [g_manager EXCEPT !.newProcessEvent = TRUE]
      /\ registered' \subseteq registered \cup {th[t].pid} /\ th[t].pc = "setUp"
  BY DEF SetUpFails, listVars
<1>2. \E n \in Nat : Failed(t, n)
  <2>1. Failed(t, 1) \/ Failed(t, 2)
    BY DEF SetUpFails
  <2> QED
    BY <2>1
<1>3. /\ g_manager' \in Managers /\ g_manager'.newProcessEvent
  BY <1>1 DEF Inv, TypeInv, TypeOK, Managers
<1>4. /\ KernelKept /\ lock' \in Locks /\ ThreadsKept /\ g_debugNextApplication' \in BOOLEAN
  BY <1>1, <1>2, <1>3, FailedKept
<1>5. ManagerKept
  BY <1>3, <1>4 DEF ManagerKept
<1>6. registered' \subseteq Pids
  BY <1>1, ThreadTyped DEF Inv, TypeInv, TypeOK, Shape
<1>7. KeepTrack(proc, proc')
  BY <1>1, UnchangedKept
<1> QED
  BY <1>1, <1>4, <1>5, <1>6, <1>7, ThreadStep

(* A thread goes on with its launch.                                       *)
LEMMA LoadingGoto ==
  ASSUME Inv, NEW t \in Threads, th[t].pc \in LoadingPcs,
         NEW pc \in LoadingPcs \ {"setUp"}, Goto(t, pc), UNCHANGED posted,
         th[t].pc # "setUp" \/ g_manager'.newProcessEvent
  PROVE  ThreadsKept
<1>1. PICK q : q = [th[t] EXCEPT !.pc = pc]
  OBVIOUS
<1>2. pc \in ThreadPcs
  BY DEF LoadingPcs, ThreadPcs
<1>3. /\ q \in ThreadStates /\ q.pc = pc /\ q.call = th[t].call /\ q.title = th[t].title
      /\ q.i = th[t].i /\ q.dependencies = th[t].dependencies
      /\ q.depProcs = th[t].depProcs /\ q.remrefcounts = th[t].remrefcounts
  BY <1>1, <1>2, GotoTyped, ThreadTyped
<1>4. Shape(q)
  BY <1>3, LaunchedTyped DEF Shape, LoadingPcs, RebootOnlyPcs
<1> QED
  BY <1>1, <1>3, <1>4, StepKept DEF Goto

(* The process is set up, and newProcessEvent signalled.                 *)
LEMMA SetUpStep ==
  ASSUME Inv, NEW t \in Threads, SetUp(t)
  PROVE  Inv'
<1>1. /\ UNCHANGED <<list, free, mon>> /\ UNCHANGED kernel /\ UNCHANGED posted /\ UNCHANGED lock
      /\ UNCHANGED g_debugNextApplication
      /\ g_manager' = [g_manager EXCEPT !.newProcessEvent = TRUE]
      /\ registered' = registered \cup {th[t].pid} /\ th[t].pc = "setUp"
  BY DEF SetUp
<1>2. ManagerKept /\ g_manager'.newProcessEvent
  BY <1>1 DEF Inv, TypeInv, TypeOK, Managers, ManagerKept
<1>3. ThreadsKept
  <2>1. PICK pc \in LoadingPcs \ {"setUp"} : Goto(t, pc)
    <3>1. Goto(t, "merge") \/ Goto(t, "run")
      BY DEF SetUp
    <3> QED
      BY <3>1 DEF LoadingPcs
  <2> QED
    BY <1>1, <1>2, <2>1, LoadingGoto DEF LoadingPcs
<1>4. registered' \subseteq Pids
  BY <1>1, ThreadTyped DEF Inv, TypeInv, TypeOK, Shape
<1>5. KeepTrack(proc, proc')
  <2>1. PICK n, f : n = LaunchedProcess(th[t]) /\ f = LaunchedFlags(th[t]) \cap {"app"}
    OBVIOUS
  <2>2. proc' = [proc EXCEPT ![n].flags = proc[n].flags \cup f] /\ f \subseteq {"app"}
    BY <2>1 DEF SetUp
  <2>3. n \in Nodes => /\ proc[n].flags \cup f \in SUBSET ProcessFlags
                       /\ "notifyTerminated" \in proc[n].flags =>
                            "notifyTerminated" \in proc[n].flags \cup f
    BY <2>2, FlagsTyped DEF ProcessFlags
  <2> QED
    BY <2>2, <2>3, FlagsStep
<1> QED
  BY <1>1, <1>2, <1>3, <1>4, <1>5, ThreadStep, UnchangedKept

-----------------------------------------------------------------------------
(* The dependencies *)

(* A function over 1 .. n is a sequence, and a change of an entry keeps it one. *)
LEMMA FunctionIsSeq ==
  ASSUME NEW S, NEW n \in Nat, NEW f \in [1 .. n -> S]
  PROVE  f \in Seq(S) /\ Len(f) = n
<1>1. f \in Seq(S)
  OBVIOUS
<1>2. Len(f) \in Nat /\ DOMAIN f = 1 .. Len(f) /\ DOMAIN f = 1 .. n
  BY <1>1, LenProperties
<1> QED
  BY <1>1, <1>2

(* A sequence whose entry changes keeps its length and its type.         *)
LEMMA EntryChanged ==
  ASSUME NEW S, NEW s \in Seq(S), NEW x \in S, NEW i
  PROVE  [s EXCEPT ![i] = x] \in Seq(S) /\ Len([s EXCEPT ![i] = x]) = Len(s)
<1>1. s \in [1 .. Len(s) -> S] /\ Len(s) \in Nat
  BY LenProperties
<1>2. [s EXCEPT ![i] = x] \in [1 .. Len(s) -> S]
  BY <1>1
<1> QED
  BY <1>1, <1>2, FunctionIsSeq

(* Occurrences are counted with a natural number.                        *)
LEMMA OccurrencesTyped ==
  ASSUME NEW s \in Seq(Titles), NEW x
  PROVE  Occurrences(x, s) \in Nat
<1>1. IsFiniteSet(DOMAIN s)
  <2>1. DOMAIN s = 1 .. Len(s) /\ 1 \in Int /\ Len(s) \in Int
    BY LenProperties
  <2> QED
    BY <2>1, FS_Interval
<1>2. {i \in DOMAIN s : s[i] = x} \in SUBSET (DOMAIN s)
  OBVIOUS
<1>3. IsFiniteSet({i \in DOMAIN s : s[i] = x})
  BY <1>1, <1>2, FS_Subset
<1> QED
  BY <1>3, FS_CardinalityType DEF Occurrences

(* The titles that were not merged yet.                                  *)
LEMMA NewInTyped ==
  ASSUME NEW s \in Seq(Titles), NEW old
  PROVE  NewIn(s, old) \in Seq(Titles)
<1>1. PICK firsts :
        NewIn(s, old) = LET positions == Selected([i \in 1 .. Len(s) |-> i], firsts)
                        IN [k \in 1 .. Len(positions) |-> s[positions[k]]]
  BY DEF NewIn
<1>2. PICK positions : /\ positions = Selected([i \in 1 .. Len(s) |-> i], firsts)
                       /\ NewIn(s, old) = [k \in 1 .. Len(positions) |-> s[positions[k]]]
  BY <1>1
<1>3. Len(s) \in Nat /\ [i \in 1 .. Len(s) |-> i] \in [1 .. Len(s) -> 1 .. Len(s)]
  BY LenProperties
<1>4. [i \in 1 .. Len(s) |-> i] \in Seq(1 .. Len(s))
  BY <1>3, FunctionIsSeq
<1>5. positions \in Seq(1 .. Len(s))
  BY <1>2, <1>4, SelectedProperties
<1>6. Len(positions) \in Nat /\ positions \in [1 .. Len(positions) -> 1 .. Len(s)]
  BY <1>5, LenProperties
<1>7. [k \in 1 .. Len(positions) |-> s[positions[k]]] \in [1 .. Len(positions) -> Titles]
  <2>1. \A k \in 1 .. Len(positions) : s[positions[k]] \in Titles
    BY <1>6, ElementOfSeq
  <2> QED
    BY <2>1
<1> QED
  BY <1>2, <1>6, <1>7, FunctionIsSeq

(* The three arrays grow together.                                         *)
LEMMA MergedTyped ==
  ASSUME TypeOK, NEW r \in ThreadStates, NEW titles \in Seq(Titles),
         Len(r.depProcs) = Len(r.dependencies), Len(r.remrefcounts) = Len(r.dependencies),
         r.i \in 0 .. Len(r.dependencies)
  PROVE  LET m == MergedDependencies(r, titles) IN
         /\ m \in ThreadStates /\ m.pc = r.pc /\ m.call = r.call /\ m.title = r.title
         /\ m.i = r.i /\ Len(m.depProcs) = Len(m.dependencies)
         /\ Len(m.remrefcounts) = Len(m.dependencies) /\ m.i \in 0 .. Len(m.dependencies)
<1>1. /\ r.dependencies \in Seq(Titles) /\ r.depProcs \in Seq(NodeOrNull)
      /\ r.remrefcounts \in Seq(Nat) /\ r.i \in Nat
  BY DEF ThreadStates
<1>2. PICK new : new = NewIn(titles, r.dependencies)
  OBVIOUS
<1>3. new \in Seq(Titles) /\ DOMAIN new = 1 .. Len(new) /\ Len(new) \in Nat
  BY <1>2, NewInTyped, LenProperties
<1>4. PICK ps : ps = [k \in DOMAIN new |-> ProcessByTitleId(new[k])]
  OBVIOUS
<1>5. ps \in Seq(NodeOrNull) /\ Len(ps) = Len(new)
  <2>1. \A x : ProcessByTitleId(x) \in NodeOrNull
    BY ProcessFound DEF NodeOrNull
  <2>2. ps \in [1 .. Len(new) -> NodeOrNull]
    BY <1>3, <1>4, <2>1
  <2> QED
    BY <1>3, <2>2, FunctionIsSeq
<1>6. PICK zs : zs = [k \in DOMAIN new |-> 0]
  OBVIOUS
<1>7. zs \in Seq(Nat) /\ Len(zs) = Len(new)
  <2>1. zs \in [1 .. Len(new) -> Nat]
    BY <1>3, <1>6
  <2> QED
    BY <1>3, <2>1, FunctionIsSeq
<1>8. PICK all, procs, rem : /\ all = r.dependencies \o new
                             /\ procs = r.depProcs \o ps
                             /\ rem = r.remrefcounts \o zs
  OBVIOUS
<1>9. /\ all \in Seq(Titles) /\ Len(all) = Len(r.dependencies) + Len(new)
      /\ procs \in Seq(NodeOrNull) /\ Len(procs) = Len(all)
      /\ rem \in Seq(Nat) /\ Len(rem) = Len(all)
      /\ Len(all) \in Nat /\ Len(r.dependencies) \in Nat
  <2>1. all \in Seq(Titles) /\ Len(all) = Len(r.dependencies) + Len(new)
    BY <1>1, <1>3, <1>8, ConcatProperties
  <2>2. procs \in Seq(NodeOrNull) /\ Len(procs) = Len(r.depProcs) + Len(ps)
    BY <1>1, <1>5, <1>8, ConcatProperties
  <2>3. rem \in Seq(Nat) /\ Len(rem) = Len(r.remrefcounts) + Len(zs)
    BY <1>1, <1>7, <1>8, ConcatProperties
  <2>4. Len(all) \in Nat /\ Len(r.dependencies) \in Nat
    BY <1>1, <2>1, LenProperties
  <2> QED
    BY <1>5, <1>7, <2>1, <2>2, <2>3, <2>4
<1>10. PICK counts :
         counts = [k \in DOMAIN all |->
                     IF procs[k] = Null THEN rem[k] + Occurrences(all[k], titles) ELSE rem[k]]
  OBVIOUS
<1>11. counts \in Seq(Nat) /\ Len(counts) = Len(all)
  <2>1. DOMAIN all = 1 .. Len(all)
    BY <1>9, LenProperties
  <2>2. \A k \in 1 .. Len(all) : rem[k] \in Nat /\ Occurrences(all[k], titles) \in Nat
    BY <1>9, ElementOfSeq, OccurrencesTyped
  <2>3. counts \in [1 .. Len(all) -> Nat]
    BY <1>10, <2>1, <2>2
  <2> QED
    BY <1>9, <2>3, FunctionIsSeq
<1>12. MergedDependencies(r, titles) =
         [r EXCEPT !.dependencies = all, !.depProcs = procs, !.remrefcounts = counts]
  BY <1>2, <1>4, <1>6, <1>8, <1>10 DEF MergedDependencies
<1>13. PICK m : m = MergedDependencies(r, titles)
  OBVIOUS
<1>14. /\ m \in ThreadStates /\ m.pc = r.pc /\ m.call = r.call /\ m.title = r.title
       /\ m.i = r.i /\ m.dependencies = all /\ m.depProcs = procs /\ m.remrefcounts = counts
  BY <1>9, <1>11, <1>12, <1>13 DEF ThreadStates
<1> QED
  BY <1>1, <1>3, <1>9, <1>11, <1>13, <1>14

(* References are added, or nothing follows.                               *)
LEMMA ReferencesKeep ==
  ASSUME TypeOK, NEW r, NEW titles, CountsFit(References(r, titles))
  PROVE  KeepTrack(proc, References(r, titles))
<1> SUFFICES ASSUME NEW n \in Nodes
             PROVE  /\ References(r, titles)[n] \in Processes
                    /\ KeepsTrack(proc[n], References(r, titles)[n])
  BY DEF KeepTrack, References
<1>1. proc[n] \in Processes
  BY DEF TypeOK
<1>2. References(r, titles)[n].refcount \in 0 .. 255
  BY DEF CountsFit
<1>3. \/ References(r, titles)[n] = proc[n]
      \/ \E amount : References(r, titles)[n] = Incref(proc[n], amount)
  BY DEF References
<1> QED
  BY <1>1, <1>2, <1>3, IncrefKeeps DEF KeepsTrack

(* The dependencies of a dependency join the merged ones.                *)
LEMMA MergeStep ==
  ASSUME Inv, NEW t \in Threads, MergeDependencies(t)
  PROVE  Inv'
<1>1. PICK r, titles, m : /\ r = th[t] /\ titles = Deps[Launched(r)]
                          /\ m = MergedDependencies(r, titles)
  OBVIOUS
<1>2. /\ r.pc = "merge" /\ Section(t) /\ proc' = References(m, titles) /\ CountsFit(proc')
      /\ Step(t, IF r.i = 0 THEN [m EXCEPT !.pc = "mark"] ELSE NextDependency(m))
      /\ UNCHANGED <<list, free, mon>> /\ UNCHANGED <<g_manager, g_debugNextApplication>>
      /\ UNCHANGED posted /\ UNCHANGED kernel /\ UNCHANGED registered
  BY <1>1 DEF MergeDependencies, managerVars, kernelVars
<1>3. TypeOK /\ lock' \in Locks
  BY <1>2, SectionTyped DEF Inv, TypeInv
<1>4. /\ r \in ThreadStates /\ r.call \notin Reboots /\ r.title \in Titles
      /\ Len(r.depProcs) = Len(r.dependencies) /\ Len(r.remrefcounts) = Len(r.dependencies)
      /\ r.i \in 0 .. Len(r.dependencies) /\ titles \in Seq(Titles)
  <2>1. th[t].pc \in LoadingPcs
    BY <1>1, <1>2 DEF LoadingPcs
  <2>2. Launched(th[t]) \in Titles
    BY <2>1, LaunchedTyped
  <2> QED
    BY <1>1, <2>1, <2>2, LaunchedTyped, ThreadTyped, TitlesAssumption
<1>5. /\ m \in ThreadStates /\ m.call = r.call /\ m.title = r.title
      /\ m.i = r.i /\ Len(m.depProcs) = Len(m.dependencies)
      /\ Len(m.remrefcounts) = Len(m.dependencies) /\ m.i \in 0 .. Len(m.dependencies)
  BY <1>1, <1>3, <1>4, MergedTyped
<1>6. KeepTrack(proc, proc')
  BY <1>2, <1>3, ReferencesKeep
<1>7. ThreadsKept
  <2>1. CASE r.i = 0
    <3>1. PICK q : q = [m EXCEPT !.pc = "mark"]
      OBVIOUS
    <3>2. /\ q \in ThreadStates /\ q.pc = "mark" /\ q.call = m.call /\ q.title = m.title
          /\ q.i = m.i /\ q.dependencies = m.dependencies /\ q.depProcs = m.depProcs
          /\ q.remrefcounts = m.remrefcounts
      <4>1. "mark" \in ThreadPcs
        BY DEF ThreadPcs
      <4> QED
        BY <1>5, <3>1, <4>1, GotoTyped
    <3>3. Shape(q)
      BY <1>4, <1>5, <3>2 DEF Shape, LoadingPcs, RebootOnlyPcs
    <3> QED
      BY <1>1, <1>2, <2>1, <3>1, <3>2, <3>3, StepKept
  <2>2. CASE r.i # 0
    <3>1. NextDependency(m) \in ThreadStates /\ Shape(NextDependency(m))
      BY <1>4, <1>5, NextDependencyTyped
    <3> QED
      BY <1>1, <1>2, <2>2, <3>1, StepKept
  <2> QED
    BY <2>1, <2>2
<1> QED
  BY <1>2, <1>3, <1>6, <1>7, ThreadStep, UnchangedKept

(* A process with dependencies is marked, and their launch begins.       *)
LEMMA MarkStep ==
  ASSUME Inv, NEW t \in Threads, MarkDependencies(t)
  PROVE  Inv'
<1>1. PICK r : r = th[t]
  OBVIOUS
<1>2. /\ r.pc = "mark"
      /\ Step(t, IF "fake" \in r.flags THEN [r EXCEPT !.pc = "run"] ELSE NextDependency(r))
      /\ UNCHANGED <<list, free, mon>> /\ UNCHANGED <<g_manager, g_debugNextApplication>>
      /\ UNCHANGED posted /\ UNCHANGED kernel /\ UNCHANGED registered /\ UNCHANGED lock
  BY <1>1 DEF MarkDependencies, managerVars, kernelVars
<1>3. KeepTrack(proc, proc')
  <2>1. PICK n : n = r.process
    OBVIOUS
  <2>2. PICK f \in SUBSET {"dependenciesLoaded"} :
          proc' = [proc EXCEPT ![n].flags = proc[n].flags \cup f]
    <3>1. \/ proc' = [proc EXCEPT ![n].flags = proc[n].flags]
          \/ proc' = [proc EXCEPT ![n].flags = proc[n].flags \cup {"dependenciesLoaded"}]
      BY <1>1, <2>1 DEF MarkDependencies
    <3>2. proc[n].flags = proc[n].flags \cup {} \/ n \notin Nodes
      BY FlagsTyped
    <3>3. n \notin Nodes => \A x, y : [proc EXCEPT ![n].flags = x] = [proc EXCEPT ![n].flags = y]
      <4>1. proc \in [Nodes -> Processes]
        BY DEF Inv, TypeInv, TypeOK
      <4> QED
        BY <4>1
    <3> QED
      BY <3>1, <3>2, <3>3
  <2>3. n \in Nodes => /\ proc[n].flags \cup f \in SUBSET ProcessFlags
                       /\ "notifyTerminated" \in proc[n].flags =>
                            "notifyTerminated" \in proc[n].flags \cup f
    BY <2>2, FlagsTyped DEF ProcessFlags
  <2> QED
    BY <2>2, <2>3, FlagsStep
<1>4. ThreadsKept
  <2>1. /\ th[t].pc \in LoadingPcs /\ th[t].pc # "setUp"
    BY <1>1, <1>2 DEF LoadingPcs
  <2>2. CASE "fake" \in r.flags
    <3>1. Goto(t, "run")
      BY <1>1, <1>2, <2>2 DEF Goto
    <3> QED
      BY <1>2, <2>1, <3>1, LoadingGoto DEF LoadingPcs
  <2>3. CASE "fake" \notin r.flags
    <3>1. NextDependency(r) \in ThreadStates /\ Shape(NextDependency(r))
      BY <1>1, <2>1, ThreadTyped, LaunchedTyped, NextDependencyTyped
    <3> QED
      BY <1>1, <1>2, <2>1, <2>3, <3>1, StepKept
  <2> QED
    BY <2>2, <2>3
<1> QED
  BY <1>2, <1>3, <1>4, ThreadStep, UnchangedKept

(* A dependency that was launched counts its references.                 *)
LEMMA MarkAutoloadedStep ==
  ASSUME Inv, NEW t \in Threads, MarkAutoloaded(t)
  PROVE  Inv'
<1>1. PICK r, n : r = th[t] /\ n = r.dep
  OBVIOUS
<1>2. PICK p : p = [proc[n] EXCEPT !.flags = proc[n].flags \cup {"autoloaded", "dependenciesLoaded"}]
  OBVIOUS
<1>3. PICK amount : amount = r.remrefcounts[r.i] - 1
  OBVIOUS
<1>4. /\ r.pc = "launched"
      /\ proc' = [proc EXCEPT ![n] = Incref(p, amount)] /\ CountsFit(proc')
      /\ Step(t, [r EXCEPT !.pc = "merge", !.depProcs[r.i] = n, !.remrefcounts[r.i] = 0])
      /\ UNCHANGED <<list, free, mon>> /\ UNCHANGED <<g_manager, g_debugNextApplication>>
      /\ UNCHANGED posted /\ UNCHANGED kernel /\ UNCHANGED registered /\ UNCHANGED lock
  BY <1>1, <1>2, <1>3 DEF MarkAutoloaded, managerVars, kernelVars
<1>5. proc \in [Nodes -> Processes]
  BY DEF Inv, TypeInv, TypeOK
<1>6. KeepTrack(proc, proc')
  <2>1. ASSUME n \in Nodes
        PROVE  Incref(p, amount) \in Processes /\ KeepsTrack(proc[n], Incref(p, amount))
    <3>1. proc[n] \in Processes /\ proc[n].flags \in SUBSET ProcessFlags
      BY <2>1, FlagsTyped
    <3>2. proc[n].flags \cup {"autoloaded", "dependenciesLoaded"} \in SUBSET ProcessFlags
      BY <3>1 DEF ProcessFlags
    <3>3. p \in Processes /\ KeepsTrack(proc[n], p)
      BY <1>2, <3>1, <3>2, FlagsKeep
    <3>4. proc'[n] = Incref(p, amount)
      BY <1>4, <1>5, <2>1
    <3>5. Incref(p, amount).refcount \in 0 .. 255
      BY <1>4, <2>1, <3>4 DEF CountsFit
    <3>6. Incref(p, amount) \in Processes /\ KeepsTrack(p, Incref(p, amount))
      BY <3>3, <3>5, IncrefKeeps
    <3> QED
      BY <3>3, <3>6, KeepsTrackTransitive
  <2>2. PICK q : q = Incref(p, amount)
    OBVIOUS
  <2>3. KeepTrack(proc, [proc EXCEPT ![n] = q])
    BY <1>5, <2>1, <2>2, OneKeepsTrack
  <2> QED
    BY <1>4, <2>2, <2>3
<1>7. ThreadsKept
  <2>1. PICK ps, cs : /\ ps = [r.depProcs EXCEPT ![r.i] = n]
                      /\ cs = [r.remrefcounts EXCEPT ![r.i] = 0]
    OBVIOUS
  <2>2. /\ r \in ThreadStates /\ r.call \notin Reboots /\ r.title \in Titles
        /\ Len(r.depProcs) = Len(r.dependencies) /\ Len(r.remrefcounts) = Len(r.dependencies)
        /\ r.i \in 0 .. Len(r.dependencies)
        /\ r.depProcs \in Seq(NodeOrNull) /\ r.remrefcounts \in Seq(Nat) /\ n \in NodeOrNull
    BY <1>1, <1>4, ThreadTyped, LaunchedTyped DEF LoadingPcs
  <2>3. /\ ps \in Seq(NodeOrNull) /\ Len(ps) = Len(r.dependencies)
        /\ cs \in Seq(Nat) /\ Len(cs) = Len(r.dependencies)
    BY <2>1, <2>2, EntryChanged
  <2>4. PICK q : q = [r EXCEPT !.pc = "merge", !.depProcs = ps, !.remrefcounts = cs]
    OBVIOUS
  <2>5. /\ q \in ThreadStates /\ q.pc = "merge" /\ q.call = r.call /\ q.title = r.title
        /\ q.i = r.i /\ q.dependencies = r.dependencies /\ q.depProcs = ps
        /\ q.remrefcounts = cs
    BY <2>2, <2>3, <2>4 DEF ThreadStates, ThreadPcs
  <2>6. Shape(q)
    BY <2>2, <2>3, <2>5 DEF Shape, LoadingPcs, RebootOnlyPcs
  <2>7. Step(t, q)
    BY <1>4, <2>1, <2>4
  <2> QED
    BY <1>1, <1>4, <2>5, <2>6, <2>7, StepKept
<1> QED
  BY <1>4, <1>6, <1>7, ThreadStep, UnchangedKept

-----------------------------------------------------------------------------
(* The process is run *)

(* A launch with the queue flag leaves the process for RunQueuedProcess. *)
LEMMA QueueStep ==
  ASSUME Inv, NEW t \in Threads, Queue(t)
  PROVE  Inv'
<1>1. PICK r, n : r = th[t] /\ n = r.process
  OBVIOUS
<1>2. /\ r.pc = "run" /\ Section(t) /\ Return(t, TRUE)
      /\ g_manager' = [g_manager EXCEPT !.debugData = n]
      /\ proc' = [proc EXCEPT ![n].flags = @ \cup (r.flags \cap {"notify"})]
      /\ UNCHANGED <<list, free, mon>> /\ UNCHANGED posted
      /\ UNCHANGED kernel /\ UNCHANGED registered
  BY <1>1 DEF Queue, kernelVars
<1>3. lock' \in Locks
  BY <1>2, SectionTyped DEF Inv, TypeInv
<1>4. ThreadsKept /\ g_debugNextApplication' \in BOOLEAN
  BY <1>1, <1>2, ReturnKept
<1>5. n \in NodeOrNull /\ g_manager \in Managers
  BY <1>1, ThreadTyped DEF Inv, TypeInv, TypeOK
<1>6. ManagerKept
  BY <1>2, <1>4, <1>5 DEF ManagerKept, Managers
<1>7. KeepTrack(proc, proc')
  <2>1. PICK f : f = r.flags \cap {"notify"}
    OBVIOUS
  <2>2. proc' = [proc EXCEPT ![n].flags = proc[n].flags \cup f] /\ f \subseteq {"notify"}
    BY <1>2, <2>1
  <2>3. n \in Nodes => /\ proc[n].flags \cup f \in SUBSET ProcessFlags
                       /\ "notifyTerminated" \in proc[n].flags =>
                            "notifyTerminated" \in proc[n].flags \cup f
    BY <2>2, FlagsTyped DEF ProcessFlags
  <2> QED
    BY <2>2, <2>3, FlagsStep
<1> QED
  BY <1>2, <1>3, <1>4, <1>6, <1>7, ThreadStep, UnchangedKept

(* The process runs.                                                     *)
LEMMA RunStep ==
  ASSUME Inv, NEW t \in Threads, Run(t)
  PROVE  Inv'
<1>1. PICK n, flags : n = LaunchedProcess(th[t]) /\ flags = LaunchedFlags(th[t])
  OBVIOUS
<1>2. /\ th[t].pc = "run" /\ Section(t) /\ Runs(n)
      /\ kernel' = [kernel EXCEPT ![proc[n].pid] = "running"]
      /\ g_manager' = [g_manager EXCEPT !.runningApplicationData =
                         IF "app" \in flags THEN n ELSE @]
      /\ proc' = [proc EXCEPT ![n].flags = @ \cup (flags \cap {"notify"})]
      /\ Return(t, TRUE) \/ (Goto(t, "launched") /\ UNCHANGED g_debugNextApplication)
      /\ UNCHANGED <<list, free, mon>> /\ UNCHANGED posted /\ UNCHANGED registered
  BY <1>1 DEF Run
<1>3. lock' \in Locks
  BY <1>2, SectionTyped DEF Inv, TypeInv
<1>4. ThreadsKept /\ g_debugNextApplication' \in BOOLEAN
  <2>1. CASE Return(t, TRUE)
    BY <1>2, <2>1, ReturnKept
  <2>2. CASE Goto(t, "launched") /\ UNCHANGED g_debugNextApplication
    <3>1. ThreadsKept
      BY <1>2, <2>2, LoadingGoto DEF LoadingPcs
    <3> QED
      BY <2>2, <3>1 DEF Inv, TypeInv, TypeOK
  <2> QED
    BY <1>2, <2>1, <2>2
<1>5. n \in NodeOrNull /\ g_manager \in Managers
      /\ kernel \in [Pids -> {"none", "created", "running", "dead"}]
  <2>1. th[t].pc \in LoadingPcs
    BY <1>2 DEF LoadingPcs
  <2> QED
    BY <1>1, <2>1, LaunchedTyped DEF Inv, TypeInv, TypeOK
<1>6. ManagerKept
  BY <1>2, <1>4, <1>5 DEF ManagerKept, Managers
<1>7. KernelKept
  BY <1>2, <1>5 DEF KernelKept, Runs
<1>8. KeepTrack(proc, proc')
  <2>1. PICK f : f = flags \cap {"notify"}
    OBVIOUS
  <2>2. proc' = [proc EXCEPT ![n].flags = proc[n].flags \cup f] /\ f \subseteq {"notify"}
    BY <1>2, <2>1
  <2>3. n \in Nodes => /\ proc[n].flags \cup f \in SUBSET ProcessFlags
                       /\ "notifyTerminated" \in proc[n].flags =>
                            "notifyTerminated" \in proc[n].flags \cup f
    BY <2>2, FlagsTyped DEF ProcessFlags
  <2> QED
    BY <2>2, <2>3, FlagsStep
<1> QED
  BY <1>2, <1>3, <1>4, <1>6, <1>7, <1>8, ThreadStep, UnchangedKept

(* A launch fails, with the stray unlocks of its cleanup.                *)
LEMMA FailureStep ==
  ASSUME Inv, NEW t \in Threads, RunFails(t) \/ Cleanup(t)
  PROVE  Inv'
<1>1. /\ th[t].pc # "setUp" /\ UNCHANGED <<list, free, mon>> /\ UNCHANGED proc
      /\ UNCHANGED g_manager /\ UNCHANGED posted /\ UNCHANGED registered
  BY DEF RunFails, Cleanup, listVars
<1>2. KernelKept /\ lock' \in Locks /\ ThreadsKept /\ g_debugNextApplication' \in BOOLEAN
  <2>1. CASE Failed(t, 1)
    <3>1. 1 \in Nat
      OBVIOUS
    <3> QED
      BY <1>1, <2>1, <3>1, FailedKept
  <2>2. CASE ~Failed(t, 1)
    <3>1. PICK nodes : Section(t) /\ kernel' = Terminate(nodes) /\ Return(t, FALSE)
      BY <2>2 DEF RunFails, Cleanup
    <3>2. TypeOK
      BY DEF Inv, TypeInv
    <3>3. KernelKept
      BY <3>1, <3>2, TerminateKeeps DEF KernelKept
    <3>4. lock' \in Locks
      BY <3>1, <3>2, SectionTyped
    <3> QED
      BY <1>1, <3>1, <3>3, <3>4, ReturnKept
  <2> QED
    BY <2>1, <2>2
<1>3. ManagerKept
  BY <1>1, <1>2 DEF ManagerKept, Inv, TypeInv, TypeOK
<1> QED
  BY <1>1, <1>2, <1>3, ThreadStep, UnchangedKept

(* What both threads do to launch a title.                                 *)
LEMMA LaunchStep ==
  ASSUME Inv, NEW t \in Threads, Launch(t)
  PROVE  Inv'
  BY LookUpStep, FoundStep, CheckStep, NotCreatedStep, LoadProcessStep, SetUpFailsStep,
     SetUpStep, MergeStep, MarkStep, MarkAutoloadedStep, QueueStep, RunStep, FailureStep
     DEF Launch

-----------------------------------------------------------------------------
(* The task runner *)

(* The service thread hands a call to the task runner.                   *)
LEMMA RunTaskStep ==
  ASSUME Inv, RunTask("srv")
  PROVE  Inv'
<1>1. /\ th["srv"].pc = "post" /\ Step("srv", Idle) /\ UNCHANGED lock
      /\ UNCHANGED <<listVars, managerVars, mon, kernelVars>>
      /\ posted' = [th["srv"] EXCEPT
                      !.pc = IF th["srv"].call = "LaunchTitleAsync" THEN "check" ELSE "begin"]
  BY DEF RunTask
<1>2. PICK r, q : /\ r = th["srv"]
                  /\ q = [r EXCEPT !.pc = IF r.call = "LaunchTitleAsync" THEN "check" ELSE "begin"]
  OBVIOUS
<1>3. "srv" \in Threads /\ r \in ThreadStates /\ Shape(r) /\ r.pc = "post"
  BY <1>1, <1>2, ThreadTyped DEF Threads
<1>4. PICK pc \in {"check", "begin"} : /\ q = [r EXCEPT !.pc = pc]
                                       /\ pc = "check" <=> r.call = "LaunchTitleAsync"
  BY <1>2
<1>5. pc \in ThreadPcs
  BY DEF ThreadPcs
<1>6. /\ q \in ThreadStates /\ q.pc = pc /\ q.call = r.call /\ q.title = r.title
      /\ q.i = r.i /\ q.dependencies = r.dependencies /\ q.depProcs = r.depProcs
      /\ q.remrefcounts = r.remrefcounts
  BY <1>3, <1>4, <1>5, GotoTyped
<1>7. Shape(q)
  BY <1>3, <1>4, <1>6 DEF Shape, Bare, Reboots, RebootPcs, RebootOnlyPcs, LoadingPcs, TitledPcs
<1>8. th' \in [Threads -> ThreadStates] /\ th'["srv"] = Idle /\ th'["task"] = th["task"]
  BY <1>1, IdleTyped DEF Step, Inv, TypeInv, TypeOK, Threads
<1>9. ThreadInv'
  BY <1>1, <1>2, <1>7, <1>8, IdleTyped DEF ThreadInv, Threads, Inv, TypeInv
<1>10. ThreadsKept
  BY <1>1, <1>2, <1>6, <1>8, <1>9 DEF ThreadsKept, Threads
<1>11. lock' \in Locks
  BY <1>1, UnchangedKept
<1> QED
  BY <1>1, <1>10, <1>11, ThreadOnlyStep

(* The task runner takes the call.                                       *)
LEMMA TaskBeginsStep ==
  ASSUME Inv, TaskBegins
  PROVE  Inv'
<1>1. /\ posted # Null /\ th["task"] = Idle /\ th' = [th EXCEPT !["task"] = posted]
      /\ posted' = Null /\ UNCHANGED lock
      /\ UNCHANGED <<listVars, managerVars, mon, kernelVars>>
  BY DEF TaskBegins
<1>2. posted \in ThreadStates /\ Shape(posted) /\ th \in [Threads -> ThreadStates]
  BY <1>1 DEF Inv, TypeInv, TypeOK, ThreadInv
<1>3. th' \in [Threads -> ThreadStates] /\ th'["srv"] = th["srv"] /\ th'["task"] = posted
  BY <1>1, <1>2 DEF Threads
<1>4. ThreadInv'
  BY <1>1, <1>2, <1>3 DEF ThreadInv, Threads, Inv, TypeInv
<1>5. ThreadsKept
  BY <1>1, <1>3, <1>4, IdleTyped DEF ThreadsKept, Threads
<1>6. lock' \in Locks
  BY <1>1, UnchangedKept
<1> QED
  BY <1>1, <1>5, <1>6, ThreadOnlyStep

(* The service thread runs the application that was queued.              *)
LEMMA RunQueuedInsteadStep ==
  ASSUME Inv, RunQueuedInstead
  PROVE  Inv'
<1>1. /\ th["srv"].pc = "runQueued" /\ RunQueued("srv", Step("srv", Idle)) /\ "srv" \in Threads
  BY DEF RunQueuedInstead, Threads
<1>2. Step("srv", Idle) /\ UNCHANGED posted
  BY <1>1 DEF RunQueued
<1>3. ThreadsKept
  BY <1>1, <1>2, IdleKept
<1> QED
  BY <1>1, <1>3, RunQueuedStep

-----------------------------------------------------------------------------
(* Termination *)

(* A thread that terminates goes to its next place.                        *)
LEMMA TerminationGoto ==
  ASSUME Inv, NEW t \in Threads, th[t].pc \notin LoadingPcs,
         NEW pc \in ThreadPcs \ (TitledPcs \cup {"post"}), Goto(t, pc), UNCHANGED posted,
         th[t].call \in Reboots => pc \in RebootPcs,
         pc \in RebootOnlyPcs => th[t].call \in Reboots
  PROVE  ThreadsKept
<1>1. PICK q : q = [th[t] EXCEPT !.pc = pc]
  OBVIOUS
<1>2. /\ q \in ThreadStates /\ q.pc = pc /\ q.call = th[t].call /\ q.title = th[t].title
      /\ q.i = th[t].i /\ q.dependencies = th[t].dependencies
      /\ q.depProcs = th[t].depProcs /\ q.remrefcounts = th[t].remrefcounts
  BY <1>1, GotoTyped, ThreadTyped
<1>3. Shape(th[t])
  BY ThreadTyped
<1>4. Shape(q)
  BY <1>2, <1>3 DEF Shape, Bare, LoadingPcs, TitledPcs
<1>5. th[t].pc # "setUp"
  BY DEF LoadingPcs
<1> QED
  BY <1>1, <1>2, <1>4, <1>5, StepKept DEF Goto

(* A termination clears the event and announces its wait.                *)
LEMMA BeginStep ==
  ASSUME Inv, NEW t \in Threads, Begin(t)
  PROVE  Inv'
<1>1. /\ th[t].pc = "begin" /\ UNCHANGED <<list, free, mon>> /\ UNCHANGED proc
      /\ UNCHANGED g_debugNextApplication /\ UNCHANGED lock /\ UNCHANGED posted
      /\ UNCHANGED kernel /\ UNCHANGED registered
  BY DEF Begin, listVars, kernelVars
<1>2. ManagerKept
  BY <1>1 DEF Begin, ManagerKept, Managers, Inv, TypeInv, TypeOK
<1>3. ThreadsKept
  <2>1. PICK pc \in {"listCaller", "notify"} :
          Goto(t, pc) /\ (pc = "listCaller" <=> th[t].call \in Reboots)
    BY DEF Begin, Reboots
  <2> QED
    BY <1>1, <2>1, TerminationGoto DEF LoadingPcs, ThreadPcs, TitledPcs, RebootPcs, RebootOnlyPcs
<1> QED
  BY <1>1, <1>2, <1>3, ThreadStep, UnchangedKept

(* TerminateApplication tells the application.                           *)
LEMMA NotifyApplicationStep ==
  ASSUME Inv, NotifyApplication
  PROVE  Inv'
<1>1. PICK app : app = g_manager.runningApplicationData
  OBVIOUS
<1>2. /\ th["srv"].pc = "notify" /\ Section("srv") /\ Goto("srv", "commit")
      /\ proc' = IF app = Null THEN proc ELSE Terminated(proc, app)
      /\ UNCHANGED <<list, free, mon>> /\ UNCHANGED <<g_manager, g_debugNextApplication>>
      /\ UNCHANGED posted /\ UNCHANGED kernel /\ UNCHANGED registered /\ "srv" \in Threads
  BY <1>1 DEF NotifyApplication, managerVars, kernelVars, Threads
<1>3. TypeOK /\ app \in NodeOrNull /\ proc \in [Nodes -> Processes] /\ lock' \in Locks
  BY <1>1, <1>2, SectionTyped DEF Inv, TypeInv, TypeOK, Managers
<1>4. KeepTrack(proc, proc')
  <2>1. CASE app = Null
    BY <1>2, <2>1, UnchangedKept
  <2>2. CASE app # Null
    BY <1>2, <1>3, <2>2, TerminatedKeeps DEF NodeOrNull
  <2> QED
    BY <2>1, <2>2
<1>5. ThreadsKept
  <2>1. Shape(th["srv"])
    BY <1>2, ThreadTyped
  <2>2. th["srv"].call \notin Reboots
    BY <1>2, <2>1 DEF Shape, RebootPcs, RebootOnlyPcs
  <2> QED
    BY <1>2, <2>2, TerminationGoto DEF LoadingPcs, ThreadPcs, TitledPcs, RebootOnlyPcs
<1> QED
  BY <1>2, <1>3, <1>4, <1>5, ThreadStep, UnchangedKept

(* The client is told when the termination is complete, not before.      *)
LEMMA TakeNotifyKeeps ==
  ASSUME NEW p \in Processes
  PROVE  TakeNotify(p) \in Processes /\ KeepsTrack(p, TakeNotify(p))
<1>1. p.flags \in SUBSET ProcessFlags
  BY DEF Processes
<1>2. CASE "notify" \in p.flags
  <2>1. PICK flags : flags = (p.flags \ {"notify"}) \cup {"notifyTerminated"}
    OBVIOUS
  <2>2. flags \in SUBSET ProcessFlags /\ "notifyTerminated" \in flags
    BY <1>1, <2>1 DEF ProcessFlags
  <2>3. TakeNotify(p) = [p EXCEPT !.flags = flags]
    BY <1>2, <2>1 DEF TakeNotify
  <2> QED
    BY <2>2, <2>3, FlagsKeep
<1>3. CASE "notify" \notin p.flags
  BY <1>3 DEF TakeNotify, KeepsTrack
<1> QED
  BY <1>2, <1>3

(* The loop of TerminateProcessOrTitleAsync over the list.                 *)
LEMMA TitleTerminatedKeeps ==
  ASSUME Inv, NotifyTitle
  PROVE  KeepTrack(proc, proc')
<1> DEFINE n == Len(list)
           title == th["task"].title
           More(i, pr) == IF proc[list[i]].title = title
                          THEN Terminated([pr EXCEPT ![list[i]] = TakeNotify(@)], list[i])
                          ELSE pr
           IsAfter(f) == f = [i \in 0 .. n |-> IF i = 0 THEN proc
                                ELSE IF proc[list[i]].title = title
                                THEN Terminated([f[i - 1] EXCEPT ![list[i]] = TakeNotify(@)], list[i])
                                ELSE f[i - 1]]
           Kept == {pr \in [Nodes -> Processes] : KeepTrack(proc, pr)}
           D == [k \in 0 .. n |-> Kept]
           step == [x \in (1 .. n) \X Kept |-> More(x[1], x[2])]
<1>1. /\ n \in Nat /\ \A i \in 1 .. n : list[i] \in Nodes
      /\ proc \in [Nodes -> Processes]
  BY LenProperties, ElementOfSeq DEF Inv, TypeInv, TypeOK
<1>2. proc \in Kept
  BY <1>1, KeepTrackReflexive
<1>3. ASSUME NEW i \in 1 .. n, NEW pr \in Kept
      PROVE  More(i, pr) \in Kept
  <2>1. PICK m, q : m = list[i] /\ q = TakeNotify(pr[m])
    OBVIOUS
  <2>2. m \in Nodes /\ pr \in [Nodes -> Processes] /\ KeepTrack(proc, pr)
    BY <1>1, <2>1
  <2>3. q \in Processes /\ KeepsTrack(pr[m], q)
    BY <2>1, <2>2, TakeNotifyKeeps
  <2>4. PICK new : new = [pr EXCEPT ![m] = q]
    OBVIOUS
  <2>5. KeepTrack(pr, new)
    BY <2>2, <2>3, <2>4, OneKeepsTrack
  <2>6. KeepTrack(new, Terminated(new, m))
    BY <2>2, <2>5, TerminatedKeeps DEF KeepTrack
  <2>7. KeepTrack(proc, Terminated(new, m))
    BY <2>2, <2>5, <2>6, KeepTrackTransitive
  <2>8. More(i, pr) = IF proc[m].title = title THEN Terminated(new, m) ELSE pr
    BY <2>1, <2>4
  <2>9. Terminated(new, m) \in [Nodes -> Processes]
    BY <2>6 DEF KeepTrack
  <2> HIDE DEF More
  <2> QED
    BY <2>2, <2>7, <2>8, <2>9
<1>4. \E f : IsAfter(f)
  <2>1. proc \in D[0] /\ \A k \in 0 .. n : D[k] = Kept
    BY <1>1, <1>2
  <2>2. \A k \in 1 .. n : k \in 0 .. n /\ k - 1 \in 0 .. n
    BY <1>1
  <2>3. \A k \in 1 .. n, pr \in Kept : step[<<k, pr>>] = More(k, pr)
    OBVIOUS
  <2> HIDE DEF D, step, More, Kept
  <2>4. ASSUME NEW k \in 1 .. n, NEW pr \in D[k - 1]
        PROVE  step[<<k, pr>>] \in D[k]
    BY <1>3, <2>1, <2>2, <2>3
  <2> HIDE DEF n
  <2>5. PICK f : Follows(f, n, proc, step, D)
    BY <1>1, <2>1, <2>4, Recursion
  <2>6. ASSUME NEW k \in 1 .. n
        PROVE  f[k] = More(k, f[k - 1])
    BY <2>1, <2>2, <2>3, <2>5 DEF Follows
  <2>7. f = [k \in 0 .. n |-> f[k]] /\ f[0] = proc
    BY <2>5 DEF Follows
  <2>8. ASSUME NEW k \in 0 .. n
        PROVE  f[k] = IF k = 0 THEN proc ELSE More(k, f[k - 1])
    <3>1. k # 0 => k \in 1 .. n
      BY <1>1
    <3> QED
      BY <2>6, <2>7, <3>1
  <2>9. IsAfter(f)
    BY <2>7, <2>8 DEF More
  <2> QED
    BY <2>9
<1> DEFINE u == CHOOSE g : IsAfter(g)
<1>5. IsAfter(u)
  <2> HIDE DEF IsAfter
  <2> QED
    BY <1>4
<1>6. proc' = u[n]
  BY DEF NotifyTitle
<1> HIDE DEF u
<1>7. u[0] = proc
  BY <1>1, <1>5
<1>8. ASSUME NEW k \in 1 .. n
      PROVE  u[k] = More(k, u[k - 1])
  <2>1. k \in 0 .. n /\ k # 0
    BY <1>1
  <2> HIDE DEF n
  <2> QED
    BY <1>5, <2>1
<1> DEFINE T == {k \in 0 .. n : u[k] \in Kept}
<1>9. n \in T
  <2>1. 0 \in T
    BY <1>1, <1>2, <1>7
  <2>2. \A k \in 1 .. n : k - 1 \in T => k \in T
    <3> SUFFICES ASSUME NEW k \in 1 .. n, k - 1 \in T
                 PROVE  k \in T
      OBVIOUS
    <3> HIDE DEF More, Kept
    <3>1. More(k, u[k - 1]) \in Kept
      BY <1>3
    <3>2. k \in 0 .. n
      BY <1>1
    <3> QED
      BY <1>8, <3>1, <3>2
  <2> HIDE DEF T, n
  <2>3. \A k \in 0 .. n : k \in T
    BY <1>1, <2>1, <2>2, BoundedInduction
  <2> QED
    BY <1>1, <2>3
<1> QED
  BY <1>6, <1>9

(* TerminateTitle tells every process of the title.                      *)
LEMMA NotifyTitleStep ==
  ASSUME Inv, NotifyTitle
  PROVE  Inv'
<1>1. /\ th["task"].pc = "notify" /\ th["task"].call = "TerminateTitle" /\ Section("task")
      /\ Goto("task", "commit") \/ Step("task", Idle)
      /\ UNCHANGED <<list, free, mon>> /\ UNCHANGED <<g_manager, g_debugNextApplication>>
      /\ UNCHANGED posted /\ UNCHANGED kernel /\ UNCHANGED registered /\ "task" \in Threads
  BY DEF NotifyTitle, managerVars, kernelVars, Threads
<1>2. lock' \in Locks
  BY <1>1, SectionTyped DEF Inv, TypeInv
<1>3. ThreadsKept
  <2>1. CASE Goto("task", "commit")
    BY <1>1, <2>1, TerminationGoto
       DEF LoadingPcs, ThreadPcs, TitledPcs, RebootOnlyPcs, Reboots
  <2>2. CASE Step("task", Idle)
    BY <1>1, <2>2, IdleKept
  <2> QED
    BY <1>1, <2>1, <2>2
<1> QED
  BY <1>1, <1>2, <1>3, TitleTerminatedKeeps, ThreadStep, UnchangedKept

(* The application that is to be replaced is told.                       *)
LEMMA NotifyChainloadedStep ==
  ASSUME Inv, NotifyChainloaded
  PROVE  Inv'
<1>1. PICK r, app : r = th["task"] /\ app = g_manager.runningApplicationData
  OBVIOUS
<1>2. /\ r.pc = "notify" /\ r.call = "ChainloadHomebrewDirty" /\ Section("task")
      /\ UNCHANGED <<list, free, mon>> /\ UNCHANGED <<g_manager, g_debugNextApplication>>
      /\ UNCHANGED posted /\ UNCHANGED kernel /\ UNCHANGED registered /\ "task" \in Threads
  BY <1>1 DEF NotifyChainloaded, managerVars, kernelVars, Threads
<1>3. /\ TypeOK /\ lock' \in Locks /\ app \in NodeOrNull /\ proc \in [Nodes -> Processes]
      /\ r \in ThreadStates /\ Shape(r)
  BY <1>1, <1>2, SectionTyped, ThreadTyped DEF Inv, TypeInv, TypeOK, Managers
<1>4. CASE app = Null
  <2>1. proc' = proc /\ Goto("task", "commit")
    BY <1>1, <1>4 DEF NotifyChainloaded
  <2>2. ThreadsKept
    BY <1>1, <1>2, <2>1, TerminationGoto
       DEF LoadingPcs, ThreadPcs, TitledPcs, RebootOnlyPcs, Reboots
  <2> QED
    BY <1>2, <1>3, <2>1, <2>2, ThreadStep, UnchangedKept
<1>5. CASE app # Null
  <2>1. /\ app \in Nodes /\ proc[app] \in Processes /\ proc[app].flags \in SUBSET ProcessFlags
        /\ proc[app].title \in Titles \cup {Null} /\ proc[app].launchFlags \in SUBSET LaunchFlags
    BY <1>3, <1>5 DEF NodeOrNull, Processes
  <2>2. PICK p, new : /\ p = [proc[app] EXCEPT !.flags = proc[app].flags
                                                         \ {"dependenciesLoaded", "notify"}]
                      /\ new = [proc EXCEPT ![app] = p]
    OBVIOUS
  <2>3. new = [proc EXCEPT ![app].flags = @ \ {"dependenciesLoaded", "notify"}]
    BY <1>3, <2>1, <2>2
  <2>4. /\ proc' = Terminated(new, app)
        /\ Step("task", [r EXCEPT !.pc = "commit", !.title = proc[app].title,
                                  !.flags = proc[app].launchFlags])
    BY <1>1, <1>5, <2>3 DEF NotifyChainloaded
  <2>5. KeepTrack(proc, new)
    <3>1. proc[app].flags \ {"dependenciesLoaded", "notify"} \in SUBSET ProcessFlags
      BY <2>1
    <3>2. p \in Processes /\ KeepsTrack(proc[app], p)
      BY <2>1, <2>2, <3>1, FlagsKeep
    <3> QED
      BY <1>3, <2>2, <3>2, OneKeepsTrack
  <2>6. KeepTrack(new, Terminated(new, app))
    BY <2>1, <2>5, TerminatedKeeps DEF KeepTrack
  <2>7. KeepTrack(proc, proc')
    BY <2>4, <2>5, <2>6, KeepTrackTransitive
  <2>8. PICK q : q = [r EXCEPT !.pc = "commit", !.title = proc[app].title,
                               !.flags = proc[app].launchFlags]
    OBVIOUS
  <2>9. /\ q \in ThreadStates /\ q.pc = "commit" /\ q.call = r.call /\ q.i = r.i
        /\ q.dependencies = r.dependencies /\ q.depProcs = r.depProcs
        /\ q.remrefcounts = r.remrefcounts
    BY <1>3, <2>1, <2>8 DEF ThreadStates, ThreadPcs
  <2>10. Shape(q)
    BY <1>2, <1>3, <2>9 DEF Shape, Bare, LoadingPcs, TitledPcs, RebootOnlyPcs, Reboots
  <2>11. ThreadsKept
    BY <1>1, <1>2, <2>4, <2>8, <2>9, <2>10, StepKept
  <2> QED
    BY <1>2, <1>3, <2>7, <2>11, ThreadStep, UnchangedKept
<1> QED
  BY <1>4, <1>5

(* Before a reboot the caller and its dependencies are looked up.        *)
LEMMA ListCallerStep ==
  ASSUME Inv, ListCaller
  PROVE  Inv'
<1>1. PICK r, caller, titles :
        /\ r = th["task"]
        /\ caller = IF r.call = "LaunchFirm" THEN Null ELSE ProcessByTitleId(r.title)
        /\ titles = IF caller = Null THEN <<>> ELSE Deps[r.title]
  OBVIOUS
<1>2. /\ r.pc = "listCaller" /\ Section("task")
      /\ Step("task", [r EXCEPT !.pc = "notifyAll", !.process = caller, !.dependencies = titles])
      /\ UNCHANGED <<listVars, managerVars, posted, mon, kernelVars>> /\ UNCHANGED posted
      /\ "task" \in Threads
  BY <1>1 DEF ListCaller, Threads
<1>3. TypeOK /\ lock' \in Locks /\ r \in ThreadStates /\ Shape(r)
  BY <1>1, <1>2, SectionTyped, ThreadTyped DEF Inv, TypeInv
<1>4. caller \in NodeOrNull /\ titles \in Seq(Titles)
  <2>1. CASE caller = Null
    BY <1>1, <2>1 DEF NodeOrNull
  <2>2. CASE caller # Null
    <3>1. /\ caller \in Listed /\ proc[caller].title = r.title /\ Listed \subseteq Nodes
          /\ Listed = Elements(list)
      BY <1>1, <1>3, <2>2, ProcessFound
    <3>2. r.title \in Titles
      BY <3>1 DEF Inv, TypeInv, ListInv
    <3> QED
      BY <1>1, <2>2, <3>1, <3>2, TitlesAssumption DEF NodeOrNull
  <2> QED
    BY <2>1, <2>2
<1>5. PICK q : q = [r EXCEPT !.pc = "notifyAll", !.process = caller, !.dependencies = titles]
  OBVIOUS
<1>6. q \in ThreadStates /\ q.pc = "notifyAll" /\ q.call = r.call
  BY <1>3, <1>4, <1>5 DEF ThreadStates, ThreadPcs
<1>7. r.call \in Reboots
  BY <1>2, <1>3 DEF Shape, RebootOnlyPcs
<1>8. Shape(q)
  BY <1>6, <1>7 DEF Shape, RebootPcs, RebootOnlyPcs, LoadingPcs, TitledPcs
<1>9. ThreadsKept
  BY <1>1, <1>2, <1>5, <1>6, <1>8, StepKept
<1> QED
  BY <1>2, <1>3, <1>9, ThreadOnlyStep

(* Every process is told but the kips and what the caller needs.         *)
LEMMA NotifyAllStep ==
  ASSUME Inv, NotifyAll
  PROVE  Inv'
<1>1. /\ th["task"].pc = "notifyAll" /\ Section("task") /\ Goto("task", "commit")
      /\ CountsFit(proc')
      /\ proc' = [n \in Nodes |->
                    IF n \notin Listed \/ "kip" \in ApplicationTold[n].flags THEN ApplicationTold[n]
                    ELSE IF Needed(n) THEN Incref(ApplicationTold[n], 1)
                    ELSE Notified(ApplicationTold[n])]
      /\ UNCHANGED <<list, free, mon>> /\ UNCHANGED <<g_manager, g_debugNextApplication>>
      /\ UNCHANGED posted /\ UNCHANGED kernel /\ UNCHANGED registered /\ "task" \in Threads
  BY DEF NotifyAll, managerVars, kernelVars, Threads
<1>2. PICK app : app = g_manager.runningApplicationData
  OBVIOUS
<1>3. TypeOK /\ app \in NodeOrNull /\ proc \in [Nodes -> Processes] /\ lock' \in Locks
  BY <1>1, <1>2, SectionTyped DEF Inv, TypeInv, TypeOK, Managers
<1>4. PICK new : new = ApplicationTold
  OBVIOUS
<1>5. KeepTrack(proc, new)
  <2>1. CASE app = Null
    BY <1>2, <1>3, <1>4, <2>1, KeepTrackReflexive DEF ApplicationTold
  <2>2. CASE app # Null
    <3>1. PICK p : p = [proc[app] EXCEPT !.flags = proc[app].flags \ {"dependenciesLoaded"}]
      OBVIOUS
    <3>2. /\ app \in Nodes /\ proc[app] \in Processes
          /\ proc[app].flags \ {"dependenciesLoaded"} \in SUBSET ProcessFlags
      BY <1>3, <2>2, FlagsTyped DEF NodeOrNull
    <3>3. p \in Processes /\ KeepsTrack(proc[app], p)
      BY <3>1, <3>2, FlagsKeep
    <3>4. Notified(p) \in Processes /\ KeepsTrack(proc[app], Notified(p))
      BY <3>3, NotifiedKeeps, KeepsTrackTransitive
    <3>5. new = [proc EXCEPT ![app] = Notified(p)]
      BY <1>2, <1>4, <2>2, <3>1 DEF ApplicationTold
    <3> QED
      BY <1>3, <3>2, <3>4, <3>5, OneKeepsTrack
  <2> QED
    BY <2>1, <2>2
<1>6. KeepTrack(new, proc')
  <2> SUFFICES ASSUME NEW n \in Nodes
               PROVE  proc'[n] \in Processes /\ KeepsTrack(new[n], proc'[n])
    <3>1. proc' = [n \in Nodes |-> proc'[n]]
      BY <1>1
    <3> QED
      BY <3>1 DEF KeepTrack
  <2>1. new[n] \in Processes /\ KeepsTrack(new[n], new[n])
    BY <1>5 DEF KeepTrack, KeepsTrack
  <2>2. proc'[n].refcount \in 0 .. 255
    BY <1>1 DEF CountsFit
  <2>3. proc'[n] \in {new[n], Incref(new[n], 1), Notified(new[n])}
    BY <1>1, <1>4
  <2>4. CASE proc'[n] = new[n]
    BY <2>1, <2>4
  <2>5. CASE proc'[n] = Incref(new[n], 1)
    BY <2>1, <2>2, <2>5, IncrefKeeps
  <2>6. CASE proc'[n] = Notified(new[n])
    BY <2>1, <2>6, NotifiedKeeps
  <2> QED
    BY <2>3, <2>4, <2>5, <2>6
<1>7. KeepTrack(proc, proc')
  BY <1>5, <1>6, KeepTrackTransitive
<1>8. ThreadsKept
  BY <1>1, TerminationGoto DEF LoadingPcs, ThreadPcs, TitledPcs, RebootPcs, RebootOnlyPcs
<1> QED
  BY <1>1, <1>3, <1>7, <1>8, ThreadStep, UnchangedKept

(* Then the kips are told.                                               *)
LEMMA KipsStep ==
  ASSUME Inv, BeginKips \/ NotifyKips
  PROVE  Inv'
<1>1. /\ UNCHANGED <<list, free, mon>> /\ UNCHANGED g_debugNextApplication
      /\ UNCHANGED posted /\ UNCHANGED kernel /\ UNCHANGED registered /\ "task" \in Threads
      /\ th["task"] \in ThreadStates /\ Shape(th["task"])
  BY ThreadTyped DEF BeginKips, NotifyKips, managerVars, listVars, kernelVars, Threads
<1>2. proc \in [Nodes -> Processes] /\ g_manager \in Managers /\ TypeOK
  BY DEF Inv, TypeInv, TypeOK
<1>3. CASE BeginKips
  <2>1. /\ UNCHANGED proc /\ UNCHANGED lock
        /\ th["task"].pc = "beginKips" /\ Goto("task", "notifyKips")
    BY <1>3 DEF BeginKips, listVars
  <2>2. ManagerKept
    BY <1>1, <1>2, <1>3 DEF BeginKips, ManagerKept, Managers, TypeOK
  <2>3. th["task"].call \in Reboots
    BY <1>1, <2>1 DEF Shape, RebootOnlyPcs
  <2>4. ThreadsKept
    BY <1>1, <2>1, <2>3, TerminationGoto DEF LoadingPcs, ThreadPcs, TitledPcs, RebootPcs, RebootOnlyPcs
  <2> QED
    BY <1>1, <2>1, <2>2, <2>4, ThreadStep, UnchangedKept
<1>4. CASE NotifyKips
  <2>1. PICK r : r = th["task"]
    OBVIOUS
  <2>2. /\ UNCHANGED <<g_manager, g_debugNextApplication>> /\ Section("task")
        /\ r.pc = "notifyKips" /\ Step("task", [r EXCEPT !.pc = "commit", !.i = 1])
        /\ proc' = [n \in Nodes |-> IF n \in Listed /\ "kip" \in proc[n].flags
                                     THEN Notified(proc[n]) ELSE proc[n]]
    BY <1>4, <2>1 DEF NotifyKips, managerVars
  <2>3. lock' \in Locks
    BY <1>1, <1>2, <2>2, SectionTyped
  <2>4. KeepTrack(proc, proc')
    <3>1. ASSUME NEW n \in Nodes
          PROVE  proc'[n] \in Processes /\ KeepsTrack(proc[n], proc'[n])
      <4>1. proc[n] \in Processes /\ KeepsTrack(proc[n], proc[n])
        BY <1>2 DEF KeepsTrack
      <4> QED
        BY <2>2, <4>1, NotifiedKeeps
    <3> QED
      BY <2>2, <3>1 DEF KeepTrack
  <2>5. PICK q : q = [r EXCEPT !.pc = "commit", !.i = 1]
    OBVIOUS
  <2>6. q \in ThreadStates /\ q.pc = "commit" /\ q.call = r.call
    BY <1>1, <2>1, <2>5 DEF ThreadStates, ThreadPcs
  <2>7. r.call \in Reboots
    BY <1>1, <2>1, <2>2 DEF Shape, RebootOnlyPcs
  <2>8. Shape(q)
    BY <2>6, <2>7 DEF Shape, RebootPcs, RebootOnlyPcs, LoadingPcs, TitledPcs
  <2>9. ThreadsKept
    BY <1>1, <2>1, <2>2, <2>5, <2>6, <2>8, StepKept
  <2> QED
    BY <1>1, <2>2, <2>3, <2>4, <2>9, ThreadStep, UnchangedKept
<1> QED
  BY <1>3, <1>4

(* commitPendingTerminations, and the wait.                                *)
LEMMA CommitStep ==
  ASSUME Inv, NEW t \in Threads, Commit(t) \/ Timeout(t)
  PROVE  Inv'
<1>1. /\ th[t].pc \in {"commit", "wait"} /\ Section(t)
      /\ UNCHANGED <<list, free, mon>> /\ UNCHANGED proc
      /\ UNCHANGED <<g_manager, g_debugNextApplication>>
      /\ UNCHANGED posted /\ UNCHANGED registered
      /\ \E nodes : kernel' = Terminate(nodes)
      /\ \E pc \in {"wait", "end", "waitForKilled"} : Goto(t, pc)
  BY DEF Commit, Timeout, listVars, managerVars
<1>2. TypeOK
  BY DEF Inv, TypeInv
<1>3. lock' \in Locks /\ KernelKept
  BY <1>1, <1>2, SectionTyped, TerminateKeeps DEF KernelKept
<1>4. ThreadsKept
  <2>1. PICK pc \in {"wait", "end", "waitForKilled"} : Goto(t, pc)
    BY <1>1
  <2> QED
    BY <1>1, <2>1, TerminationGoto DEF LoadingPcs, ThreadPcs, TitledPcs, RebootPcs, RebootOnlyPcs
<1> QED
  BY <1>1, <1>3, <1>4, ThreadStep, UnchangedKept

(* The wait for the processes that were told ends.                       *)
LEMMA EndStep ==
  ASSUME Inv, NEW t \in Threads, AllNotifiedEnded(t) \/ End(t)
  PROVE  Inv'
<1>1. /\ UNCHANGED <<list, free, mon>> /\ UNCHANGED proc /\ UNCHANGED lock
      /\ UNCHANGED g_debugNextApplication /\ UNCHANGED posted
      /\ UNCHANGED registered /\ UNCHANGED kernel
      /\ th[t].pc \in {"wait", "waitForKilled", "end"}
  BY DEF AllNotifiedEnded, End, listVars, kernelVars
<1>2. ManagerKept
  BY <1>1 DEF AllNotifiedEnded, End, ManagerKept, Managers, Inv, TypeInv, TypeOK
<1>3. th[t].pc # "setUp" /\ th[t].pc \notin LoadingPcs
  BY <1>1 DEF LoadingPcs
<1>4. ThreadsKept
  <2>1. CASE Step(t, Idle)
    BY <1>1, <1>3, <2>1, IdleKept
  <2>2. CASE Goto(t, "end")
    BY <1>1, <1>3, <2>2, TerminationGoto DEF LoadingPcs, ThreadPcs, TitledPcs, RebootPcs, RebootOnlyPcs
  <2>3. CASE th[t].call \in Reboots /\ \E pc \in {"beginKips", "rebooted"} : Goto(t, pc)
    BY <1>1, <1>3, <2>3, TerminationGoto DEF LoadingPcs, ThreadPcs, TitledPcs, RebootPcs, RebootOnlyPcs
  <2>4. CASE /\ th[t].call = "ChainloadHomebrewDirty" /\ th[t].title # Null
             /\ Goto(t, "waitGone")
    <3>1. PICK r, q : r = th[t] /\ q = [r EXCEPT !.pc = "waitGone"]
      OBVIOUS
    <3>2. r \in ThreadStates /\ Shape(r) /\ r.title \in Titles \cup {Null} /\ "waitGone" \in ThreadPcs
      BY <3>1, ThreadTyped DEF ThreadPcs
    <3>3. /\ q \in ThreadStates /\ q.pc = "waitGone" /\ q.call = r.call /\ q.title = r.title
          /\ q.i = r.i /\ q.dependencies = r.dependencies /\ q.depProcs = r.depProcs
          /\ q.remrefcounts = r.remrefcounts
      BY <3>1, <3>2, GotoTyped
    <3>4. Shape(q)
      BY <1>3, <2>4, <3>1, <3>2, <3>3 DEF Shape, Bare, Reboots, RebootOnlyPcs, LoadingPcs
    <3> QED
      BY <1>1, <1>3, <2>4, <3>1, <3>3, <3>4, StepKept DEF Goto
  <2> QED
    BY <2>1, <2>2, <2>3, <2>4 DEF AllNotifiedEnded, End, Reboots
<1> QED
  BY <1>1, <1>2, <1>4, ThreadStep, UnchangedKept

(* The application that replaces the terminated one is launched.         *)
LEMMA RelaunchStep ==
  ASSUME Inv, Relaunch
  PROVE  Inv'
<1>1. PICK r, flags : r = th["task"] /\ flags = (r.flags \ {"update", "queue"}) \cup {"fake"}
  OBVIOUS
<1>2. /\ r.pc = "waitGone" /\ Section("task")
      /\ Step("task", [r EXCEPT !.pc = "lookUp", !.call = "LaunchTitle", !.flags = flags])
      /\ UNCHANGED <<listVars, managerVars, posted, mon, kernelVars>> /\ UNCHANGED posted
      /\ "task" \in Threads
  BY <1>1 DEF Relaunch, Threads
<1>3. lock' \in Locks /\ r \in ThreadStates /\ Shape(r) /\ flags \in SUBSET LaunchFlags
  BY <1>1, <1>2, SectionTyped, ThreadTyped DEF Inv, TypeInv, LaunchFlags
<1>4. r.title \in Titles /\ Bare(r)
  BY <1>2, <1>3 DEF Shape, RebootPcs, RebootOnlyPcs, LoadingPcs, TitledPcs
<1>5. PICK q : q = [r EXCEPT !.pc = "lookUp", !.call = "LaunchTitle", !.flags = flags]
  OBVIOUS
<1>6. q \in ThreadStates /\ q.pc = "lookUp" /\ q.call = "LaunchTitle" /\ q.title = r.title /\ Bare(q)
  BY <1>3, <1>4, <1>5 DEF ThreadStates, ThreadPcs, Bare, Calls, Launches
<1>7. Shape(q)
  BY <1>4, <1>6, BareShape DEF Reboots, RebootOnlyPcs
<1>8. ThreadsKept
  BY <1>1, <1>2, <1>5, <1>6, <1>7, StepKept
<1> QED
  BY <1>2, <1>3, <1>8, ThreadOnlyStep

(* What both threads do to terminate.                                      *)
LEMMA TerminationStep ==
  ASSUME Inv, NEW t \in Threads, Termination(t)
  PROVE  Inv'
  BY BeginStep, CommitStep, EndStep DEF Termination

-----------------------------------------------------------------------------
(* The monitor *)

(* A step of the monitor that leaves the lists and the other threads.      *)
LEMMA MonitorStep ==
  ASSUME Inv, UNCHANGED <<list, free, th, posted, kernel>>, UNCHANGED g_debugNextApplication,
         KeepTrack(proc, proc'), g_manager' \in Managers, lock' \in Locks,
         registered' \subseteq Pids, mon' \in MonitorStates,
         mon'.pc = "ended" => mon'.id \in Pids /\ kernel[mon'.id] = "dead",
         mon'.pc \in {"signal", "wait"} =>
           /\ mon.pc \in {"signal", "wait"} /\ mon'.handles = mon.handles
           /\ g_manager.newProcessEvent => g_manager'.newProcessEvent
  PROVE  Inv'
<1>1. TypeOK /\ TypeOK' /\ ThreadInv'
  BY DEF Inv, TypeInv, TypeOK, ThreadInv, KeepTrack, Locks
<1>2. Undisturbed
  BY DEF Undisturbed, KeepTrack
<1> QED
  BY <1>1, <1>2, UndisturbedPreserves

(* What a new process holds has its type.                                *)
LEMMA NewProcessTyped ==
  ASSUME NEW pid \in 0 .. MaxPid, NEW title \in Titles \cup {Null},
         NEW launch \in SUBSET LaunchFlags
  PROVE  LET p == NewProcess(pid, title, launch) IN
         /\ p \in Processes /\ p.pid = pid /\ p.title = title /\ p.status = "running"
<1>1. PICK p : p = NewProcess(pid, title, launch)
  OBVIOUS
<1>2. {} \in SUBSET ProcessFlags /\ 1 \in 0 .. 255
  OBVIOUS
<1>3. p \in Processes /\ p.pid = pid /\ p.title = title /\ p.status = "running"
  BY <1>1, <1>2 DEF NewProcess, Processes
<1> QED
  BY <1>1, <1>3

(* So has what an unused node holds.                                     *)
LEMMA NoProcessTyped ==
  NoProcess \in Processes /\ NoProcess.status = "running"
<1>1. PICK p : p = NewProcess(0, Null, {})
  OBVIOUS
<1>2. 0 \in 0 .. MaxPid /\ Null \in Titles \cup {Null} /\ {} \in SUBSET LaunchFlags
  BY TitlesAssumption
<1>3. p \in Processes /\ p.status = "running"
  BY <1>1, <1>2, NewProcessTyped
<1>4. NoProcess = [p EXCEPT !.refcount = 0] /\ 0 \in 0 .. 255
  BY <1>1 DEF NoProcess
<1> QED
  BY <1>3, <1>4 DEF Processes

(* And the monitor that has no process to clean up after.                *)
LEMMA NoCleanupTyped ==
  NoCleanup \in MonitorStates /\ NoCleanup.pc = "rebuild"
<1>1. NoProcess \in Processes
  BY NoProcessTyped
<1>2. 0 \in 0 .. MaxPid
  BY TitlesAssumption
<1> QED
  BY <1>1, <1>2 DEF NoCleanup, MonitorStates

(* Every process that has not been seen to end is in the array.            *)
LEMMA RebuildStep ==
  ASSUME Inv, Rebuild
  PROVE  Inv'
<1>1. /\ Section("mon") /\ UNCHANGED <<list, free, proc>>
      /\ UNCHANGED <<g_manager, g_debugNextApplication>> /\ UNCHANGED <<posted, th, kernel, registered>>
  BY DEF Rebuild, listVars, managerVars, kernelVars
<1>2. TypeOK /\ ListInv /\ ThreadInv /\ KeptInv /\ lock' \in Locks
  BY <1>1, SectionTyped DEF Inv, TypeInv
<1>3. Listed = Elements(list)
  BY DEF Listed, Range, Elements
<1>4. PICK hs, b : /\ hs = {proc[n].pid : n \in Monitored}
                   /\ b = (\E n \in Monitored : proc[n].status = "sent")
  OBVIOUS
<1>5. hs \in SUBSET Pids /\ b \in BOOLEAN
  <2>1. hs \in SUBSET Pids
    BY <1>2, <1>3, <1>4 DEF Monitored, ListInv
  <2>2. b \in BOOLEAN
    BY <1>4
  <2> QED
    BY <2>1, <2>2
<1>6. mon' = [NoCleanup EXCEPT !.pc = "signal", !.handles = hs, !.terminating = b]
  BY <1>4 DEF Rebuild
<1>7. mon' \in MonitorStates /\ mon'.pc = "signal" /\ mon'.handles = hs
  BY <1>5, <1>6, NoCleanupTyped DEF MonitorStates
<1>8. TypeOK'
  BY <1>1, <1>2, <1>7 DEF TypeOK, Locks
<1>9. ThreadInv' /\ ListInv' /\ KeptInv'
  BY <1>1, <1>2, <1>3 DEF ThreadInv, ListInv, KeptInv, Listed
<1>10. EndedInv'
  BY <1>7 DEF EndedInv
<1>11. EveryProcessIsWatched'
  BY <1>1, <1>4, <1>7 DEF EveryProcessIsWatched, ToBeWatched, Monitored, Listed
<1> QED
  BY <1>8, <1>9, <1>10, <1>11 DEF Inv, TypeInv

(* The monitor signals a finished termination, or wakes up.              *)
LEMMA WaitingSteps ==
  ASSUME Inv, Signal \/ NewProcessArrived \/ ProcessEnded
  PROVE  Inv'
<1>1. /\ UNCHANGED <<list, free, th, posted, kernel>> /\ UNCHANGED g_debugNextApplication
      /\ UNCHANGED proc /\ UNCHANGED lock /\ UNCHANGED registered
  BY DEF Signal, NewProcessArrived, ProcessEnded, listVars, managerVars, kernelVars
<1>2. KeepTrack(proc, proc') /\ lock' \in Locks /\ registered' \subseteq Pids
  BY <1>1, UnchangedKept
<1>3. mon \in MonitorStates /\ g_manager \in Managers
  BY DEF Inv, TypeInv, TypeOK
<1>4. CASE Signal
  <2>1. mon.pc = "signal" /\ mon' = [mon EXCEPT !.pc = "wait"]
    BY <1>4 DEF Signal
  <2>2. mon' \in MonitorStates /\ mon'.pc = "wait" /\ mon'.handles = mon.handles
    BY <1>3, <2>1 DEF MonitorStates
  <2>3. g_manager' \in Managers /\ g_manager'.newProcessEvent = g_manager.newProcessEvent
    BY <1>3, <1>4 DEF Signal, Managers
  <2> QED
    BY <1>1, <1>2, <2>1, <2>2, <2>3, MonitorStep
<1>5. CASE NewProcessArrived
  <2>1. mon' = NoCleanup /\ g_manager' = [g_manager EXCEPT !.newProcessEvent = FALSE]
    BY <1>5 DEF NewProcessArrived
  <2>2. g_manager' \in Managers
    BY <1>3, <2>1 DEF Managers
  <2> QED
    BY <1>1, <1>2, <2>1, <2>2, NoCleanupTyped, MonitorStep
<1>6. CASE ProcessEnded
  <2>1. UNCHANGED g_manager
    BY <1>6 DEF ProcessEnded, managerVars
  <2>2. PICK p \in mon.handles : kernel[p] = "dead" /\ mon' = [mon EXCEPT !.pc = "ended", !.id = p]
    BY <1>6 DEF ProcessEnded
  <2>3. p \in Pids /\ p \in 0 .. MaxPid
    BY <1>3, <2>2, TitlesAssumption DEF MonitorStates, Pids
  <2>4. mon' \in MonitorStates /\ mon'.pc = "ended" /\ mon'.id = p
    BY <1>3, <2>2, <2>3 DEF MonitorStates
  <2> QED
    BY <1>1, <1>2, <1>3, <2>1, <2>2, <2>3, <2>4, MonitorStep
<1> QED
  BY <1>4, <1>5, <1>6

(* The end of a process: it is marked for the client that wants to be told *)
(* of it, or leaves the list.                                              *)
LEMMA EndedStep ==
  ASSUME Inv, Ended
  PROVE  Inv'
<1>1. PICK n : n = ProcessById(mon.id)
  OBVIOUS
<1>2. /\ mon.pc = "ended" /\ Section("mon") /\ UNCHANGED <<posted, th, kernel, registered>>
      /\ UNCHANGED <<g_manager, g_debugNextApplication>>
  BY DEF Ended, managerVars, kernelVars
<1>3. /\ TypeOK /\ ThreadInv /\ ListInv /\ KeptInv /\ EndedInv /\ lock' \in Locks
      /\ proc \in [Nodes -> Processes] /\ g_manager \in Managers
  BY <1>2, SectionTyped DEF Inv, TypeInv, TypeOK
<1>4. CASE n = Null
  <2>1. mon' = NoCleanup /\ UNCHANGED <<list, free>> /\ UNCHANGED proc
    BY <1>1, <1>4 DEF Ended, listVars
  <2>2. KeepTrack(proc, proc') /\ registered' \subseteq Pids
    BY <1>2, <2>1, UnchangedKept
  <2>3. g_manager' \in Managers /\ UNCHANGED <<list, free, th, posted, kernel>>
        /\ UNCHANGED g_debugNextApplication
    BY <1>2, <1>3, <2>1
  <2> QED
    BY <1>3, <2>1, <2>2, <2>3, NoCleanupTyped, MonitorStep
<1>5. CASE n # Null
  <2>1. n \in Listed /\ proc[n].pid = mon.id /\ n \in Nodes /\ Listed = Elements(list)
    BY <1>1, <1>3, <1>5, ProcessFound
  <2>2. PICK flags : flags = proc[n].flags \cup
                       IF "notify" \in proc[n].flags THEN {"notifyTerminated"} ELSE {}
    OBVIOUS
  <2>3. PICK p : p = [proc[n] EXCEPT !.status = "terminated", !.flags = flags]
    OBVIOUS
  <2>4. flags \in SUBSET ProcessFlags
    BY <2>1, <2>2, FlagsTyped DEF ProcessFlags
  <2>5. /\ p \in Processes /\ p.status = "terminated" /\ p.flags = flags
        /\ p.pid = proc[n].pid /\ p.title = proc[n].title
    <3>1. proc[n] \in Processes
      BY <1>3, <2>1
    <3> QED
      BY <2>3, <2>4, <3>1 DEF Processes
  <2>6. /\ proc' = [proc EXCEPT ![n] = p]
        /\ IF "notifyTerminated" \in p.flags THEN UNCHANGED <<list, free>> ELSE Delete(n)
        /\ mon' = [NoCleanup EXCEPT !.backup = p,
                     !.pc = IF "dependenciesLoaded" \in p.flags THEN "release" ELSE "unregister"]
    BY <1>1, <1>5, <2>2, <2>3 DEF Ended
  <2>7. proc' \in [Nodes -> Processes] /\ proc'[n] = p /\ \A m \in Nodes : m # n => proc'[m] = proc[m]
    BY <1>3, <2>1, <2>5, <2>6
  <2>8. mon' \in MonitorStates /\ mon'.pc \in {"release", "unregister"}
    BY <2>5, <2>6, NoCleanupTyped DEF MonitorStates
  <2>9. /\ list' \in Seq(Nodes) /\ free' \in Seq(Nodes)
        /\ Distinct(list') /\ Distinct(free')
        /\ Elements(list') \cap Elements(free') = {}
        /\ Elements(list') \cup Elements(free') = Nodes
        /\ Elements(list') \subseteq Elements(list)
        /\ n \in Elements(list') => "notifyTerminated" \in p.flags
    <3>1. CASE "notifyTerminated" \in p.flags
      BY <1>3, <2>6, <3>1 DEF TypeOK, ListInv
    <3>2. CASE "notifyTerminated" \notin p.flags
      <4>1. Delete(n)
        BY <2>6, <3>2
      <4> QED
        BY <2>1, <4>1, Deleted
    <3> QED
      BY <3>1, <3>2
  <2>10. TypeOK'
    BY <1>2, <1>3, <2>7, <2>8, <2>9 DEF TypeOK, Locks
  <2>11. ThreadInv'
    BY <1>2, <1>3 DEF ThreadInv
  <2>12. Elements(list) \subseteq Nodes
    BY <1>3 DEF ListInv
  <2>13. ListInv'
    <3>1. \A m \in Elements(list') : proc'[m].pid \in Pids /\ proc'[m].title \in Titles
      BY <1>3, <2>1, <2>5, <2>7, <2>9, <2>12 DEF ListInv
    <3> QED
      BY <2>9, <3>1 DEF ListInv
  <2>14. KeptInv'
    <3>1. Listed' = Elements(list')
      BY DEF Listed, Range, Elements
    <3>2. kernel[proc[n].pid] = "dead"
      BY <1>2, <1>3, <2>1 DEF EndedInv
    <3>3. SUFFICES ASSUME NEW m \in Elements(list'), proc'[m].status = "terminated"
                   PROVE  kernel'[proc'[m].pid] = "dead" /\ "notifyTerminated" \in proc'[m].flags
      BY <3>1 DEF KeptInv
    <3>4. CASE m = n
      BY <1>2, <2>5, <2>7, <2>9, <3>2, <3>3, <3>4
    <3>5. CASE m # n
      BY <1>2, <1>3, <2>1, <2>7, <2>9, <2>12, <3>3, <3>5 DEF KeptInv
    <3> QED
      BY <3>4, <3>5
  <2>15. EndedInv' /\ EveryProcessIsWatched'
    BY <2>8 DEF EndedInv, EveryProcessIsWatched
  <2> QED
    BY <2>10, <2>11, <2>13, <2>14, <2>15 DEF Inv, TypeInv
<1> QED
  BY <1>4, <1>5

(* The monitor cleans up after a process that is out of the list.        *)
LEMMA CleanupSteps ==
  ASSUME Inv, ReleaseDependencies \/ Unregister \/ Forget
  PROVE  Inv'
<1>1. /\ UNCHANGED <<list, free, th, posted, kernel>> /\ UNCHANGED g_debugNextApplication
  BY DEF ReleaseDependencies, Unregister, Forget, listVars, managerVars, kernelVars
<1>2. /\ mon \in MonitorStates /\ g_manager \in Managers /\ TypeOK
      /\ proc \in [Nodes -> Processes] /\ registered \subseteq Pids
  BY DEF Inv, TypeInv, TypeOK
<1>3. lock' \in Locks
  <2>1. Section("mon") \/ UNCHANGED lock
    BY DEF ReleaseDependencies, Unregister, Forget
  <2> QED
    BY <1>2, <2>1, SectionTyped, UnchangedKept
<1>4. CASE ReleaseDependencies
  <2>1. /\ mon' = [mon EXCEPT !.pc = "unregister"] /\ UNCHANGED g_manager /\ UNCHANGED registered
        /\ \E titles : proc' = Released(proc, titles)
    BY <1>4 DEF ReleaseDependencies, managerVars, kernelVars
  <2>2. KeepTrack(proc, proc')
    BY <1>2, <2>1, ReleasedKeeps
  <2>3. mon' \in MonitorStates /\ mon'.pc = "unregister"
    BY <1>2, <2>1 DEF MonitorStates
  <2> QED
    BY <1>1, <1>2, <1>3, <2>1, <2>2, <2>3, MonitorStep
<1>5. CASE Unregister
  <2>1. /\ mon' = [mon EXCEPT !.pc = "forget"] /\ UNCHANGED g_manager /\ UNCHANGED proc
        /\ registered' \subseteq registered
    BY <1>5 DEF Unregister, managerVars, listVars
  <2>2. KeepTrack(proc, proc')
    BY <2>1, UnchangedKept
  <2>3. mon' \in MonitorStates /\ mon'.pc = "forget"
    BY <1>2, <2>1 DEF MonitorStates
  <2> QED
    BY <1>1, <1>2, <1>3, <2>1, <2>2, <2>3, MonitorStep
<1>6. CASE Forget
  <2>1. /\ mon' = NoCleanup /\ UNCHANGED proc /\ UNCHANGED registered
        /\ g_manager' = [g_manager EXCEPT
              !.runningApplicationData = Forgotten(g_manager.runningApplicationData),
              !.debugData = Forgotten(g_manager.debugData)]
    BY <1>6 DEF Forget, listVars, kernelVars
  <2>2. \A x \in NodeOrNull : Forgotten(x) \in NodeOrNull
    BY DEF Forgotten, NodeOrNull
  <2>3. g_manager' \in Managers
    BY <1>2, <2>1, <2>2 DEF Managers
  <2>4. KeepTrack(proc, proc') /\ registered' \subseteq Pids
    BY <1>2, <2>1, UnchangedKept
  <2> QED
    BY <1>1, <1>3, <2>1, <2>3, <2>4, NoCleanupTyped, MonitorStep
<1> QED
  BY <1>4, <1>5, <1>6

(* A process ends.                                                       *)
LEMMA ProcessEndsStep ==
  ASSUME Inv, ProcessEnds
  PROVE  Inv'
<1>1. /\ UNCHANGED <<list, free, mon>> /\ UNCHANGED proc /\ UNCHANGED <<th, posted>>
      /\ UNCHANGED <<g_manager, g_debugNextApplication>> /\ UNCHANGED lock /\ UNCHANGED registered
      /\ \E p \in Pids : kernel' = [kernel EXCEPT ![p] = "dead"]
  BY DEF ProcessEnds, listVars, managerVars
<1>2. KernelKept
  BY <1>1 DEF KernelKept, Inv, TypeInv, TypeOK
<1> QED
  BY <1>1, <1>2, ThreadStep, UnchangedKept

-----------------------------------------------------------------------------
(* The invariant *)

(* The invariant holds at first: the monitor is about to build its array.*)
LEMMA InitInv == Init => Inv
<1> SUFFICES ASSUME Init
             PROVE  Inv
  OBVIOUS
<1>1. PICK k, N : k = Len(Kips) /\ N = Len(FreeOrder)
  OBVIOUS
<1>2. /\ k \in Nat /\ N \in Nat /\ k <= N /\ k <= MaxPid
      /\ FreeOrder \in Seq(Nodes) /\ DOMAIN FreeOrder = 1 .. N
      /\ \A i \in 1 .. N : FreeOrder[i] \in Nodes
      /\ \A i \in 1 .. k : Kips[i] \in Titles
  BY <1>1, PoolAssumption, TitlesAssumption, LenProperties, ElementOfSeq
<1>3. /\ \A n \in Nodes : \E i \in 1 .. N : FreeOrder[i] = n
      /\ \A i, j \in 1 .. N : FreeOrder[i] = FreeOrder[j] => i = j
  BY <1>2, PoolAssumption DEF Range, IsInjective
<1>4. list = SubSeq(FreeOrder, 1, k) /\ free = SubSeq(FreeOrder, k + 1, N)
  BY <1>1 DEF Init
<1>5. /\ list \in Seq(Nodes) /\ Len(list) = k /\ \A i \in 1 .. k : list[i] = FreeOrder[i]
  <2>1. 1 \in Int /\ k \in Int /\ \A i \in 1 .. k : FreeOrder[i] \in Nodes
    BY <1>2
  <2>2. /\ list \in Seq(Nodes) /\ Len(list) = IF 1 <= k THEN k - 1 + 1 ELSE 0
        /\ \A i \in 1 .. k - 1 + 1 : list[i] = FreeOrder[1 + i - 1]
    BY <1>4, <2>1, SubSeqProperties
  <2> QED
    BY <1>2, <2>2
<1>6. /\ free \in Seq(Nodes) /\ Len(free) = N - k
      /\ \A i \in 1 .. N - k : free[i] = FreeOrder[k + i]
  <2>1. k + 1 \in Int /\ N \in Int /\ \A i \in k + 1 .. N : FreeOrder[i] \in Nodes
    BY <1>2
  <2>2. /\ free \in Seq(Nodes) /\ Len(free) = IF k + 1 <= N THEN N - (k + 1) + 1 ELSE 0
        /\ \A i \in 1 .. N - (k + 1) + 1 : free[i] = FreeOrder[k + 1 + i - 1]
    BY <1>4, <2>1, SubSeqProperties
  <2> QED
    BY <1>2, <2>2
<1>7. DOMAIN list = 1 .. k /\ DOMAIN free = 1 .. N - k
  BY <1>5, <1>6, LenProperties
<1>8. /\ Distinct(list) /\ Distinct(free) /\ Elements(list) \cap Elements(free) = {}
      /\ Elements(list) \cup Elements(free) = Nodes
  <2>1. \A i \in 1 .. N - k : k + i \in 1 .. N
    BY <1>2
  <2>2. Distinct(list)
    BY <1>2, <1>3, <1>5, <1>7 DEF Distinct
  <2>3. Distinct(free)
    BY <1>2, <1>3, <1>6, <1>7, <2>1 DEF Distinct
  <2>4. ASSUME NEW i \in 1 .. k, NEW j \in 1 .. N - k
        PROVE  list[i] # free[j]
    <3>1. i \in 1 .. N /\ k + j \in 1 .. N /\ i # k + j
      BY <1>2, <2>1
    <3> QED
      BY <1>3, <1>5, <1>6, <3>1
  <2>5. ASSUME NEW n \in Nodes
        PROVE  n \in Elements(list) \cup Elements(free)
    <3>1. PICK i \in 1 .. N : FreeOrder[i] = n
      BY <1>3
    <3>2. CASE i <= k
      BY <1>2, <1>5, <1>7, <3>1, <3>2 DEF Elements
    <3>3. CASE i > k
      <4>1. i - k \in 1 .. N - k /\ k + (i - k) = i
        BY <1>2, <3>3
      <4>2. free[i - k] = n
        BY <1>6, <3>1, <4>1
      <4> QED
        BY <1>7, <4>1, <4>2 DEF Elements
    <3> QED
      BY <1>2, <3>2, <3>3
  <2>6. Elements(list) \subseteq Nodes /\ Elements(free) \subseteq Nodes
    BY <1>2, <1>5, <1>6, <1>7, <2>1 DEF Elements
  <2> QED
    BY <1>7, <2>2, <2>3, <2>4, <2>5, <2>6 DEF Elements
<1>9. \A i \in 1 .. k : LET p == [NewProcess(i, Kips[i], {}) EXCEPT !.flags = {"kip"}] IN
        /\ p \in Processes /\ p.pid \in Pids /\ p.title \in Titles /\ p.status = "running"
  <2> TAKE i \in 1 .. k
  <2>1. PICK q, p : q = NewProcess(i, Kips[i], {}) /\ p = [q EXCEPT !.flags = {"kip"}]
    OBVIOUS
  <2>2. /\ i \in 0 .. MaxPid /\ i \in Pids /\ Kips[i] \in Titles
        /\ {} \in SUBSET LaunchFlags /\ {"kip"} \in SUBSET ProcessFlags
    <3>1. i \in Nat /\ i <= MaxPid /\ 1 <= i
      <4>1. k \in Nat /\ MaxPid \in Nat /\ k <= MaxPid
        BY <1>2, TitlesAssumption
      <4> QED
        BY <4>1
    <3>2. i \in 0 .. MaxPid /\ i \in Pids
      BY <3>1, TitlesAssumption DEF Pids
    <3> QED
      BY <1>2, <3>2 DEF ProcessFlags
  <2>3. q \in Processes /\ q.pid = i /\ q.title = Kips[i] /\ q.status = "running"
    BY <2>1, <2>2, NewProcessTyped
  <2>4. p \in Processes /\ p.pid = i /\ p.title = Kips[i] /\ p.status = "running"
    BY <2>1, <2>2, <2>3 DEF Processes
  <2> QED
    BY <2>1, <2>2, <2>4
<1>10. NoProcess \in Processes /\ NoProcess.status = "running"
  BY NoProcessTyped
<1>11. \A n \in Nodes : \E i \in 1 .. N :
         /\ FreeOrder[i] = n
         /\ proc[n] = IF i <= k THEN [NewProcess(i, Kips[i], {}) EXCEPT !.flags = {"kip"}]
                      ELSE NoProcess
  <2> TAKE n \in Nodes
  <2>1. PICK i : i = CHOOSE j \in DOMAIN FreeOrder : FreeOrder[j] = n
    OBVIOUS
  <2>2. i \in 1 .. N /\ FreeOrder[i] = n
    BY <1>2, <1>3, <2>1
  <2>3. proc[n] = IF i <= k THEN [NewProcess(i, Kips[i], {}) EXCEPT !.flags = {"kip"}]
                  ELSE NoProcess
    BY <1>1, <2>1 DEF Init
  <2> QED
    BY <2>2, <2>3
<1>12. \A n \in Nodes : proc[n] \in Processes /\ proc[n].status = "running"
  <2> TAKE n \in Nodes
  <2>1. PICK i \in 1 .. N :
          proc[n] = IF i <= k THEN [NewProcess(i, Kips[i], {}) EXCEPT !.flags = {"kip"}]
                    ELSE NoProcess
    BY <1>11
  <2>2. i <= k => i \in 1 .. k
    BY <1>2
  <2> QED
    BY <1>9, <1>10, <2>1, <2>2
<1>13. proc \in [Nodes -> Processes]
  BY <1>12 DEF Init
<1>14. \A n \in Elements(list) : proc[n].pid \in Pids /\ proc[n].title \in Titles
  <2> TAKE n \in Elements(list)
  <2>1. PICK j \in 1 .. k : n = FreeOrder[j]
    BY <1>5, <1>7 DEF Elements
  <2>2. j \in 1 .. N /\ n \in Nodes
    BY <1>2, <2>1
  <2>3. PICK i \in 1 .. N :
          /\ FreeOrder[i] = n
          /\ proc[n] = IF i <= k THEN [NewProcess(i, Kips[i], {}) EXCEPT !.flags = {"kip"}]
                       ELSE NoProcess
    BY <1>11, <2>2
  <2>4. i = j
    BY <1>3, <2>1, <2>2, <2>3
  <2> QED
    BY <1>2, <1>9, <2>1, <2>3, <2>4
<1>15. g_manager \in Managers /\ lock \in Locks /\ posted = Null
  BY DEF Init, Managers, NodeOrNull, Locks
<1>16. th \in [Threads -> ThreadStates] /\ \A t \in Threads : th[t] = Idle
  BY IdleTyped DEF Init, Threads
<1>17. /\ kernel \in [Pids -> {"none", "created", "running", "dead"}]
       /\ registered \subseteq Pids /\ g_debugNextApplication \in BOOLEAN
  <2>1. kernel = [p \in Pids |-> IF p <= Len(Kips) THEN "running" ELSE "none"]
        /\ registered = 1 .. Len(Kips) /\ g_debugNextApplication = FALSE
    BY DEF Init
  <2>2. 1 .. Len(Kips) \subseteq Pids
    BY <1>1, <1>2, TitlesAssumption DEF Pids
  <2> QED
    BY <2>1, <2>2
<1>18. mon \in MonitorStates /\ mon.pc = "rebuild"
  BY NoCleanupTyped DEF Init
<1>19. TypeOK
  BY <1>5, <1>6, <1>13, <1>15, <1>16, <1>17, <1>18 DEF TypeOK, Locks
<1>20. ThreadInv /\ ListInv
  BY <1>8, <1>14, <1>15, <1>16, IdleTyped DEF ThreadInv, ListInv
<1>21. KeptInv
  <2>1. Listed \subseteq Nodes
    BY <1>8 DEF Listed, Range, Elements
  <2> QED
    BY <1>12, <2>1 DEF KeptInv
<1>22. EndedInv /\ EveryProcessIsWatched
  BY <1>18 DEF EndedInv, EveryProcessIsWatched
<1> QED
  BY <1>19, <1>20, <1>21, <1>22 DEF Inv, TypeInv

(* Every step preserves the invariant.                                   *)
LEMMA NextInv == Inv /\ [Next]_vars => Inv'
<1> SUFFICES ASSUME Inv, [Next]_vars
             PROVE  Inv'
  OBVIOUS
<1>1. ASSUME NEW c \in Commands, Command(c)
      PROVE  Inv'
  BY <1>1, LaunchCommands, DebugCommands, UnregisterStep, TerminationCommands DEF Command
<1>2. ASSUME NEW t \in Threads, Launch(t) \/ Termination(t)
      PROVE  Inv'
  BY <1>2, LaunchStep, TerminationStep
<1>3. CASE RunTask("srv") \/ TaskBegins \/ RunQueuedInstead
  BY <1>3, RunTaskStep, TaskBeginsStep, RunQueuedInsteadStep
<1>4. CASE \/ NotifyApplication \/ NotifyTitle \/ NotifyChainloaded \/ ListCaller
           \/ NotifyAll \/ BeginKips \/ NotifyKips \/ Relaunch
  BY <1>4, NotifyApplicationStep, NotifyTitleStep, NotifyChainloadedStep, ListCallerStep,
     NotifyAllStep, KipsStep, RelaunchStep
<1>5. CASE \/ Rebuild \/ Signal \/ NewProcessArrived \/ ProcessEnded
           \/ Ended \/ ReleaseDependencies \/ Unregister \/ Forget
  BY <1>5, RebuildStep, WaitingSteps, EndedStep, CleanupSteps
<1>6. CASE ProcessEnds
  BY <1>6, ProcessEndsStep
<1>7. CASE UNCHANGED vars
  <2>1. /\ UNCHANGED <<list, free, mon>> /\ UNCHANGED proc /\ UNCHANGED kernel
        /\ UNCHANGED <<g_manager, g_debugNextApplication>> /\ UNCHANGED lock
        /\ UNCHANGED registered /\ UNCHANGED <<th, posted>>
    BY <1>7 DEF vars, listVars, managerVars, kernelVars
  <2> QED
    BY <2>1, ThreadStep, UnchangedKept
<1> QED
  BY <1>1, <1>2, <1>3, <1>4, <1>5, <1>6, <1>7 DEF Next, Threads

(* How the invariant follows from the specification.                       *)
LEMMA Invariance == Spec => []Inv
<1>1. Init => Inv
  BY InitInv
<1>2. Inv /\ [Next]_vars => Inv'
  BY NextInv
<1> QED
  BY <1>1, <1>2, PTL DEF Spec

-----------------------------------------------------------------------------
(* The results *)

(* Every variable has its type: no thread runs its arrays of dependencies  *)
(* out of step or uses a process id it never had, no count of references   *)
(* wraps around, whatever the clients ask for (process_data.c, launch.c).  *)
THEOREM TypeCorrect == Spec => []TypeOK
<1>1. Inv => TypeOK
  BY DEF Inv, TypeInv
<1> QED
  BY <1>1, Invariance, PTL

(* Every node of processDataBuffer is in the process list or in the free   *)
(* list, and once: ProcessList_New and ProcessList_Delete lose none and    *)
(* give none away twice (process_data.c, 27-60).                           *)
THEOREM NodesAreOwnedOnce == Spec => []NodesPartitioned
<1>1. Inv => NodesPartitioned
  <2> SUFFICES ASSUME Inv
               PROVE  NodesPartitioned
    OBVIOUS
  <2>1. /\ list \in Seq(Nodes) /\ free \in Seq(Nodes) /\ Distinct(list) /\ Distinct(free)
        /\ Elements(list) \cap Elements(free) = {} /\ Elements(list) \cup Elements(free) = Nodes
    BY DEF Inv, TypeInv, TypeOK, ListInv
  <2>2. PICK s : s = list \o free
    OBVIOUS
  <2>3. s \in Seq(Nodes) /\ Len(s) = Len(list) + Len(free)
    BY <2>1, <2>2, ConcatProperties
  <2>4. Elements(s) = Nodes
    BY <2>1, <2>2, ElementsOfConcat, ZenonT(60)
  <2>5. Distinct(s)
    BY <2>1, <2>2, DistinctConcat
  <2>6. Cardinality(Nodes) = Len(s)
    BY <2>3, <2>4, <2>5, CountDistinct
  <2> QED
    BY <2>1, <2>3, <2>6 DEF NodesPartitioned, Range, Elements
<1> QED
  BY <1>1, Invariance, PTL

(* No process escapes the monitor: the thread that puts a process into the *)
(* list signals newProcessEvent after it, and the monitor rebuilds its     *)
(* array after it has consumed the signal (process_monitor.c).             *)
THEOREM ProcessesAreWatched == Spec => []EveryProcessIsWatched
<1>1. Inv => EveryProcessIsWatched
  BY DEF Inv
<1> QED
  BY <1>1, Invariance, PTL

(* What the monitor has seen to end stays in the list only for the client  *)
(* that is to be told of it, and for UnregisterProcess.                    *)
THEOREM EndedProcessesAreKeptForClients == Spec => []KeptInv
<1>1. Inv => KeptInv
  BY DEF Inv
<1> QED
  BY <1>1, Invariance, PTL
=============================================================================
